----------------------------- MODULE FrontProofs -----------------------------
(***************************************************************************)
(* Theorems about what stands before the handlers, besides the limiter     *)
(* itself, for any constants: the login and the guards under whatever the  *)
(* server is started with, a client that obeys a refusal, and the logins   *)
(* of the browser client.                                                  *)
(***************************************************************************)
EXTENDS Access, RetryAfter, Session, TLAPS

----------------------------------------------------------------------------
(* Access: types *)

Account  == [role : Roles, active : BOOLEAN]
Token    == [user : Users, role : Roles, secret : Int, signed : Nat, ttl : Nat, expires : Nat]
Standing == [phase : {"idle", "unauthorized", "signed_in", "rate_limited", "forbidden", "lost"}]
Login    == [phase : {"login"}, user : Users, role : Roles, since : Nat]
Serving  == [phase : {"serving"}, token : Token, route : Routes, at : Nat]
Refused  == [phase : {"bad_token"}, token : Token, at : Nat, secret : Int]

AccessTypeInv ==
  /\ time \in 0 .. MaxClock
  /\ accounts \in [Users -> Account]
  /\ config.secret \in Int /\ config.ttl \in Nat
  /\ tokens \subseteq Token
  /\ visit \in [Visits -> Standing \union Login \union Serving \union Refused]
  /\ held \in [Users -> [Roles -> Nat]]

LEMMA CutOff ==
  ASSUME NEW a \in Nat, NEW b \in Nat, b > 0
  PROVE  /\ a \div b \in Nat
         /\ (a \div b) * b \in Nat
         /\ (a \div b) * b <= a
         /\ a < (a \div b) * b + b
OBVIOUS

LEMMA AccessNumbers ==
  ASSUME AccessParameters
  PROVE  /\ LoginTime \in Nat /\ MaxClock \in Nat /\ Never \in Nat
         /\ 0 \in 0 .. MaxClock
         /\ \A t \in 0 .. MaxClock : t \in Nat /\ t < Never
BY DEF AccessParameters, Never

\* What is cut to seconds is less than a second below what was there.
LEMMA Seconds ==
  ASSUME NEW n \in Nat
  PROVE  /\ n \div PerSecond \in Nat
         /\ (n \div PerSecond) * PerSecond \in Nat
         /\ (n \div PerSecond) * PerSecond <= n
         /\ n < (n \div PerSecond) * PerSecond + PerSecond
         /\ PerSecond \in Nat /\ PerSecond > 0
<1>1. PerSecond \in Nat /\ PerSecond > 0
  BY TicksAreParts
<1>. QED
  BY <1>1, CutOff

\* Whatever was set, absent and malformed numbers included: the lifetime of tokens is
\* positive, although Validate does not look at it.
LEMMA LifetimesArePositive ==
  ASSUME AccessParameters, NEW e \in Environments
  PROVE  Load(e).secret \in Int /\ Load(e).ttl \in Nat /\ Load(e).ttl > 0
<1>1. e.ttl \in Settings /\ e.secret \in Settings
  BY DEF AccessParameters, Environment
<1>2. 8 * 3600 * PerSecond \in Nat /\ 8 * 3600 * PerSecond > 0
  BY TicksAreParts
<1>3. DurationEnv(e.ttl, 8 * 3600 * PerSecond) \in Nat /\ DurationEnv(e.ttl, 8 * 3600 * PerSecond) > 0
  BY <1>1, <1>2 DEF DurationEnv, Settings
<1>. QED
  BY <1>1, <1>3 DEF Load, Settings

LEMMA AccessTypeInit == AccessParameters /\ AccessInit => AccessTypeInv
<1> SUFFICES ASSUME AccessParameters, AccessInit PROVE AccessTypeInv
  OBVIOUS
<1>1. accounts \in [Users -> Account]
  <2>1. \A role \in Roles : Active(role) \in Account
    BY DEF Active, Account
  <2>. QED
    BY <2>1 DEF AccessInit
<1>2. visit \in [Visits -> Standing]
  BY DEF AccessInit, NoRequest, Standing
<1>3. config.secret \in Int /\ config.ttl \in Nat
  BY LifetimesArePositive DEF AccessInit
<1>. QED
  BY <1>1, <1>2, <1>3, AccessNumbers DEF AccessInit, AccessTypeInv

LEMMA RepliesKeepTypes ==
  ASSUME AccessTypeInv, NEW r \in Visits, NEW answer \in {"unauthorized", "rate_limited", "forbidden"},
         Reply(r, answer)
  PROVE  AccessTypeInv'
<1>1. [phase |-> answer] \in Standing
  BY DEF Standing
<1>. QED
  BY <1>1 DEF Reply, AccessTypeInv

LEMMA HandleKeepsTypes ==
  ASSUME AccessParameters, AccessTypeInv, NEW r \in Visits, Handle(r)
  PROVE  AccessTypeInv'
<1>1. CASE LoginRefused(r) \/ Limited(r) \/ MissingToken(r) \/ Forbidden(r)
  BY <1>1, RepliesKeepTypes DEF LoginRefused, Limited, MissingToken, Forbidden
<1>2. CASE FindUser(r)
  <2>1. PICK u \in Users :
          visit' = [visit EXCEPT ![r] = [phase |-> "login", user |-> u, role |-> accounts[u].role,
                                     since |-> time]]
    BY <1>2 DEF FindUser
  <2>2. [phase |-> "login", user |-> u, role |-> accounts[u].role, since |-> time] \in Login
    BY AccessNumbers DEF AccessTypeInv, Account, Login
  <2>. QED
    BY <1>2, <2>1, <2>2 DEF FindUser, AccessTypeInv
<1>3. CASE Sign(r)
  <2>1. visit[r] \in Login
    BY <1>3 DEF Sign, AccessTypeInv, Standing, Serving, Refused
  <2>2. time \in Nat /\ time + config.ttl \in Nat
    BY AccessNumbers DEF AccessTypeInv
  <2>3. (time + config.ttl) \div PerSecond \in Nat
    BY <2>2, Seconds
  <2>4. [user |-> visit[r].user, role |-> visit[r].role, secret |-> config.secret,
         signed |-> time, ttl |-> config.ttl,
         expires |-> (time + config.ttl) \div PerSecond] \in Token
    BY <2>1, <2>2, <2>3 DEF AccessTypeInv, Login, Token
  <2>5. [phase |-> "signed_in"] \in Standing
    BY DEF Standing
  <2>. QED
    BY <1>3, <2>4, <2>5 DEF Sign, AccessTypeInv
<1>4. CASE Admit(r)
  <2>1. PICK tk \in tokens, route \in Routes :
          visit' = [visit EXCEPT ![r] = [phase |-> "serving", token |-> tk, route |-> route,
                                     at |-> time]]
    BY <1>4 DEF Admit
  <2>2. [phase |-> "serving", token |-> tk, route |-> route, at |-> time] \in Serving
    BY AccessNumbers DEF AccessTypeInv, Serving
  <2>. QED
    BY <1>4, <2>1, <2>2 DEF Admit, AccessTypeInv
<1>5. CASE BadToken(r)
  <2>1. PICK tk \in tokens :
          visit' = [visit EXCEPT ![r] = [phase |-> "bad_token", token |-> tk, at |-> time,
                                     secret |-> config.secret]]
    BY <1>5 DEF BadToken
  <2>2. [phase |-> "bad_token", token |-> tk, at |-> time, secret |-> config.secret] \in Refused
    BY AccessNumbers DEF AccessTypeInv, Refused
  <2>. QED
    BY <1>5, <2>1, <2>2 DEF BadToken, AccessTypeInv
<1>. QED
  BY <1>1, <1>2, <1>3, <1>4, <1>5 DEF Handle

LEMMA AccessTypeStep == AccessParameters /\ AccessTypeInv /\ [AccessNext]_accessVars => AccessTypeInv'
<1> SUFFICES ASSUME AccessParameters, AccessTypeInv, [AccessNext]_accessVars PROVE AccessTypeInv'
  OBVIOUS
<1>1. CASE ChangeAccount
  <2>1. PICK u \in Users, role \in Roles, active \in BOOLEAN :
          /\ accounts' = [accounts EXCEPT ![u] = [role |-> role, active |-> active]]
          /\ held' = IF active THEN [held EXCEPT ![u][role] = time] ELSE held
    BY <1>1 DEF ChangeAccount
  <2>2. [role |-> role, active |-> active] \in Account
    BY DEF Account
  <2>3. [held EXCEPT ![u][role] = time] \in [Users -> [Roles -> Nat]]
    BY AccessNumbers DEF AccessTypeInv
  <2>. QED
    BY <1>1, <2>1, <2>2, <2>3 DEF ChangeAccount, AccessTypeInv
<1>2. CASE TimePasses
  <2>1. time' \in 0 .. MaxClock
    BY <1>2, AccessNumbers DEF TimePasses, AccessTypeInv
  <2>2. ASSUME NEW u \in Users
        PROVE  [held[u] EXCEPT ![accounts[u].role] = time + 1] \in [Roles -> Nat]
    <3>1. held[u] \in [Roles -> Nat] /\ time + 1 \in Nat
      BY AccessNumbers DEF AccessTypeInv
    <3>. QED
      BY <3>1
  <2>3. held' \in [Users -> [Roles -> Nat]]
    BY <1>2, <2>2 DEF TimePasses, AccessTypeInv
  <2>. QED
    BY <1>2, <2>1, <2>3 DEF TimePasses, AccessTypeInv
<1>3. CASE Restart
  <2>1. [phase |-> "lost"] \in Standing
    BY DEF Standing
  <2>2. config'.secret \in Int /\ config'.ttl \in Nat
    BY <1>3, LifetimesArePositive DEF Restart
  <2>. QED
    BY <1>3, <2>1, <2>2 DEF Restart, AccessTypeInv
<1>4. CASE UNCHANGED accessVars
  BY <1>4 DEF accessVars, AccessTypeInv
<1>. QED
  BY <1>1, <1>2, <1>3, <1>4, HandleKeepsTypes DEF AccessNext

----------------------------------------------------------------------------
(* When a role was held *)

\* The history is right about the present, and is about the past.
HeldInv ==
  \A u \in Users :
    /\ accounts[u].active => held[u][accounts[u].role] = time
    /\ \A role \in Roles : held[u][role] = Never \/ held[u][role] <= time

\* Once a role was held, it was held since.
HeldGrows ==
  \A u \in Users, role \in Roles :
    held[u][role] # Never => held'[u][role] # Never /\ held'[u][role] >= held[u][role]

LEMMA HeldInit == AccessParameters /\ AccessInit => HeldInv
<1> SUFFICES ASSUME AccessParameters, AccessInit, NEW u \in Users
             PROVE  /\ accounts[u].active => held[u][accounts[u].role] = time
                    /\ \A role \in Roles : held[u][role] = Never \/ held[u][role] <= time
  BY DEF HeldInv
<1>1. accounts[u].role \in Roles
  BY DEF AccessInit, Active
<1>. QED
  BY <1>1, AccessNumbers DEF AccessInit

LEMMA HeldStep ==
  ASSUME AccessParameters, AccessTypeInv, HeldInv, [AccessNext]_accessVars
  PROVE  HeldInv' /\ HeldGrows
<1>1. CASE UNCHANGED <<time, accounts, held>>
  BY <1>1 DEF HeldInv, HeldGrows, AccessTypeInv
<1>2. CASE ChangeAccount
  <2>1. PICK u \in Users, role \in Roles, active \in BOOLEAN :
          /\ accounts' = [accounts EXCEPT ![u] = [role |-> role, active |-> active]]
          /\ held' = IF active THEN [held EXCEPT ![u][role] = time] ELSE held
          /\ time' = time
    BY <1>2 DEF ChangeAccount
  <2>2. time # Never /\ time \in Nat
    BY AccessNumbers DEF AccessTypeInv
  <2>3. ASSUME NEW v \in Users, NEW s \in Roles
        PROVE  held'[v][s] = IF active /\ v = u /\ s = role THEN time ELSE held[v][s]
    BY <2>1 DEF AccessTypeInv
  <2>4. ASSUME NEW v \in Users
        PROVE  accounts'[v] = IF v = u THEN [role |-> role, active |-> active] ELSE accounts[v]
    BY <2>1 DEF AccessTypeInv
  <2>5. \A v \in Users : accounts[v].role \in Roles
    BY DEF AccessTypeInv, Account
  <2>6. HeldInv'
    BY <2>1, <2>2, <2>3, <2>4, <2>5 DEF HeldInv
  <2>7. HeldGrows
    BY <2>2, <2>3 DEF HeldInv, HeldGrows, AccessTypeInv
  <2>. QED
    BY <2>6, <2>7
<1>3. CASE TimePasses
  <2>1. /\ time \in Nat /\ time' = time + 1 /\ accounts' = accounts
        /\ time + 1 # Never /\ time # Never
    BY <1>3, AccessNumbers DEF TimePasses, AccessTypeInv, Never
  <2>2. ASSUME NEW v \in Users, NEW s \in Roles
        PROVE  held'[v][s] = IF accounts[v].active /\ s = accounts[v].role THEN time + 1
                             ELSE held[v][s]
    BY <1>3 DEF TimePasses, AccessTypeInv
  <2>3. \A v \in Users : accounts[v].role \in Roles
    BY DEF AccessTypeInv, Account
  <2>4. HeldInv'
    BY <2>1, <2>2, <2>3 DEF HeldInv, AccessTypeInv
  <2>5. HeldGrows
    BY <2>1, <2>2 DEF HeldInv, HeldGrows, AccessTypeInv
  <2>. QED
    BY <2>4, <2>5
<1>. QED
  BY <1>1, <1>2, <1>3
     DEF AccessNext, accessVars, Handle, LoginRefused, FindUser, Sign, Limited, MissingToken, BadToken,
         Forbidden, Admit, Reply, Restart

----------------------------------------------------------------------------
(* Tokens and the requests they admit *)

\* A login reads the account, and is answered within LoginTime.
LoginIsRecent(r) ==
  visit[r].phase = "login" =>
    /\ visit[r].since + LoginTime >= time
    /\ held[visit[r].user][visit[r].role] # Never
    /\ held[visit[r].user][visit[r].role] >= visit[r].since

\* A token is signed within LoginTime of the reading of its role, in the past.
TokenIsRecent(tk) ==
  /\ held[tk.user][tk.role] # Never
  /\ held[tk.user][tk.role] + LoginTime >= tk.signed
  /\ tk.expires = (tk.signed + tk.ttl) \div PerSecond

\* What is kept about a request that a token let in, or not.
ServedRecently(r) ==
  visit[r].phase = "serving" =>
    LET tk == visit[r].token IN
    /\ TokenIsRecent(tk)
    /\ HasMinimumRole(tk.role, Minimum(visit[r].route))
    /\ visit[r].at < tk.expires * PerSecond

RefusedRightly(r) ==
  visit[r].phase = "bad_token" =>
    LET tk == visit[r].token IN
    /\ tk.expires = (tk.signed + tk.ttl) \div PerSecond
    /\ tk.secret # visit[r].secret \/ visit[r].at >= tk.expires * PerSecond

RecentInv ==
  /\ \A r \in Visits : LoginIsRecent(r) /\ ServedRecently(r) /\ RefusedRightly(r)
  /\ \A tk \in tokens : TokenIsRecent(tk)

LEMMA RecentInit == AccessInit => RecentInv
BY DEF AccessInit, NoRequest, RecentInv, LoginIsRecent, ServedRecently, RefusedRightly

LEMMA RequestTypes ==
  ASSUME AccessTypeInv, NEW r \in Visits
  PROVE  /\ visit[r].phase = "login" =>
              visit[r].user \in Users /\ visit[r].role \in Roles /\ visit[r].since \in Nat
         /\ visit[r].phase = "serving" =>
              visit[r].token \in Token /\ visit[r].route \in Routes /\ visit[r].at \in Nat
         /\ visit[r].phase = "bad_token" => visit[r].token \in Token /\ visit[r].at \in Nat
<1>1. visit[r] \in Standing \/ visit[r] \in Login \/ visit[r] \in Serving \/ visit[r] \in Refused
  BY DEF AccessTypeInv
<1>. QED
  BY <1>1 DEF Standing, Login, Serving, Refused

LEMMA TokensStayRecent ==
  ASSUME AccessParameters, AccessTypeInv, AccessTypeInv', HeldGrows, NEW tk \in Token,
         TokenIsRecent(tk)
  PROVE  TokenIsRecent(tk)'
<1>1. \A u \in Users, role \in Roles : held[u][role] \in Nat /\ held'[u][role] \in Nat
  BY DEF AccessTypeInv
<1>2. tk.user \in Users /\ tk.role \in Roles /\ tk.signed \in Nat /\ LoginTime \in Nat
  BY AccessNumbers DEF Token
<1>. QED
  BY <1>1, <1>2 DEF TokenIsRecent, HeldGrows

LEMMA KeptStaysRecent ==
  ASSUME AccessParameters, AccessTypeInv, AccessTypeInv', HeldGrows, NEW r \in Visits,
         LoginIsRecent(r), ServedRecently(r), RefusedRightly(r), visit'[r] = visit[r],
         visit[r].phase = "login" => visit[r].since + LoginTime >= time'
  PROVE  LoginIsRecent(r)' /\ ServedRecently(r)' /\ RefusedRightly(r)'
<1>1. \A u \in Users, role \in Roles : held[u][role] \in Nat /\ held'[u][role] \in Nat
  BY DEF AccessTypeInv
<1>2. LoginIsRecent(r)'
  BY <1>1, RequestTypes DEF LoginIsRecent, HeldGrows
<1>3. ASSUME visit[r].phase = "serving"
      PROVE  TokenIsRecent(visit[r].token)'
  <2>1. visit[r].token \in Token /\ TokenIsRecent(visit[r].token)
    BY <1>3, RequestTypes DEF ServedRecently
  <2>2. PICK tk \in Token : tk = visit[r].token /\ TokenIsRecent(tk)
    BY <2>1
  <2>3. TokenIsRecent(tk)'
    BY <2>2, TokensStayRecent
  <2>. QED
    BY <2>2, <2>3 DEF TokenIsRecent
<1>4. ServedRecently(r)'
  BY <1>3 DEF ServedRecently, TokenIsRecent
<1>5. RefusedRightly(r)'
  BY DEF RefusedRightly
<1>. QED
  BY <1>2, <1>4, <1>5

\* A request that was just answered without a token, or cut off.
LEMMA StandingIsRecent ==
  ASSUME NEW r \in Visits, visit'[r].phase \notin {"login", "serving", "bad_token"}
  PROVE  LoginIsRecent(r)' /\ ServedRecently(r)' /\ RefusedRightly(r)'
BY DEF LoginIsRecent, ServedRecently, RefusedRightly

LEMMA HandleIsRecent ==
  ASSUME AccessParameters, AccessTypeInv, HeldInv, RecentInv, NEW r \in Visits, Handle(r)
  PROVE  /\ LoginIsRecent(r)' /\ ServedRecently(r)' /\ RefusedRightly(r)'
         /\ time' = time /\ \A q \in Visits \ {r} : visit'[q] = visit[q]
         /\ \A tk \in tokens' : tk \in tokens \/ TokenIsRecent(tk)'
<1>1. CASE LoginRefused(r) \/ Limited(r) \/ MissingToken(r) \/ Forbidden(r)
  <2>1. \E answer \in {"unauthorized", "rate_limited", "forbidden"} : Reply(r, answer)
    BY <1>1 DEF LoginRefused, Limited, MissingToken, Forbidden
  <2>. QED
    BY <2>1, StandingIsRecent DEF Reply, AccessTypeInv
<1>2. CASE FindUser(r)
  <2>1. PICK u \in Users :
          /\ accounts[u].active
          /\ visit' = [visit EXCEPT ![r] = [phase |-> "login", user |-> u,
                                        role |-> accounts[u].role, since |-> time]]
          /\ time' = time /\ held' = held /\ tokens' = tokens
    BY <1>2 DEF FindUser
  <2>2. /\ visit'[r].phase = "login" /\ visit'[r].user = u /\ visit'[r].role = accounts[u].role
        /\ visit'[r].since = time
    BY <2>1 DEF AccessTypeInv
  <2>3. /\ time \in Nat /\ time # Never /\ held[u][accounts[u].role] = time /\ LoginTime \in Nat
    BY <2>1, AccessNumbers DEF HeldInv, AccessTypeInv
  <2>4. LoginIsRecent(r)' /\ ServedRecently(r)' /\ RefusedRightly(r)'
    BY <2>1, <2>2, <2>3 DEF LoginIsRecent, ServedRecently, RefusedRightly
  <2>. QED
    BY <2>1, <2>4 DEF AccessTypeInv
<1>3. CASE Sign(r)
  <2>0. PICK new : new = [user |-> visit[r].user, role |-> visit[r].role, secret |-> config.secret,
                          signed |-> time, ttl |-> config.ttl,
                          expires |-> (time + config.ttl) \div PerSecond]
    OBVIOUS
  <2>1. /\ visit[r].phase = "login" /\ tokens' = tokens \union {new}
        /\ visit' = [visit EXCEPT ![r] = [phase |-> "signed_in"]]
        /\ time' = time /\ held' = held
    BY <1>3, <2>0 DEF Sign
  <2>2. /\ new.user = visit[r].user /\ new.role = visit[r].role /\ new.signed = time
        /\ new.expires = (new.signed + new.ttl) \div PerSecond
    BY <2>0
  <2>3. /\ visit[r].since \in Nat /\ time \in Nat /\ LoginTime \in Nat
        /\ held[visit[r].user][visit[r].role] \in Nat
    BY <2>1, RequestTypes, AccessNumbers DEF AccessTypeInv
  <2>4. LoginIsRecent(r)
    BY DEF RecentInv
  <2>5. TokenIsRecent(new)'
    BY <2>1, <2>2, <2>3, <2>4 DEF LoginIsRecent, TokenIsRecent
  <2>6. visit'[r].phase = "signed_in"
    BY <2>1 DEF AccessTypeInv
  <2>7. LoginIsRecent(r)' /\ ServedRecently(r)' /\ RefusedRightly(r)'
    BY <2>6, StandingIsRecent
  <2>8. \A tk \in tokens' : tk \in tokens \/ TokenIsRecent(tk)'
    BY <2>1, <2>5
  <2>9. \A q \in Visits \ {r} : visit'[q] = visit[q]
    BY <2>1 DEF AccessTypeInv
  <2>. QED
    BY <2>1, <2>7, <2>8, <2>9
<1>4. CASE Admit(r)
  <2>1. PICK tk \in tokens, route \in Routes :
          /\ Valid(tk) /\ HasMinimumRole(tk.role, Minimum(route))
          /\ visit' = [visit EXCEPT ![r] = [phase |-> "serving", token |-> tk,
                                        route |-> route, at |-> time]]
          /\ time' = time /\ held' = held /\ tokens' = tokens
    BY <1>4 DEF Admit
  <2>2. /\ visit'[r].phase = "serving" /\ visit'[r].token = tk
        /\ visit'[r].route = route /\ visit'[r].at = time
    BY <2>1 DEF AccessTypeInv
  <2>3. TokenIsRecent(tk)' /\ time < tk.expires * PerSecond
    BY <2>1 DEF RecentInv, TokenIsRecent, Valid
  <2>4. LoginIsRecent(r)' /\ ServedRecently(r)' /\ RefusedRightly(r)'
    BY <2>1, <2>2, <2>3 DEF LoginIsRecent, ServedRecently, RefusedRightly, TokenIsRecent
  <2>. QED
    BY <2>1, <2>4 DEF AccessTypeInv
<1>5. CASE BadToken(r)
  <2>1. PICK tk \in tokens :
          /\ ~Valid(tk)
          /\ visit' = [visit EXCEPT ![r] = [phase |-> "bad_token", token |-> tk, at |-> time,
                                        secret |-> config.secret]]
          /\ time' = time /\ held' = held /\ tokens' = tokens
    BY <1>5 DEF BadToken
  <2>2. /\ visit'[r].phase = "bad_token" /\ visit'[r].token = tk
        /\ visit'[r].secret = config.secret /\ visit'[r].at = time
    BY <2>1 DEF AccessTypeInv
  <2>3. tk.expires \in Nat /\ tk.expires * PerSecond \in Nat /\ time \in Nat
    BY AccessNumbers, TicksAreParts DEF AccessTypeInv, Token
  <2>4. tk.secret # config.secret \/ time >= tk.expires * PerSecond
    BY <2>1, <2>3 DEF Valid
  <2>5. tk.expires = (tk.signed + tk.ttl) \div PerSecond
    BY <2>1 DEF RecentInv, TokenIsRecent
  <2>6. LoginIsRecent(r)' /\ ServedRecently(r)' /\ RefusedRightly(r)'
    BY <2>2, <2>4, <2>5 DEF LoginIsRecent, ServedRecently, RefusedRightly
  <2>. QED
    BY <2>1, <2>6 DEF AccessTypeInv
<1>. QED
  BY <1>1, <1>2, <1>3, <1>4, <1>5 DEF Handle

LEMMA RecentStep ==
  ASSUME AccessParameters, AccessTypeInv, HeldInv, RecentInv, [AccessNext]_accessVars
  PROVE  RecentInv'
<1>1. AccessTypeInv' /\ HeldGrows
  BY AccessTypeStep, HeldStep
<1>2. ASSUME NEW q \in Visits, visit'[q] = visit[q],
             visit[q].phase = "login" => visit[q].since + LoginTime >= time'
      PROVE  LoginIsRecent(q)' /\ ServedRecently(q)' /\ RefusedRightly(q)'
  BY <1>1, <1>2, KeptStaysRecent DEF RecentInv
<1>3. \A tk \in tokens : TokenIsRecent(tk)'
  BY <1>1, TokensStayRecent DEF RecentInv, AccessTypeInv
<1>4. \A q \in Visits : visit[q].phase = "login" => visit[q].since + LoginTime >= time
  BY DEF RecentInv, LoginIsRecent
<1>5. CASE UNCHANGED accessVars \/ ChangeAccount
  BY <1>2, <1>3, <1>4, <1>5 DEF accessVars, ChangeAccount, RecentInv
<1>6. CASE TimePasses
  <2>1. \A q \in Visits : visit[q].phase = "login" => visit[q].since + LoginTime >= time'
    BY <1>6, RequestTypes, AccessNumbers DEF TimePasses, AccessTypeInv
  <2>. QED
    BY <1>2, <1>3, <1>6, <2>1 DEF TimePasses, RecentInv
<1>7. CASE Restart
  <2>1. ASSUME NEW q \in Visits
        PROVE  LoginIsRecent(q)' /\ ServedRecently(q)' /\ RefusedRightly(q)'
    <3>1. visit'[q] = visit[q] \/ visit'[q].phase = "lost"
      BY <1>7 DEF Restart
    <3>. QED
      BY <1>2, <1>4, <1>7, <3>1, StandingIsRecent DEF Restart
  <2>. QED
    BY <1>3, <1>7, <2>1 DEF Restart, RecentInv
<1>8. ASSUME NEW r \in Visits, Handle(r)
      PROVE  RecentInv'
  <2>1. \A q \in Visits : LoginIsRecent(q)' /\ ServedRecently(q)' /\ RefusedRightly(q)'
    BY <1>2, <1>4, <1>8, HandleIsRecent
  <2>2. \A tk \in tokens' : TokenIsRecent(tk)'
    BY <1>3, <1>8, HandleIsRecent
  <2>. QED
    BY <2>1, <2>2 DEF RecentInv
<1>. QED
  BY <1>5, <1>6, <1>7, <1>8 DEF AccessNext

AccessInv == AccessTypeInv /\ HeldInv /\ RecentInv

LEMMA AccessInvariant == AccessSpec => []AccessInv
<1> USE AccessAssumption
<1>1. AccessInit => AccessInv
  BY AccessTypeInit, HeldInit, RecentInit DEF AccessInv
<1>2. AccessInv /\ [AccessNext]_accessVars => AccessInv'
  BY AccessTypeStep, HeldStep, RecentStep DEF AccessInv
<1>. QED
  BY <1>1, <1>2, PTL DEF AccessSpec

\* Whatever the operator changes, and whatever the server is started with meanwhile: who is
\* served had an active account with a role the route asks for not longer ago than a
\* login takes and its token lives.
THEOREM RolesAreRecent == AccessSpec => []ServedOnARecentRole
<1>1. AccessInv => ServedOnARecentRole
  <2> SUFFICES ASSUME AccessInv, NEW r \in Visits, visit[r].phase = "serving"
               PROVE  LET tk == visit[r].token IN
                      \E role \in Roles :
                        /\ HasMinimumRole(role, Minimum(visit[r].route))
                        /\ held[tk.user][role] # Never
                        /\ held[tk.user][role] + LoginTime + tk.ttl > visit[r].at
    BY DEF ServedOnARecentRole
  <2>1. PICK tk \in Token : tk = visit[r].token
    BY RequestTypes DEF AccessInv
  <2>2. /\ held[tk.user][tk.role] # Never
        /\ held[tk.user][tk.role] + LoginTime >= tk.signed
        /\ tk.expires = (tk.signed + tk.ttl) \div PerSecond
        /\ HasMinimumRole(tk.role, Minimum(visit[r].route))
        /\ visit[r].at < tk.expires * PerSecond
    BY <2>1 DEF AccessInv, RecentInv, ServedRecently, TokenIsRecent
  <2>3. /\ tk.user \in Users /\ tk.role \in Roles /\ tk.signed \in Nat /\ tk.ttl \in Nat
        /\ LoginTime \in Nat /\ held[tk.user][tk.role] \in Nat /\ visit[r].at \in Nat
    BY <2>1, AccessAssumption, AccessNumbers, RequestTypes DEF AccessInv, AccessTypeInv, Token
  <2>4. tk.expires * PerSecond \in Nat /\ tk.expires * PerSecond <= tk.signed + tk.ttl
    <3>1. tk.signed + tk.ttl \in Nat
      BY <2>3
    <3>2. /\ ((tk.signed + tk.ttl) \div PerSecond) * PerSecond \in Nat
          /\ ((tk.signed + tk.ttl) \div PerSecond) * PerSecond <= tk.signed + tk.ttl
      BY <3>1, Seconds
    <3>. QED
      BY <2>2, <3>2
  <2>5. held[tk.user][tk.role] + LoginTime + tk.ttl > visit[r].at
    BY <2>2, <2>3, <2>4
  <2>. QED
    BY <2>1, <2>2, <2>3, <2>5
<1>. QED
  BY <1>1, AccessInvariant, PTL

\* Whatever lifetime is configured, and whenever in a second the login is: as long as the
\* secret stays, a token is good for what was announced, within a second.
THEOREM TokensKeepTheirWord == AccessSpec => []TokensLastAsTold
<1>1. AccessInv => TokensLastAsTold
  <2> SUFFICES ASSUME AccessInv, NEW r \in Visits
               PROVE  /\ visit[r].phase = "bad_token" =>
                           \/ visit[r].token.secret # visit[r].secret
                           \/ visit[r].at + PerSecond >
                                visit[r].token.signed + ExpiresIn(visit[r].token.ttl) * PerSecond
                      /\ visit[r].phase = "serving" =>
                           visit[r].at < visit[r].token.signed
                                         + ExpiresIn(visit[r].token.ttl) * PerSecond + PerSecond
    BY DEF TokensLastAsTold
  <2> SUFFICES ASSUME visit[r].phase \in {"bad_token", "serving"}
               PROVE  /\ visit[r].phase = "bad_token" =>
                           \/ visit[r].token.secret # visit[r].secret
                           \/ visit[r].at + PerSecond >
                                visit[r].token.signed + ExpiresIn(visit[r].token.ttl) * PerSecond
                      /\ visit[r].phase = "serving" =>
                           visit[r].at < visit[r].token.signed
                                         + ExpiresIn(visit[r].token.ttl) * PerSecond + PerSecond
    OBVIOUS
  <2>1. PICK tk \in Token : tk = visit[r].token
    BY RequestTypes DEF AccessInv
  <2>2. tk.signed \in Nat /\ tk.ttl \in Nat /\ visit[r].at \in Nat
    BY RequestTypes DEF AccessInv, Token
  <2>3. tk.expires = (tk.signed + tk.ttl) \div PerSecond
    BY <2>1 DEF AccessInv, RecentInv, ServedRecently, RefusedRightly, TokenIsRecent
  <2> DEFINE end  == tk.expires * PerSecond
             told == ExpiresIn(tk.ttl) * PerSecond
  <2>4. /\ end \in Nat /\ end <= tk.signed + tk.ttl /\ tk.signed + tk.ttl < end + PerSecond
        /\ PerSecond \in Nat
    <3>1. tk.signed + tk.ttl \in Nat
      BY <2>2
    <3>2. /\ ((tk.signed + tk.ttl) \div PerSecond) * PerSecond \in Nat
          /\ ((tk.signed + tk.ttl) \div PerSecond) * PerSecond <= tk.signed + tk.ttl
          /\ tk.signed + tk.ttl < ((tk.signed + tk.ttl) \div PerSecond) * PerSecond + PerSecond
      BY <3>1, Seconds
    <3>. QED
      BY <2>3, <3>2, TicksAreParts
  <2>5. told \in Nat /\ told <= tk.ttl /\ tk.ttl < told + PerSecond
    BY <2>2, Seconds DEF ExpiresIn
  <2>6. visit[r].phase = "bad_token" => tk.secret # visit[r].secret \/ visit[r].at >= end
    BY <2>1 DEF AccessInv, RecentInv, RefusedRightly
  <2>7. visit[r].phase = "serving" => visit[r].at < end
    BY <2>1 DEF AccessInv, RecentInv, ServedRecently
  <2> HIDE DEF end, told
  <2>8. visit[r].at >= end => visit[r].at + PerSecond > tk.signed + told
    BY <2>2, <2>4, <2>5
  <2>9. visit[r].at < end => visit[r].at < tk.signed + told + PerSecond
    BY <2>2, <2>4, <2>5
  <2>. QED
    BY <2>1, <2>6, <2>7, <2>8, <2>9 DEF told
<1>. QED
  BY <1>1, AccessInvariant, PTL

----------------------------------------------------------------------------
(* RetryAfter *)

Phases == {"asking", "counted", "told", "waiting", "served"}

\* The earliest tick at which the client may be counted again.
Resumes ==
  CASE phase = "told"    -> now + wait
    [] phase = "waiting" -> due
    [] OTHER             -> now

RetryTypeInv ==
  /\ now \in Nat /\ counted \in Nat /\ wait \in Nat /\ due \in Nat
  /\ phase \in Phases
  /\ refusals \in [MinuteNumbers -> Nat]
  /\ phase = "counted" => counted = MinuteOf(now)

\* The first refusal of a minute sends the client to its last second at the earliest, the
\* second one past its end.
WaitsLongEnough ==
  \A m \in MinuteNumbers :
    /\ refusals[m] <= 2
    /\ refusals[m] = 1 => Resumes > m * Minute - Second
    /\ refusals[m] = 2 => Resumes >= m * Minute

RetryInv == RetryTypeInv /\ WaitsLongEnough /\ NoLongerThanNeeded

LEMMA Steps ==
  ASSUME NEW p \in Nat, NEW b \in Nat
  PROVE  p * b \in Nat /\ (p + 1) * b = p * b + b
OBVIOUS

LEMMA TimesKeepsOrder ==
  ASSUME NEW p \in Nat, NEW q \in Nat, NEW b \in Nat, p <= q
  PROVE  p * b <= q * b
OBVIOUS

LEMMA RetryNumbers ==
  /\ Second \in Nat /\ Second > 0 /\ Minute \in Nat /\ Minute > 0
  /\ MaxTime \in Nat /\ Delays \subseteq Nat
BY RetryAssumption

\* A tick is in its minute.
LEMMA MinuteBounds ==
  ASSUME NEW t \in Nat
  PROVE  /\ MinuteOf(t) \in Nat /\ MinuteOf(t) >= 1
         /\ ResetAt(t) \in Nat /\ t < ResetAt(t) /\ ResetAt(t) <= t + Minute
<1> DEFINE q == t \div Minute
<1>1. q \in Nat /\ q * Minute <= t /\ t < q * Minute + Minute
  BY CutOff, RetryNumbers
<1>2. (q + 1) * Minute = q * Minute + Minute /\ q * Minute \in Nat
  BY <1>1, Steps, RetryNumbers
<1>3. MinuteOf(t) = q + 1 /\ ResetAt(t) = (q + 1) * Minute
  BY DEF MinuteOf, ResetAt
<1> HIDE DEF q
<1>. QED
  BY <1>1, <1>2, <1>3, RetryNumbers

LEMMA ResetsKeepOrder ==
  ASSUME NEW t \in Nat, NEW u \in Nat, t <= u
  PROVE  MinuteOf(t) <= MinuteOf(u) /\ ResetAt(t) <= ResetAt(u)
<1>1. /\ MinuteOf(t) \in Nat /\ ResetAt(t) \in Nat /\ t < ResetAt(t) /\ ResetAt(t) <= t + Minute
      /\ MinuteOf(u) \in Nat /\ ResetAt(u) \in Nat /\ u < ResetAt(u)
  BY MinuteBounds
<1>2. MinuteOf(t) <= MinuteOf(u)
  <2>1. SUFFICES ASSUME MinuteOf(u) + 1 <= MinuteOf(t) PROVE FALSE
    BY <1>1
  <2>2. (MinuteOf(u) + 1) * Minute <= MinuteOf(t) * Minute
    BY <1>1, <2>1, TimesKeepsOrder, RetryNumbers
  <2>3. (MinuteOf(u) + 1) * Minute = ResetAt(u) + Minute
    BY <1>1, Steps, RetryNumbers DEF ResetAt
  <2>. QED
    BY <1>1, <2>2, <2>3, RetryNumbers DEF ResetAt
<1>3. ResetAt(t) <= ResetAt(u)
  BY <1>1, <1>2, TimesKeepsOrder, RetryNumbers DEF ResetAt
<1>. QED
  BY <1>2, <1>3

\* The seconds of a refusal, as ticks: at least one second; less than a second short of
\* the reset, and never past it by more than that one second.
LEMMA WaitBounds ==
  ASSUME NEW reset \in Nat, NEW t \in Nat
  PROVE  LET told == SecondsToWait(reset, t) * Second IN
         /\ told \in Nat /\ told >= Second
         /\ t + told > reset - Second
         /\ told = Second \/ t + told <= reset
<1> DEFINE left == IF t > reset THEN 0 ELSE reset - t
           n    == left \div Second
           told == SecondsToWait(reset, t) * Second
<1>1. left \in Nat /\ (t <= reset => left = reset - t) /\ (t > reset => left = 0)
  OBVIOUS
<1> HIDE DEF left
<1>2. n \in Nat /\ n * Second <= left /\ left < n * Second + Second /\ n * Second \in Nat
  BY <1>1, CutOff, Steps, RetryNumbers
<1>3. SecondsToWait(reset, t) = IF 1 > n THEN 1 ELSE n
  BY DEF SecondsToWait, Larger, left
<1> HIDE DEF n
<1>4. CASE n = 0
  <2>1. SecondsToWait(reset, t) = 1 /\ n * Second = 0
    BY <1>3, <1>4, RetryNumbers
  <2>2. told = Second
    BY <2>1, RetryNumbers
  <2> HIDE DEF told
  <2>. QED
    BY <1>1, <1>2, <2>1, <2>2, RetryNumbers DEF told
<1>5. CASE n >= 1
  <2>1. told = n * Second
    BY <1>2, <1>3, <1>5
  <2>2. 1 * Second <= n * Second
    BY <1>2, <1>5, TimesKeepsOrder, RetryNumbers
  <2> HIDE DEF told
  <2>. QED
    BY <1>1, <1>2, <2>1, <2>2, RetryNumbers DEF told
<1>. QED
  BY <1>2, <1>4, <1>5

LEMMA RetryInvInit == RetryInit => RetryInv
<1> SUFFICES ASSUME RetryInit PROVE RetryInv
  OBVIOUS
<1>1. now \in Nat /\ phase = "asking" /\ refusals = [m \in MinuteNumbers |-> 0]
  BY RetryNumbers DEF RetryInit
<1>. QED
  BY <1>1 DEF RetryInit, RetryInv, RetryTypeInv, Phases, WaitsLongEnough, NoLongerThanNeeded

LEMMA AskKeeps == RetryInv /\ Ask => RetryInv'
<1> SUFFICES ASSUME RetryInv, Ask PROVE RetryInv'
  OBVIOUS
<1>1. now \in Nat /\ now' = now /\ wait' = wait /\ due' = due /\ refusals' = refusals
  BY DEF RetryInv, RetryTypeInv, Ask
<1>2. phase = "asking" /\ phase' \in {"counted", "served"} /\ counted' = MinuteOf(now)
  BY DEF Ask
<1>3. MinuteOf(now) \in Nat /\ MinuteOf(now)' = MinuteOf(now)
  BY <1>1, MinuteBounds DEF MinuteOf
<1>4. RetryTypeInv'
  BY <1>1, <1>2, <1>3 DEF RetryInv, RetryTypeInv, Phases
<1>5. WaitsLongEnough'
  BY <1>1, <1>2 DEF RetryInv, WaitsLongEnough, Resumes
<1>6. NoLongerThanNeeded'
  BY <1>2 DEF NoLongerThanNeeded
<1>. QED
  BY <1>4, <1>5, <1>6 DEF RetryInv

LEMMA HearKeeps == RetryInv /\ Hear => RetryInv'
<1> SUFFICES ASSUME RetryInv, Hear PROVE RetryInv'
  OBVIOUS
<1>1. PICK c \in Delays : now' = now + c /\ due' = now + c + wait
  BY DEF Hear
<1>2. /\ now \in Nat /\ wait \in Nat /\ now' \in Nat /\ due' \in Nat /\ due' >= now + wait
      /\ phase = "told" /\ phase' = "waiting"
      /\ counted' = counted /\ wait' = wait /\ refusals' = refusals
  BY <1>1, RetryNumbers DEF Hear, RetryInv, RetryTypeInv
<1>3. RetryTypeInv'
  BY <1>2 DEF RetryInv, RetryTypeInv, Phases
<1>4. WaitsLongEnough'
  <2>1. \A m \in MinuteNumbers : m * Minute \in Nat
    BY Steps, RetryNumbers DEF MinuteNumbers
  <2>. QED
    BY <1>2, <2>1, RetryNumbers DEF RetryInv, WaitsLongEnough, Resumes
<1>5. NoLongerThanNeeded'
  BY <1>2 DEF NoLongerThanNeeded
<1>. QED
  BY <1>3, <1>4, <1>5 DEF RetryInv

LEMMA ReturnKeeps == RetryInv /\ Return => RetryInv'
<1> SUFFICES ASSUME RetryInv, Return PROVE RetryInv'
  OBVIOUS
<1>1. PICK d \in Delays : now' = due + d
  BY DEF Return
<1>2. /\ due \in Nat /\ now' \in Nat /\ now' >= due
      /\ phase = "waiting" /\ phase' = "asking"
      /\ counted' = counted /\ wait' = wait /\ due' = due /\ refusals' = refusals
  BY <1>1, RetryNumbers DEF Return, RetryInv, RetryTypeInv
<1>3. RetryTypeInv'
  BY <1>2 DEF RetryInv, RetryTypeInv, Phases
<1>4. WaitsLongEnough'
  <2>1. \A m \in MinuteNumbers : m * Minute \in Nat
    BY Steps, RetryNumbers DEF MinuteNumbers
  <2>. QED
    BY <1>2, <2>1, RetryNumbers DEF RetryInv, WaitsLongEnough, Resumes
<1>5. NoLongerThanNeeded'
  BY <1>2 DEF NoLongerThanNeeded
<1>. QED
  BY <1>3, <1>4, <1>5 DEF RetryInv

LEMMA RefuseKeeps == RetryInv /\ Refuse => RetryInv'
<1> SUFFICES ASSUME RetryInv, Refuse PROVE RetryInv'
  OBVIOUS
<1>1. PICK a \in Delays, b \in Delays :
        /\ now' = now + a + b
        /\ wait' = SecondsToWait(ResetAt(now + a), now + a + b) * Second
  BY DEF Refuse
<1> DEFINE reset == ResetAt(now + a)
<1>2. /\ a \in Nat /\ b \in Nat /\ now \in Nat /\ now' = now + a + b /\ now' \in Nat
      /\ wait' = SecondsToWait(reset, now') * Second
      /\ phase = "counted" /\ phase' = "told" /\ counted' = counted /\ due' = due /\ due \in Nat
      /\ refusals' = [refusals EXCEPT ![counted] = @ + 1]
      /\ counted = MinuteOf(now) /\ counted \in Nat /\ refusals \in [MinuteNumbers -> Nat]
  BY <1>1, RetryNumbers DEF Refuse, RetryInv, RetryTypeInv
<1>3. /\ reset \in Nat /\ ResetAt(now) <= reset /\ reset <= ResetAt(now')
      /\ ResetAt(now) \in Nat /\ now < ResetAt(now) /\ ResetAt(now) = counted * Minute
      /\ ResetAt(now') \in Nat /\ now' < ResetAt(now')
  BY <1>2, MinuteBounds, ResetsKeepOrder DEF ResetAt
<1>4. /\ wait' \in Nat /\ wait' >= Second
      /\ now' + wait' > reset - Second
      /\ wait' = Second \/ now' + wait' <= reset
  <2> HIDE DEF reset
  <2>. QED
    BY <1>2, <1>3, WaitBounds
<1> HIDE DEF reset
<1>5. /\ now' + wait' >= now + Second
      /\ now' + wait' > counted * Minute - Second
      /\ now' + wait' <= ResetAt(now') + Second
  BY <1>2, <1>3, <1>4, RetryNumbers
<1>6. RetryTypeInv'
  <2>1. \A m \in MinuteNumbers : refusals[m] + 1 \in Nat
    BY <1>2
  <2>2. refusals' \in [MinuteNumbers -> Nat]
    BY <1>2, <2>1
  <2>. QED
    BY <1>2, <1>4, <2>2 DEF RetryTypeInv, Phases
<1>7. WaitsLongEnough'
  <2> SUFFICES ASSUME NEW m \in MinuteNumbers
               PROVE  /\ refusals'[m] <= 2
                      /\ refusals'[m] = 1 => now' + wait' > m * Minute - Second
                      /\ refusals'[m] = 2 => now' + wait' >= m * Minute
    BY <1>2 DEF WaitsLongEnough, Resumes
  <2>1. /\ refusals[m] \in Nat /\ refusals[m] <= 2 /\ m * Minute \in Nat
        /\ refusals[m] = 1 => now > m * Minute - Second
        /\ refusals[m] = 2 => now >= m * Minute
    BY <1>2, Steps, RetryNumbers DEF RetryInv, WaitsLongEnough, Resumes, MinuteNumbers
  <2>2. CASE m # counted
    BY <1>2, <1>4, <1>5, <2>1, <2>2, RetryNumbers
  <2>3. CASE m = counted
    <3>1. refusals'[m] = refusals[m] + 1
      BY <1>2, <2>3
    <3>2. now < m * Minute
      BY <1>3, <2>3
    <3>. QED
      BY <1>2, <1>4, <1>5, <2>1, <2>3, <3>1, <3>2, RetryNumbers
  <2>. QED
    BY <2>2, <2>3
<1>8. NoLongerThanNeeded'
  BY <1>5 DEF NoLongerThanNeeded, ResetAt, MinuteOf
<1>. QED
  BY <1>6, <1>7, <1>8 DEF RetryInv

LEMMA RetryInvariant == RetrySpec => []RetryInv
<1>1. RetryInv /\ UNCHANGED retryVars => RetryInv'
  BY DEF RetryInv, RetryTypeInv, WaitsLongEnough, NoLongerThanNeeded, Resumes, retryVars,
         ResetAt, MinuteOf
<1>2. RetryInv /\ [RetryNext]_retryVars => RetryInv'
  BY <1>1, AskKeeps, RefuseKeeps, HearKeeps, ReturnKeeps DEF RetryNext
<1>. QED
  BY <1>2, RetryInvInit, PTL DEF RetrySpec

\* Wherever in the minute the client asks, and however long counting, answering and
\* travelling take: no minute refuses it a third time (ratelimit.go:44-52).
THEOREM RefusedAtMostTwice == RetrySpec => []RefusedTwiceAtMost
<1>1. RetryInv => RefusedTwiceAtMost
  BY DEF RetryInv, WaitsLongEnough, RefusedTwiceAtMost
<1>. QED
  BY <1>1, RetryInvariant, PTL

\* And no answer sends it further than a second past the end of the minute in which the
\* answer is written (ratelimit.go:46-49).
THEOREM SentAwayBriefly == RetrySpec => []NoLongerThanNeeded
<1>1. RetryInv => NoLongerThanNeeded
  BY DEF RetryInv
<1>. QED
  BY <1>1, RetryInvariant, PTL

----------------------------------------------------------------------------
(* Session *)

\* `authentication' is never "rejected": a login that failed is dropped.
TabState ==
  [open : BOOLEAN, session : {None} \union Tokens, authentication : {"null", "pending"},
   logins : Nat, loading : BOOLEAN, waiting : Nat]

\* The promise, the flag of the page and the request in flight are one and the same, and
\* only a promise is waited for.
OneLogin(state) ==
  \/ /\ state.authentication = "null" /\ state.loading = FALSE
     /\ state.logins = 0 /\ state.waiting = 0
  \/ state.authentication = "pending" /\ state.loading = TRUE /\ state.logins = 1

Sound(state) == state \in TabState /\ OneLogin(state)

SharedInv ==
  /\ storage \in {None} \union Tokens
  /\ tab \in [Tabs -> TabState]
  /\ \A t \in Tabs : OneLogin(tab[t])

----------------------------------------------------------------------------
(* What the steps make of the state of a tab *)

LEMMA ClosedIsSound == Sound(Closed)
BY DEF Sound, OneLogin, TabState, Closed

LEMMA WaitingIsSound ==
  ASSUME NEW state, Sound(state), state.authentication = "pending"
  PROVE  Sound([state EXCEPT !.waiting = @ + 1])
<1>1. state \in TabState
  BY DEF Sound
<1>. QED
  BY <1>1 DEF Sound, OneLogin, TabState

\* Whoever asks for a login finds the one under way, or starts the only one.
LEMMA WithLoginIsSound ==
  ASSUME NEW state, Sound(state)
  PROVE  /\ Sound(WithLogin(state))
         /\ Sound([WithLogin(state) EXCEPT !.waiting = @ + 1])
         /\ WithLogin(state).authentication = "pending"
<1>1. CASE state.authentication = "null"
  <2>1. state.loading = FALSE /\ state.logins = 0
    BY <1>1 DEF Sound, OneLogin
  <2>2. WithLogin(state) = [state EXCEPT !.authentication = "pending", !.loading = TRUE,
                                         !.logins = @ + 1]
    BY <1>1 DEF WithLogin, StartsLogin
  <2>3. state \in TabState
    BY DEF Sound
  <2>4. WithLogin(state) = [state EXCEPT !.authentication = "pending", !.loading = TRUE,
                                         !.logins = 1]
    BY <2>1, <2>2
  <2>5. WithLogin(state) \in TabState
    <3>1. [state EXCEPT !.authentication = "pending", !.loading = TRUE,
                        !.logins = 1] \in TabState
      BY <2>3 DEF TabState
    <3>. QED
      BY <2>4, <3>1
  <2>6. OneLogin(WithLogin(state))
    BY <2>3, <2>4 DEF OneLogin, TabState
  <2>7. Sound(WithLogin(state))
    BY <2>5, <2>6 DEF Sound
  <2>8. WithLogin(state).authentication = "pending"
    BY <2>3, <2>4 DEF TabState
  <2>. QED
    BY <2>7, <2>8, WaitingIsSound
<1>2. CASE state.authentication # "null"
  <2>1. state.authentication = "pending"
    BY <1>2 DEF Sound, OneLogin
  <2>. QED
    BY <1>2, <2>1, WaitingIsSound DEF WithLogin, StartsLogin
<1>. QED
  BY <1>1, <1>2

LEMMA SettledIsSound ==
  ASSUME NEW state, Sound(state), state.logins > 0, NEW new \in {None} \union Tokens
  PROVE  /\ Sound(Settled(state, "null"))
         /\ Sound([Settled(state, "null") EXCEPT !.session = new])
<1>1. state.logins = 1
  BY DEF Sound, OneLogin, TabState
<1>2. state \in TabState
  BY DEF Sound
<1>3. Settled(state, "null") = [state EXCEPT !.logins = 0, !.loading = FALSE,
                                            !.authentication = "null", !.waiting = 0]
  BY <1>1 DEF Settled
<1>4. Settled(state, "null") \in TabState
  <2>1. [state EXCEPT !.logins = 0, !.loading = FALSE, !.authentication = "null",
                      !.waiting = 0] \in TabState
    BY <1>2 DEF TabState
  <2>. QED
    BY <1>3, <2>1
<1>5. OneLogin(Settled(state, "null"))
  BY <1>2, <1>3 DEF OneLogin, TabState
<1> DEFINE s == Settled(state, "null")
<1> HIDE DEF s
<1>6. s \in TabState /\ OneLogin(s)
  BY <1>4, <1>5 DEF s
<1>7. [s EXCEPT !.session = new] \in TabState
  BY <1>6 DEF TabState
<1>8. OneLogin([s EXCEPT !.session = new])
  BY <1>6 DEF OneLogin, TabState
<1>. QED
  BY <1>4, <1>5, <1>7, <1>8 DEF Sound, s

LEMMA SharedInit == Init => SharedInv
BY ClosedIsSound DEF Init, SharedInv, Sound

\* A step that replaces the state of one tab by a sound one.
LEMMA OneTab ==
  ASSUME SharedInv, NEW t \in Tabs, NEW state, Sound(state), tab' = [tab EXCEPT ![t] = state],
         storage' \in {None} \union Tokens
  PROVE  SharedInv'
BY DEF SharedInv, Sound

LEMMA EnsureKeeps ==
  ASSUME SharedInv, NEW t \in Tabs, NEW state, Sound(state), Ensure(t, state),
         storage' = storage
  PROVE  SharedInv'
<1> DEFINE next == WithLogin(state)
           after == IF storage # None THEN [state EXCEPT !.session = storage]
                    ELSE IF next.authentication = "pending"
                         THEN [next EXCEPT !.waiting = @ + 1] ELSE next
<1>1. tab' = [tab EXCEPT ![t] = after]
  BY DEF Ensure
<1>2. Sound([state EXCEPT !.session = storage])
  BY DEF Sound, OneLogin, TabState, SharedInv
<1>3. Sound(after)
  BY <1>2, WithLoginIsSound
<1>. QED
  BY <1>1, <1>3, OneTab DEF SharedInv

LEMMA SharedStep == SharedInv /\ [Next]_vars => SharedInv'
<1> SUFFICES ASSUME SharedInv, [Next]_vars PROVE SharedInv'
  OBVIOUS
<1>1. ASSUME NEW t \in Tabs
      PROVE  Sound(tab[t])
  BY <1>1 DEF SharedInv, Sound
<1>2. ASSUME NEW t \in Tabs, Open(t) PROVE SharedInv'
  <2>1. Sound([Closed EXCEPT !.open = TRUE, !.session = storage])
    BY DEF Sound, OneLogin, TabState, Closed, SharedInv
  <2>. QED
    BY <1>2, <2>1, EnsureKeeps DEF Open
<1>3. ASSUME NEW t \in Tabs, Navigate(t) PROVE SharedInv'
  BY <1>1, <1>3, EnsureKeeps DEF Navigate
<1>4. ASSUME NEW t \in Tabs, Close(t) PROVE SharedInv'
  BY <1>4, ClosedIsSound, OneTab DEF Close, SharedInv
<1>5. ASSUME NEW t \in Tabs, Logout(t) PROVE SharedInv'
  <2>1. Sound([tab[t] EXCEPT !.session = None])
    BY <1>1 DEF Sound, OneLogin, TabState
  <2>2. Sound(WithLogin([tab[t] EXCEPT !.session = None]))
    BY <2>1, WithLoginIsSound
  <2>. QED
    BY <1>5, <2>2, OneTab DEF Logout
<1>6. ASSUME NEW t \in Tabs, LoginSucceeds(t) PROVE SharedInv'
  <2>1. PICK new \in Tokens \ InUse :
          /\ storage' = new
          /\ tab' = [tab EXCEPT ![t] = [Settled(tab[t], "null") EXCEPT !.session = new]]
    BY <1>6 DEF LoginSucceeds
  <2>2. Sound([Settled(tab[t], "null") EXCEPT !.session = new])
    BY <1>1, <1>6, SettledIsSound DEF LoginSucceeds
  <2>. QED
    BY <2>1, <2>2, OneTab
<1>7. ASSUME NEW t \in Tabs, LoginFails(t) PROVE SharedInv'
  <2>1. Sound(Settled(tab[t], "null"))
    BY <1>1, <1>7, SettledIsSound DEF LoginFails
  <2>. QED
    BY <1>7, <2>1, OneTab DEF LoginFails, AfterFailure, SharedInv
<1>8. CASE UNCHANGED vars
  BY <1>8 DEF vars, SharedInv
<1>. QED
  BY <1>2, <1>3, <1>4, <1>5, <1>6, <1>7, <1>8 DEF Next

\* However many navigations, log-outs, closed tabs and answers interleave in however many
\* tabs: a tab has one login in flight exactly while it shows that it has one
\* (useAuth.ts:17-29, App.vue:3).
THEOREM OneLoginAtATime == Spec => []LoginsAreShared
<1>1. SharedInv => LoginsAreShared
  BY DEF SharedInv, OneLogin, LoginsAreShared
<1>. QED
  BY <1>1, SharedInit, SharedStep, PTL DEF Spec

\* And whatever failed, was closed or logged out before: what waits has a login to wait
\* for, and without one the next who needs a session starts one (useAuth.ts:17-29).
THEOREM NoLoginBlocks == Spec => []NobodyWaitsInVain
<1>1. SharedInv => NobodyWaitsInVain
  BY DEF SharedInv, OneLogin, NobodyWaitsInVain, StartsLogin
<1>. QED
  BY <1>1, SharedInit, SharedStep, PTL DEF Spec
=============================================================================
