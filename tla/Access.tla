------------------------------- MODULE Access -------------------------------
(***************************************************************************)
(* Who is let in: Login signs a token that carries the role of the moment  *)
(* (service/security.go), the chain of router/router.go checks the token   *)
(* and its role and asks the database nothing (middleware/auth.go).  The   *)
(* program never changes an account; an operator of the database may, and  *)
(* may start the server with another environment.                          *)
(***************************************************************************)
EXTENDS Configuration, FiniteSets, Workflow

CONSTANTS
  Users,        \* rows of the user table
  Visits,       \* the requests the server may receive, logins included
  Environments, \* what the server may be started with
  LoginTime,    \* how many ticks a login may take at most
  MaxClock,     \* bound: the last tick
  MaxRestarts,  \* bound: how often the server is started again
  MaxChanges    \* bound: how often accounts are changed

AccessParameters ==
  /\ Environments \subseteq Environment
  /\ {LoginTime, MaxClock, MaxRestarts, MaxChanges} \subseteq Nat

ASSUME AccessAssumption == AccessParameters

Never  == MaxClock + 1
Routes == {"overview", "session", "read", "write", "remove", "audits", "summary",
           "history", "runtime"}

VARIABLES
  time,      \* the tick
  accounts,  \* accounts[u]: the role of user u, and whether the account is active
  config,    \* the configuration the server was last started with
  restarts,  \* how often it was started again
  tokens,    \* the tokens that were signed
  visit,     \* visit[r]: where request r stands
  changes,   \* how often an account was changed
  held       \* history: held[u][role]: the last tick in which u, active, had that role

accessVars == <<time, accounts, config, restarts, tokens, visit, changes, held>>

----------------------------------------------------------------------------
(* Tokens and guards *)

\* Deviation: exp is left out of the check.
SignatureFits(tk) == tk.secret = config.secret

\* jwt.Parse: the method, the signature under the secret of now, iss and exp.
Valid(tk) == tk.secret = config.secret /\ time < tk.expires * PerSecond

\* Deviation: a second that was begun is announced in full.
RoundedUp(ttl) == (ttl + PerSecond - 1) \div PerSecond

\* The seconds that the answer to a login announces: cut off, as exp is.
ExpiresIn(ttl) == ttl \div PerSecond

\* The lowest role a route admits; every known role has at least the rank of a viewer.
Minimum(route) ==
  CASE route \in {"overview", "session", "read"}               -> "viewer"
    [] route = "write"                                         -> "operator"
    [] route \in {"audits", "summary", "history", "runtime"}   -> "reviewer"
    [] route = "remove"                                        -> "admin"

Active(role) == [role |-> role, active |-> TRUE]

NoRequest == [phase |-> "idle"]

Reply(r, answer) ==
  /\ visit' = [visit EXCEPT ![r] = [phase |-> answer]]
  /\ UNCHANGED <<time, accounts, config, restarts, tokens, changes, held>>

\* A process that did not start answers nobody.
Idle(r) == Starts(config) /\ visit[r].phase = "idle"

----------------------------------------------------------------------------
(* Login, which is outside the limiter *)

\* An unknown user, an inactive one and a wrong password get the same answer.
LoginRefused(r) == Idle(r) /\ Reply(r, "unauthorized")

FindUser(r) ==
  /\ Idle(r)
  /\ \E u \in Users :
       /\ accounts[u].active
       /\ visit' = [visit EXCEPT ![r] = [phase |-> "login", user |-> u, role |-> accounts[u].role,
                                         since |-> time]]
  /\ UNCHANGED <<time, accounts, config, restarts, tokens, changes, held>>

\* The password was compared meanwhile.  The row that was read decides, so the second
\* check of `active' always passes.
Sign(r) ==
  /\ visit[r].phase = "login"
  /\ tokens' = tokens \union
       {[user |-> visit[r].user, role |-> visit[r].role, secret |-> config.secret,
         signed |-> time, ttl |-> config.ttl, expires |-> (time + config.ttl) \div PerSecond]}
  /\ visit' = [visit EXCEPT ![r] = [phase |-> "signed_in"]]
  /\ UNCHANGED <<time, accounts, config, restarts, changes, held>>

----------------------------------------------------------------------------
(* The chain of a request under /api *)

Limited(r) == Idle(r) /\ Reply(r, "rate_limited")

MissingToken(r) == Idle(r) /\ Reply(r, "unauthorized")

BadToken(r) ==
  /\ Idle(r)
  /\ \E tk \in tokens :
       /\ ~Valid(tk)
       /\ visit' = [visit EXCEPT ![r] = [phase |-> "bad_token", token |-> tk, at |-> time,
                                         secret |-> config.secret]]
  /\ UNCHANGED <<time, accounts, config, restarts, tokens, changes, held>>

Forbidden(r) ==
  /\ Idle(r)
  /\ \E tk \in tokens, route \in Routes :
       Valid(tk) /\ ~HasMinimumRole(tk.role, Minimum(route))
  /\ Reply(r, "forbidden")

\* Authenticate and the guard of the route let the request through to its handler.
Admit(r) ==
  /\ Idle(r)
  /\ \E tk \in tokens, route \in Routes :
       /\ Valid(tk)
       /\ HasMinimumRole(tk.role, Minimum(route))
       /\ visit' = [visit EXCEPT ![r] = [phase |-> "serving", token |-> tk, route |-> route,
                                         at |-> time]]
  /\ UNCHANGED <<time, accounts, config, restarts, tokens, changes, held>>

----------------------------------------------------------------------------
(* The environment *)

ChangeAccount ==
  /\ changes < MaxChanges
  /\ changes' = changes + 1
  /\ \E u \in Users, role \in Roles, active \in BOOLEAN :
       /\ accounts' = [accounts EXCEPT ![u] = [role |-> role, active |-> active]]
       /\ held' = IF active THEN [held EXCEPT ![u][role] = time] ELSE held
  /\ UNCHANGED <<time, config, restarts, tokens, visit>>

\* A login in flight is older by it.
TimePasses ==
  /\ time < MaxClock
  /\ \A r \in Visits : visit[r].phase = "login" => time < visit[r].since + LoginTime
  /\ time' = time + 1
  /\ held' = [u \in Users |->
       IF accounts[u].active THEN [held[u] EXCEPT ![accounts[u].role] = time + 1] ELSE held[u]]
  /\ UNCHANGED <<accounts, config, restarts, tokens, visit, changes>>

\* The server stops, and is started with another environment, if it starts with that;
\* what was in flight is lost.
Restart ==
  /\ restarts < MaxRestarts
  /\ restarts' = restarts + 1
  /\ \E e \in Environments : config' = Load(e)
  /\ visit' = [r \in Visits |-> IF visit[r].phase \in {"login", "serving"}
                                  THEN [phase |-> "lost"] ELSE visit[r]]
  /\ UNCHANGED <<time, accounts, tokens, changes, held>>

AccessInit ==
  /\ time = 0
  /\ accounts \in [Users -> {Active(role) : role \in Roles}]
  /\ \E e \in Environments : config = Load(e)
  /\ restarts = 0
  /\ tokens = {}
  /\ visit = [r \in Visits |-> NoRequest]
  /\ changes = 0
  /\ held = [u \in Users |-> [role \in Roles |-> IF role = accounts[u].role THEN 0 ELSE Never]]

Handle(r) ==
  \/ LoginRefused(r) \/ FindUser(r) \/ Sign(r)
  \/ Limited(r) \/ MissingToken(r) \/ BadToken(r) \/ Forbidden(r) \/ Admit(r)

AccessNext == (\E r \in Visits : Handle(r)) \/ ChangeAccount \/ TimePasses \/ Restart

AccessSpec == AccessInit /\ [][AccessNext]_accessVars

----------------------------------------------------------------------------
(* Properties *)

\* Whoever is served had an active account with a role the route asks for not longer ago
\* than a login takes and its token lives (security.go:35-47, auth.go:31-40 and 83): a
\* demotion or deactivation takes effect by then, and not necessarily before.
ServedOnARecentRole ==
  \A r \in Visits : visit[r].phase = "serving" =>
    LET tk == visit[r].token IN
    \E role \in Roles :
      /\ HasMinimumRole(role, Minimum(visit[r].route))
      /\ held[tk.user][role] # Never
      /\ held[tk.user][role] + LoginTime + tk.ttl > visit[r].at

\* What a login announces is what it gives, but for the two cuts to whole seconds: until
\* the secret changes, a token is refused less than a second too early, and admitted
\* less than a second too long (security.go:45 and 53, auth.go:31-36).  A lifetime below
\* a second is announced as none, and may be none.
TokensLastAsTold ==
  \A r \in Visits :
    /\ visit[r].phase = "bad_token" =>
         LET tk == visit[r].token IN
         \/ tk.secret # visit[r].secret
         \/ visit[r].at + PerSecond > tk.signed + ExpiresIn(tk.ttl) * PerSecond
    /\ visit[r].phase = "serving" =>
         LET tk == visit[r].token IN
         visit[r].at < tk.signed + ExpiresIn(tk.ttl) * PerSecond + PerSecond
=============================================================================
