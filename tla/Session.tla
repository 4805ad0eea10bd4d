------------------------------- MODULE Session -------------------------------
(***************************************************************************)
(* The session of the browser client (src/frontend/src: hooks/useAuth.ts,  *)
(* api/client.ts, router/index.ts, App.vue).  Each tab shows a session of  *)
(* its own; the session that requests carry is in localStorage, which all  *)
(* tabs share.  A login that is under way is shared by all who wait for it *)
(* in the tab.  The client looks neither at the expiry of its token nor at *)
(* what the server says of it: a refusal changes no session.               *)
(***************************************************************************)
EXTENDS Naturals, FiniteSets

CONSTANTS
  Tabs,       \* the tabs of one browser
  Tokens,     \* names for tokens; one that nobody holds any more is used again
  MaxWaiting  \* bound: navigations that wait at once in a tab

None == "none"

ASSUME SessionTokens == None \notin Tokens /\ Cardinality(Tokens) > Cardinality(Tabs) + 1

VARIABLES
  storage,  \* the stored session
  tab       \* tab[t]: what the modules of tab t hold

vars == <<storage, tab>>

\* `logins' are the requests in flight; `authentication' is the promise they share;
\* `waiting' are the navigations that await it.
Closed == [open |-> FALSE, session |-> None, authentication |-> "null", logins |-> 0,
           loading |-> FALSE, waiting |-> 0]

InUse == {storage} \union {tab[t].session : t \in Tabs}

----------------------------------------------------------------------------
(* ensureSession *)

\* Deviation: every caller starts a login of its own.
AlwaysLogin(state) == state.open

\* `if (!authentication)'
StartsLogin(state) == state.authentication = "null"

\* The state of a tab in which a login was asked for.
WithLogin(state) ==
  IF StartsLogin(state)
  THEN [state EXCEPT !.authentication = "pending", !.loading = TRUE, !.logins = @ + 1]
  ELSE state

\* A navigation, or a page that is mounted: the stored session will do; without one
\* a login is awaited, or one that has failed is found.
Ensure(t, state) ==
  tab' = [tab EXCEPT ![t] =
    IF storage # None THEN [state EXCEPT !.session = storage]
    ELSE LET next == WithLogin(state) IN
         IF next.authentication = "pending" THEN [next EXCEPT !.waiting = @ + 1] ELSE next]

Open(t) ==
  /\ ~tab[t].open
  /\ Ensure(t, [Closed EXCEPT !.open = TRUE, !.session = storage])
  /\ UNCHANGED storage

Navigate(t) ==
  /\ tab[t].open
  /\ tab[t].waiting < MaxWaiting
  /\ Ensure(t, tab[t])
  /\ UNCHANGED storage

\* Closed or loaded anew: what it waited for is forgotten, localStorage is not.
Close(t) ==
  /\ tab[t].open
  /\ tab' = [tab EXCEPT ![t] = Closed]
  /\ UNCHANGED storage

\* The button is not there while a login is under way (App.vue).
Logout(t) ==
  /\ tab[t].open /\ ~tab[t].loading
  /\ storage' = None
  /\ tab' = [tab EXCEPT ![t] = WithLogin([tab[t] EXCEPT !.session = None])]

----------------------------------------------------------------------------
(* The answer to a login *)

\* Deviation: the navigations that share the login are not told.
TellsNobody(state, authentication) ==
  [state EXCEPT !.logins = @ - 1, !.loading = FALSE, !.authentication = authentication]

Settled(state, authentication) ==
  [state EXCEPT !.logins = @ - 1, !.loading = FALSE, !.authentication = authentication,
                !.waiting = 0]

\* Deviation: a login that failed stays the shared one.
KeepsFailure == "rejected"

\* finally
AfterFailure == "null"

LoginSucceeds(t) ==
  /\ tab[t].logins > 0
  /\ \E new \in Tokens \ InUse :
       /\ storage' = new
       /\ tab' = [tab EXCEPT ![t] = [Settled(tab[t], "null") EXCEPT !.session = new]]

\* An error or no answer: the navigations that waited are given up.
LoginFails(t) ==
  /\ tab[t].logins > 0
  /\ tab' = [tab EXCEPT ![t] = Settled(tab[t], AfterFailure)]
  /\ UNCHANGED storage

Init ==
  /\ storage \in {None} \union Tokens
  /\ tab = [t \in Tabs |-> Closed]

Next ==
  \E t \in Tabs : Open(t) \/ Navigate(t) \/ Close(t) \/ Logout(t)
                  \/ LoginSucceeds(t) \/ LoginFails(t)

Spec == Init /\ [][Next]_vars

\* The browser settles a login: with an answer, or with an error when the connection is
\* lost or given up.  Nothing is asked of the user, who may never click again, nor of the
\* server, which may refuse every login.
Fairness == \A t \in Tabs : WF_vars(LoginSucceeds(t) \/ LoginFails(t))

FairSpec == Spec /\ Fairness

----------------------------------------------------------------------------
(* Properties *)

\* A tab sends one login at a time, however many navigations need it, and shows that it
\* does: so nobody logs out under a login whose answer would bring the session back
\* (useAuth.ts:17-29, App.vue:3).
LoginsAreShared ==
  \A t \in Tabs : tab[t].logins = IF tab[t].loading THEN 1 ELSE 0

\* Whoever waits for a session waits for a login in flight, and where none is, the next
\* who needs a session sends one: a login that failed blocks nobody after it
\* (useAuth.ts:17-29).  Nobody needs one while a session is stored, working or not.
NobodyWaitsInVain ==
  \A t \in Tabs : tab[t].open /\ tab[t].logins = 0 =>
    tab[t].waiting = 0 /\ StartsLogin(tab[t])

\* No navigation waits for ever: an answer of either kind ends it (router/index.ts:19-23).
NavigationsEnd == \A t \in Tabs : tab[t].waiting > 0 ~> tab[t].waiting = 0
=============================================================================
