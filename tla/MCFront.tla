------------------------------- MODULE MCFront -------------------------------
(***************************************************************************)
(* What stands between the network and the handlers, on small instances:   *)
(* the limiter, its refusals, and the login and the guards under the       *)
(* environments that the server is started with.                           *)
(* These parts share no state.  Each behaviour is one of a single part,    *)
(* chosen at the start; the others rest in an initial state of theirs.     *)
(***************************************************************************)
EXTENDS RateLimiter, RetryAfter, Access, TLC

VARIABLE part

\* Nothing that would decide how long a token lives, or whose it is, is set.
NothingSet ==
  [driver |-> "", secret |-> Absent, ttl |-> Absent, request |-> Absent,
   named |-> "IDLE_TIMEOUT", limit |-> Absent]

\* Lifetimes of one and a half seconds and of half a second, another secret together
\* with a lifetime that is not taken, and an environment that nothing starts with.
SomeEnvironments ==
  { [NothingSet EXCEPT !.ttl = Number(3)],
    [NothingSet EXCEPT !.ttl = Number(1), !.limit = Number(-1)],
    [NothingSet EXCEPT !.ttl = Number(-1), !.secret = Number(16)],
    [NothingSet EXCEPT !.request = Number(9)] }

FirstEnvironment == [NothingSet EXCEPT !.ttl = Number(3)]

OneKey    == CHOOSE k \in Keys : TRUE
OneServer == CHOOSE s \in Servers : TRUE

vars == <<part, limiterVars, retryVars, accessVars>>

Init ==
  /\ part \in {"shared", "alone", "obedient", "entry"}
  /\ LimiterInit /\ \A r \in Requests : req[r].key = OneKey /\ req[r].server = OneServer
  /\ RetryInit   /\ (part = "obedient" \/ now = 0)
  /\ AccessInit
  /\ \/ part = "entry" /\ \A u \in Users : accounts[u].role \in {"operator", "admin"}
     \/ part # "entry" /\ config = Load(FirstEnvironment) /\ \A u \in Users : accounts[u] = Active("admin")

\* All servers, and one client, who can use up its budget and exceed it.
SharedNext ==
  /\ part = "shared"
  /\ LimiterNext
  /\ \A r \in Requests : req'[r].key = OneKey
  /\ UNCHANGED <<part, retryVars, accessVars>>

\* All clients, and one server, which does not stop: a map that grows and is cleaned.
AloneNext ==
  /\ part = "alone"
  /\ LimiterNext
  /\ run' = run /\ \A r \in Requests : req'[r].server = OneServer
  /\ UNCHANGED <<part, retryVars, accessVars>>

ObedientNext ==
  part = "obedient" /\ RetryNext /\ UNCHANGED <<part, limiterVars, accessVars>>

EntryNext ==
  part = "entry" /\ AccessNext /\ UNCHANGED <<part, limiterVars, retryVars>>

Next == SharedNext \/ AloneNext \/ ObedientNext \/ EntryNext

Spec == Init /\ [][Next]_vars

Symmetry == Permutations(Requests) \union Permutations(Visits)
=============================================================================
