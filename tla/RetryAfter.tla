----------------------------- MODULE RetryAfter -----------------------------
(***************************************************************************)
(* A client that obeys the Retry-After of the limiter's refusals           *)
(* (middleware/ratelimit.go:44-52).  The header counts whole seconds, cut  *)
(* off, so the client may come back before the minute is over.  Time is    *)
(* counted in ticks, several to a second.                                  *)
(***************************************************************************)
EXTENDS Naturals

CONSTANTS
  Second,   \* ticks in a second
  Minute,   \* ticks in a minute
  Delays,   \* how many ticks counting, answering and travelling may take
  MaxTime   \* bound: the last tick of a behaviour

ASSUME RetryAssumption ==
  /\ {Second, Minute} \subseteq Nat \ {0} /\ Minute % Second = 0
  /\ Delays \subseteq Nat /\ MaxTime \in Nat

VARIABLES
  now,       \* the current tick
  phase,     \* "asking", "counted" (over the limit), "told", "waiting", "served"
  counted,   \* the minute under which the request was counted, from 1 on
  wait,      \* how many ticks the client is told to wait
  due,       \* the tick at which the client may ask again
  refusals   \* history: refusals[m]: how often minute m refused the client

retryVars == <<now, phase, counted, wait, due, refusals>>

MinuteOf(t) == t \div Minute + 1
MinuteNumbers == 1 .. MinuteOf(MaxTime + Minute)

Larger(a, b) == IF a > b THEN a ELSE b

----------------------------------------------------------------------------

\* Deviation: the minute after next.
SecondReset(t) == (MinuteOf(t) + 1) * Minute

\* time.Now().Truncate(time.Minute).Add(time.Minute)
ResetAt(t) == MinuteOf(t) * Minute

\* Deviation: no lower bound; what is left of the last second is cut to nothing.
WithoutFloor(reset, t) == (reset - t) \div Second

\* max(1, int(time.Until(resetAt).Seconds())), in seconds.
SecondsToWait(reset, t) ==
  Larger(1, (IF t > reset THEN 0 ELSE reset - t) \div Second)

----------------------------------------------------------------------------

\* The limiter counts the request.  Whether the count is over the limit is up to the
\* other requests of the client's address, and to which backend counts.
Ask ==
  /\ phase = "asking"
  /\ now <= MaxTime
  /\ counted' = MinuteOf(now)
  /\ phase' \in {"counted", "served"}
  /\ UNCHANGED <<now, wait, due, refusals>>

\* The refusal: resetAt is computed at one reading of the clock, Retry-After at a
\* later one.  Between the counting and the first, the answer of Redis may take its
\* time, or the local count may have waited for Redis to fail.
Refuse ==
  /\ phase = "counted"
  /\ \E a, b \in Delays :
       /\ now' = now + a + b
       /\ wait' = SecondsToWait(ResetAt(now + a), now + a + b) * Second
  /\ refusals' = [refusals EXCEPT ![counted] = @ + 1]
  /\ phase' = "told"
  /\ UNCHANGED <<counted, due>>

\* The answer arrives, and the client begins to wait.
Hear ==
  /\ phase = "told"
  /\ \E c \in Delays :
       /\ now' = now + c
       /\ due' = now + c + wait
  /\ phase' = "waiting"
  /\ UNCHANGED <<counted, wait, refusals>>

\* The client waits as long as it was told, or longer.
Return ==
  /\ phase = "waiting"
  /\ \E d \in Delays : now' = due + d
  /\ phase' = "asking"
  /\ UNCHANGED <<counted, wait, due, refusals>>

RetryInit ==
  /\ now \in 0 .. Minute - 1
  /\ phase = "asking"
  /\ counted = 0 /\ wait = 0 /\ due = 0
  /\ refusals = [m \in MinuteNumbers |-> 0]

RetryNext == Ask \/ Refuse \/ Hear \/ Return

RetrySpec == RetryInit /\ [][RetryNext]_retryVars

----------------------------------------------------------------------------
(* Properties *)

\* One minute refuses a client that obeys its answers at most twice: the second wait
\* is rounded up to a second, which carries it over the end (ratelimit.go:49).
RefusedTwiceAtMost == \A m \in MinuteNumbers : refusals[m] <= 2

\* The client is not sent away for longer than needed: the wait that an answer names
\* ends within a second of the end of the minute in which the answer is written,
\* although that may be a minute after the one that refused (ratelimit.go:46-49).
NoLongerThanNeeded ==
  phase = "told" => now + wait <= MinuteOf(now) * Minute + Second
=============================================================================
