----------------------------- MODULE RateLimiter -----------------------------
(***************************************************************************)
(* The request limiter of middleware/ratelimit.go.  Each server process    *)
(* counts a request in Redis, under the client, the route and the minute;  *)
(* when Redis cannot be reached or its answer is lost, it counts the       *)
(* request in a map of its own.  Time is the number of the current minute. *)
(***************************************************************************)
EXTENDS Naturals, FiniteSets

CONSTANTS
  Keys,        \* a client address and a route
  Requests,    \* the requests the servers may receive
  Servers,     \* the server processes that share Redis
  Limit,       \* requests admitted per key and minute
  CleanAt,     \* the size from which the local map is cleaned: 512 in the code
  MaxMinute,   \* bound: the last minute of a behaviour
  MaxLost,     \* bound: how many answers of Redis are lost
  MaxCrashes   \* bound: how often each server process stops

LimiterParameters ==
  /\ {Limit, CleanAt} \subseteq Nat \ {0}
  /\ {MaxMinute, MaxLost, MaxCrashes} \subseteq Nat

ASSUME LimiterAssumption == LimiterParameters

Minutes == 0 .. MaxMinute

VARIABLES
  minute,  \* the current minute
  redis,   \* redis[k][w]: the counter of k for minute w; 0 when there is none
  local,   \* local[s][k]: the bucket [window, count] of server s; count 0: none
  run,     \* run[s]: how often server s was restarted
  req      \* req[r]: where request r stands, and how it was counted

limiterVars == <<minute, redis, local, run, req>>

----------------------------------------------------------------------------
(* Buckets and requests *)

NoBucket == [window |-> 0, count |-> 0]

\* `window' is the minute the request is counted under, `count' what it was told,
\* `leaked' whether Redis counted it without an answer.
Fresh(k, s) == [phase |-> "idle", key |-> k, server |-> s, run |-> 0, window |-> 0,
                backend |-> "none", count |-> 0, leaked |-> FALSE]

Pending(r) == req[r].phase \in {"counting", "fallback", "counted"}

Tracked(s) == {k \in Keys : local[s][k].count > 0}

\* Deviation: the key of the counter leaves out the minute.
OneCounter(w) == 0

\* The minute that is part of the name of the counter in Redis.
CounterOf(w) == w

\* Deviation: EXPIRE with one minute.
OneMinute == 1

\* EXPIRE redisKey 2*time.Minute
Lifetime == 2

\* Deviation: every bucket is dropped, those of the current minute as well.
KeepNone(s) == [k \in Keys |-> NoBucket]

\* Deviation: nothing is ever dropped.
KeepAll(s) == local[s]

\* cleanupLocal: below CleanAt entries nothing; then the buckets of past minutes go.
Cleaned(s) ==
  IF Cardinality(Tracked(s)) < CleanAt THEN local[s]
  ELSE [k \in Keys |-> IF local[s][k].window < minute THEN NoBucket ELSE local[s][k]]

\* Deviation: a bucket goes on counting when its minute has passed.
SameBucket(b) == [window |-> minute, count |-> b.count + 1]

\* The bucket after one more request: it starts again when its minute has passed.
Counted(b) == [window |-> minute, count |-> IF b.window = minute THEN b.count + 1 ELSE 1]

\* Deviation: one request too many is let through.
OverByTwo(count) == count > Limit + 1

Over(count) == count > Limit

----------------------------------------------------------------------------
(* Steps of a request *)

\* increment: the key is built, under the minute that is current now.
Arrive(r) ==
  /\ req[r].phase = "idle"
  /\ \E k \in Keys, s \in Servers :
       req' = [req EXCEPT ![r] = [Fresh(k, s) EXCEPT !.phase = "counting", !.run = run[s],
                                                     !.window = minute]]
  /\ UNCHANGED <<minute, redis, local, run>>

\* INCR and EXPIRE in one MULTI.  The minute may have passed since Arrive.  The
\* answer is heard, or it is lost and the request falls back although it counted.
RedisCounts(r) ==
  LET k == req[r].key
      w == CounterOf(req[r].window) IN
  /\ req[r].phase = "counting"
  /\ redis' = [redis EXCEPT ![k][w] = @ + 1]
  /\ \/ req' = [req EXCEPT ![r].phase = "counted", ![r].backend = "redis",
                           ![r].count = redis[k][w] + 1]
     \/ /\ Cardinality({q \in Requests : req[q].leaked}) < MaxLost
        /\ req' = [req EXCEPT ![r].phase = "fallback", ![r].leaked = TRUE]
  /\ UNCHANGED <<minute, local, run>>

\* Redis is disabled, unreachable, or refuses the pipeline.
RedisFails(r) ==
  /\ req[r].phase = "counting"
  /\ req' = [req EXCEPT ![r].phase = "fallback"]
  /\ UNCHANGED <<minute, redis, local, run>>

\* incrementLocal, under the mutex: the minute is read again.
LocalCount(r) ==
  LET s == req[r].server
      bucket == Counted(Cleaned(s)[req[r].key]) IN
  /\ req[r].phase = "fallback"
  /\ local' = [local EXCEPT ![s] = [Cleaned(s) EXCEPT ![req[r].key] = bucket]]
  /\ req' = [req EXCEPT ![r].phase = "counted", ![r].backend = "memory",
                        ![r].window = minute, ![r].count = bucket.count]
  /\ UNCHANGED <<minute, redis, run>>

\* The rest of the middleware, after the count.
Answer(r) ==
  /\ req[r].phase = "counted"
  /\ req' = [req EXCEPT ![r].phase = IF Over(req[r].count) THEN "refused" ELSE "admitted"]
  /\ UNCHANGED <<minute, redis, local, run>>

----------------------------------------------------------------------------
(* The environment *)

\* A pipeline ends within a minute of its key: the dial, read and write time limits
\* of the Redis client add up to less.
MinutePasses ==
  /\ minute < MaxMinute
  /\ \A r \in Requests : req[r].phase = "counting" => req[r].window = minute
  /\ minute' = minute + 1
  /\ UNCHANGED <<redis, local, run, req>>

\* The last INCR was in minute w or later, so the counter lives on until w + Lifetime.
RedisExpires ==
  /\ \E k \in Keys, w \in Minutes :
       /\ redis[k][w] > 0
       /\ minute >= w + Lifetime
       /\ redis' = [redis EXCEPT ![k][w] = 0]
  /\ UNCHANGED <<minute, local, run, req>>

\* A server process stops and is started again, with an empty map.
Crash(s) ==
  /\ run[s] < MaxCrashes
  /\ run' = [run EXCEPT ![s] = @ + 1]
  /\ local' = [local EXCEPT ![s] = [k \in Keys |-> NoBucket]]
  /\ req' = [r \in Requests |->
               IF Pending(r) /\ req[r].server = s THEN [req[r] EXCEPT !.phase = "cut"]
               ELSE req[r]]
  /\ UNCHANGED <<minute, redis>>

LimiterInit ==
  /\ minute = 0
  /\ redis = [k \in Keys |-> [w \in Minutes |-> 0]]
  /\ local = [s \in Servers |-> [k \in Keys |-> NoBucket]]
  /\ run   = [s \in Servers |-> 0]
  /\ \E k \in Keys, s \in Servers : req = [r \in Requests |-> Fresh(k, s)]

Step(r) ==
  Arrive(r) \/ RedisCounts(r) \/ RedisFails(r) \/ LocalCount(r) \/ Answer(r)

LimiterNext ==
  \/ \E r \in Requests : Step(r)
  \/ \E s \in Servers : Crash(s)
  \/ MinutePasses
  \/ RedisExpires

LimiterSpec == LimiterInit /\ [][LimiterNext]_limiterVars

----------------------------------------------------------------------------
(* Properties *)

CountedIn(backend, k, w) ==
  {r \in Requests : req[r].backend = backend /\ req[r].key = k /\ req[r].window = w}

\* Counted through Redis, a client gets at most Limit requests through per route and
\* minute, over all servers and their restarts, also when a pipeline of the minute
\* ends in the next one (ratelimit.go:57-69).
SharedBudget ==
  \A k \in Keys, w \in Minutes :
    Cardinality({r \in CountedIn("redis", k, w) : req[r].phase = "admitted"}) <= Limit

\* While Redis is away, each life of each server admits at most Limit, whatever the
\* clean-up of its map drops (ratelimit.go:71-94).
LocalBudget ==
  \A k \in Keys, w \in Minutes, s \in Servers, n \in 0 .. MaxCrashes :
    Cardinality({r \in CountedIn("memory", k, w) :
      req[r].phase = "admitted" /\ req[r].server = s /\ req[r].run = n}) <= Limit

\* Nobody is refused for another client, route or minute: more than Limit requests
\* were counted in the minute of the refusal, by the backend that refused
\* (ratelimit.go:48, 61, 77); those of Redis include the ones whose answer was lost.
RefusalIsEarned ==
  \A r \in Requests : req[r].phase = "refused" =>
    LET k == req[r].key
        w == req[r].window
        leaks == {q \in Requests : req[q].leaked /\ req[q].key = k} IN
    IF req[r].backend = "redis"
    THEN Cardinality(CountedIn("redis", k, w) \union leaks) > Limit
    ELSE Cardinality({q \in CountedIn("memory", k, w) :
           req[q].server = req[r].server /\ req[q].run = req[r].run}) > Limit

\* Buckets of past minutes are no leak: once a request of the current minute was
\* counted, fewer than CleanAt of them are left (ratelimit.go:85-94).
FewStaleBuckets ==
  \A s \in Servers :
    (\E k \in Tracked(s) : local[s][k].window = minute) =>
      Cardinality({k \in Tracked(s) : local[s][k].window < minute}) < CleanAt
=============================================================================
