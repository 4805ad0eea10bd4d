-------------------------- MODULE RateLimiterProofs --------------------------
(***************************************************************************)
(* Theorems about RateLimiter, for any keys, requests, servers, limits and *)
(* bounds.                                                                 *)
(***************************************************************************)
EXTENDS RateLimiter, FiniteSetTheorems, TLAPS

----------------------------------------------------------------------------
(* Types *)

Phases == {"idle", "counting", "fallback", "counted", "admitted", "refused", "cut"}

Request == [phase : Phases, key : Keys, server : Servers, run : Nat, window : Minutes,
            backend : {"none", "redis", "memory"}, count : Nat, leaked : BOOLEAN]

Bucket == [window : Minutes, count : Nat]

TypeInv ==
  /\ minute \in Minutes
  /\ redis \in [Keys -> [Minutes -> Nat]]
  /\ local \in [Servers -> [Keys -> Bucket]]
  /\ run \in [Servers -> Nat]
  /\ req \in [Requests -> Request]

LEMMA Numbers ==
  ASSUME LimiterParameters
  PROVE  /\ Limit \in Nat /\ Limit > 0 /\ CleanAt \in Nat /\ CleanAt > 0
         /\ MaxMinute \in Nat /\ 0 \in Minutes /\ Minutes \subseteq Nat
BY DEF LimiterParameters, Minutes

LEMMA NoBucketIsBucket == LimiterParameters => NoBucket \in Bucket
BY Numbers DEF NoBucket, Bucket

\* What the clean-up leaves of a bucket.
LEMMA CleanedBuckets ==
  ASSUME LimiterParameters, TypeInv, NEW s \in Servers
  PROVE  /\ Cleaned(s) \in [Keys -> Bucket]
         /\ \A k \in Keys :
              \/ Cleaned(s)[k] = local[s][k]
              \/ Cleaned(s)[k] = NoBucket /\ local[s][k].window < minute
BY NoBucketIsBucket DEF Cleaned, TypeInv

LEMMA TypeInit == LimiterParameters /\ LimiterInit => TypeInv
<1> SUFFICES ASSUME LimiterParameters, LimiterInit PROVE TypeInv
  OBVIOUS
<1>1. ASSUME NEW k \in Keys, NEW s \in Servers PROVE Fresh(k, s) \in Request
  BY <1>1, Numbers DEF Fresh, Request, Phases
<1>2. req \in [Requests -> Request]
  BY <1>1 DEF LimiterInit
<1>3. redis \in [Keys -> [Minutes -> Nat]]
  BY DEF LimiterInit
<1>4. local \in [Servers -> [Keys -> Bucket]]
  BY NoBucketIsBucket DEF LimiterInit
<1>. QED
  BY <1>2, <1>3, <1>4, Numbers DEF LimiterInit, TypeInv

LEMMA ArriveTypes ==
  ASSUME LimiterParameters, TypeInv, NEW r \in Requests, Arrive(r)
  PROVE  TypeInv'
<1>1. PICK k \in Keys, s \in Servers :
        req' = [req EXCEPT ![r] = [Fresh(k, s) EXCEPT !.phase = "counting", !.run = run[s],
                                                      !.window = minute]]
  BY DEF Arrive
<1>2. [Fresh(k, s) EXCEPT !.phase = "counting", !.run = run[s], !.window = minute] \in Request
  BY Numbers DEF Fresh, Request, Phases, TypeInv
<1>. QED
  BY <1>1, <1>2 DEF Arrive, TypeInv

LEMMA RedisCountsTypes ==
  ASSUME LimiterParameters, TypeInv, NEW r \in Requests, RedisCounts(r)
  PROVE  TypeInv'
<1> DEFINE k == req[r].key
           w == req[r].window
<1>1. k \in Keys /\ w \in Minutes /\ req[r] \in Request /\ redis[k][w] + 1 \in Nat
  BY DEF TypeInv, Request
<1>2. redis' = [redis EXCEPT ![k][w] = redis[k][w] + 1]
  BY DEF RedisCounts, CounterOf
<1>3. redis' \in [Keys -> [Minutes -> Nat]]
  BY <1>1, <1>2 DEF TypeInv
<1>4. \A n \in Nat :
        /\ [req[r] EXCEPT !.phase = "counted", !.backend = "redis", !.count = n] \in Request
        /\ [req[r] EXCEPT !.phase = "fallback", !.leaked = TRUE] \in Request
  BY <1>1 DEF Request, Phases
<1>5. \E new \in Request : req' = [req EXCEPT ![r] = new]
  <2>1. \/ req' = [req EXCEPT ![r].phase = "counted", ![r].backend = "redis",
                              ![r].count = redis[k][w] + 1]
        \/ req' = [req EXCEPT ![r].phase = "fallback", ![r].leaked = TRUE]
    BY DEF RedisCounts, CounterOf
  <2>2. \/ req' = [req EXCEPT ![r] = [req[r] EXCEPT !.phase = "counted", !.backend = "redis",
                                                   !.count = redis[k][w] + 1]]
        \/ req' = [req EXCEPT ![r] = [req[r] EXCEPT !.phase = "fallback", !.leaked = TRUE]]
    BY <2>1 DEF TypeInv
  <2>. QED
    BY <1>1, <1>4, <2>2
<1>6. req' \in [Requests -> Request]
  BY <1>5 DEF TypeInv
<1>. QED
  BY <1>3, <1>6 DEF RedisCounts, TypeInv

LEMMA LocalCountTypes ==
  ASSUME LimiterParameters, TypeInv, NEW r \in Requests, LocalCount(r)
  PROVE  TypeInv'
<1> DEFINE s == req[r].server
           k == req[r].key
           bucket == Counted(Cleaned(s)[k])
<1>1. s \in Servers /\ k \in Keys /\ req[r] \in Request
  BY DEF TypeInv, Request
<1>2. bucket \in Bucket
  BY <1>1, CleanedBuckets DEF Counted, Bucket, TypeInv
<1>3. [Cleaned(s) EXCEPT ![k] = bucket] \in [Keys -> Bucket]
  BY <1>1, <1>2, CleanedBuckets
<1>4. /\ local' = [local EXCEPT ![s] = [Cleaned(s) EXCEPT ![k] = bucket]]
      /\ req' = [req EXCEPT ![r].phase = "counted", ![r].backend = "memory",
                            ![r].window = minute, ![r].count = bucket.count]
  BY DEF LocalCount
<1>5. local' \in [Servers -> [Keys -> Bucket]]
  BY <1>3, <1>4 DEF TypeInv
<1>6. minute \in Minutes /\ bucket.count \in Nat
  BY <1>2 DEF Bucket, TypeInv
<1> HIDE DEF bucket
<1>7. req' \in [Requests -> Request]
  BY <1>1, <1>4, <1>6 DEF TypeInv, Request, Phases
<1>. QED
  BY <1>5, <1>7 DEF LocalCount, TypeInv

LEMMA NewPhaseTypes ==
  ASSUME TypeInv, NEW r \in Requests, NEW p \in Phases,
         req' = [req EXCEPT ![r].phase = p]
  PROVE  req' \in [Requests -> Request]
<1>1. req[r] \in Request /\ req \in [Requests -> Request]
  BY DEF TypeInv
<1>2. [req[r] EXCEPT !.phase = p] \in Request
  BY <1>1 DEF Request
<1>3. req' = [req EXCEPT ![r] = [req[r] EXCEPT !.phase = p]]
  BY <1>1
<1>. QED
  BY <1>1, <1>2, <1>3

LEMMA TypeStep == LimiterParameters /\ TypeInv /\ [LimiterNext]_limiterVars => TypeInv'
<1> SUFFICES ASSUME LimiterParameters, TypeInv, [LimiterNext]_limiterVars PROVE TypeInv'
  OBVIOUS
<1>1. ASSUME NEW r \in Requests, Step(r)
      PROVE  TypeInv'
  <2>1. CASE RedisFails(r)
    <3>1. req' \in [Requests -> Request]
      BY <2>1, NewPhaseTypes DEF RedisFails, Phases
    <3>. QED
      BY <2>1, <3>1 DEF RedisFails, TypeInv
  <2>2. CASE Answer(r)
    <3>1. PICK answer \in {"refused", "admitted"} : req' = [req EXCEPT ![r].phase = answer]
      BY <2>2 DEF Answer
    <3>2. req' \in [Requests -> Request]
      BY <3>1, NewPhaseTypes DEF Phases
    <3>. QED
      BY <2>2, <3>2 DEF Answer, TypeInv
  <2>. QED
    BY <1>1, <2>1, <2>2, ArriveTypes, RedisCountsTypes, LocalCountTypes DEF Step
<1>2. CASE MinutePasses
  BY <1>2, Numbers DEF MinutePasses, TypeInv, Minutes
<1>3. CASE RedisExpires
  <2>1. PICK k \in Keys, w \in Minutes : redis' = [redis EXCEPT ![k][w] = 0]
    BY <1>3 DEF RedisExpires
  <2>2. redis' \in [Keys -> [Minutes -> Nat]]
    BY <2>1 DEF TypeInv
  <2>. QED
    BY <1>3, <2>2 DEF RedisExpires, TypeInv
<1>4. ASSUME NEW s \in Servers, Crash(s)
      PROVE  TypeInv'
  <2>1. local' \in [Servers -> [Keys -> Bucket]]
    BY <1>4, NoBucketIsBucket DEF Crash, TypeInv
  <2>2. run' \in [Servers -> Nat]
    BY <1>4 DEF Crash, TypeInv
  <2>3. \A r \in Requests : [req[r] EXCEPT !.phase = "cut"] \in Request
    BY DEF TypeInv, Request, Phases
  <2>4. req' \in [Requests -> Request]
    BY <1>4, <2>3 DEF Crash, TypeInv
  <2>. QED
    BY <1>4, <2>1, <2>2, <2>4 DEF Crash, TypeInv
<1>5. CASE UNCHANGED limiterVars
  BY <1>5 DEF limiterVars, TypeInv
<1>. QED
  BY <1>1, <1>2, <1>3, <1>4, <1>5 DEF LimiterNext

----------------------------------------------------------------------------
(* The steps, field by field *)

\* Nothing about a request changes but where it stands.
OnlyPhase(r) ==
  /\ req'[r].key = req[r].key /\ req'[r].server = req[r].server /\ req'[r].run = req[r].run
  /\ req'[r].window = req[r].window /\ req'[r].backend = req[r].backend
  /\ req'[r].count = req[r].count /\ req'[r].leaked = req[r].leaked

OthersKept(r) == \A q \in Requests \ {r} : req'[q] = req[q]

\* One answer of Redis, heard or not.
Hit(r) ==
  LET k == req[r].key
      w == req[r].window IN
  /\ req[r].phase = "counting"
  /\ \A x \in Keys, v \in Minutes :
       redis'[x][v] = IF x = k /\ v = w THEN redis[k][w] + 1 ELSE redis[x][v]
  /\ req'[r].key = k /\ req'[r].server = req[r].server /\ req'[r].run = req[r].run
  /\ req'[r].window = w
  /\ \/ /\ req'[r].phase = "counted" /\ req'[r].backend = "redis"
        /\ req'[r].count = redis[k][w] + 1 /\ req'[r].leaked = req[r].leaked
     \/ /\ req'[r].phase = "fallback" /\ req'[r].backend = req[r].backend
        /\ req'[r].count = req[r].count /\ req'[r].leaked = TRUE

\* One count in the process.
Counts(r) ==
  LET s == req[r].server
      k == req[r].key IN
  /\ req[r].phase = "fallback"
  /\ \A x \in Servers, y \in Keys :
       local'[x][y] = IF x # s THEN local[x][y]
                      ELSE IF y = k THEN Counted(Cleaned(s)[k]) ELSE Cleaned(s)[y]
  /\ req'[r].phase = "counted" /\ req'[r].backend = "memory" /\ req'[r].window = minute
  /\ req'[r].key = k /\ req'[r].server = s /\ req'[r].run = req[r].run
  /\ req'[r].leaked = req[r].leaked
  /\ req'[r].count = Counted(Cleaned(s)[k]).count

Answers(r) ==
  /\ req[r].phase = "counted"
  /\ req'[r].phase = IF Over(req[r].count) THEN "refused" ELSE "admitted"
  /\ OnlyPhase(r)

LEMMA HitLemma ==
  ASSUME LimiterParameters, TypeInv, NEW r \in Requests, RedisCounts(r)
  PROVE  Hit(r) /\ OthersKept(r)
<1> DEFINE k == req[r].key
           w == req[r].window
<1>1. k \in Keys /\ w \in Minutes /\ req[r] \in Request
  BY DEF TypeInv, Request
<1>2. redis' = [redis EXCEPT ![k][w] = redis[k][w] + 1]
  BY DEF RedisCounts, CounterOf
<1>3. \A x \in Keys, v \in Minutes :
        redis'[x][v] = IF x = k /\ v = w THEN redis[k][w] + 1 ELSE redis[x][v]
  BY <1>1, <1>2 DEF TypeInv
<1>4. \/ req' = [req EXCEPT ![r].phase = "counted", ![r].backend = "redis",
                            ![r].count = redis[k][w] + 1]
      \/ req' = [req EXCEPT ![r].phase = "fallback", ![r].leaked = TRUE]
  BY DEF RedisCounts, CounterOf
<1>5. CASE req' = [req EXCEPT ![r].phase = "counted", ![r].backend = "redis",
                              ![r].count = redis[k][w] + 1]
  <2>1. /\ req'[r].key = k /\ req'[r].server = req[r].server /\ req'[r].run = req[r].run
        /\ req'[r].window = w /\ req'[r].phase = "counted" /\ req'[r].backend = "redis"
        /\ req'[r].count = redis[k][w] + 1 /\ req'[r].leaked = req[r].leaked
    BY <1>1, <1>5 DEF TypeInv, Request
  <2>2. OthersKept(r)
    BY <1>5 DEF TypeInv, OthersKept
  <2>. QED
    BY <1>3, <2>1, <2>2 DEF RedisCounts, Hit
<1>6. CASE req' = [req EXCEPT ![r].phase = "fallback", ![r].leaked = TRUE]
  <2>1. /\ req'[r].key = k /\ req'[r].server = req[r].server /\ req'[r].run = req[r].run
        /\ req'[r].window = w /\ req'[r].phase = "fallback"
        /\ req'[r].backend = req[r].backend
        /\ req'[r].count = req[r].count /\ req'[r].leaked = TRUE
    BY <1>1, <1>6 DEF TypeInv, Request
  <2>2. OthersKept(r)
    BY <1>6 DEF TypeInv, OthersKept
  <2>. QED
    BY <1>3, <2>1, <2>2 DEF RedisCounts, Hit
<1>. QED
  BY <1>4, <1>5, <1>6

LEMMA CountsLemma ==
  ASSUME LimiterParameters, TypeInv, NEW r \in Requests, LocalCount(r)
  PROVE  Counts(r) /\ OthersKept(r)
<1> DEFINE s == req[r].server
           k == req[r].key
           bucket == Counted(Cleaned(s)[k])
<1>1. s \in Servers /\ k \in Keys /\ req[r] \in Request
  BY DEF TypeInv, Request
<1>2. /\ local' = [local EXCEPT ![s] = [Cleaned(s) EXCEPT ![k] = bucket]]
      /\ req' = [req EXCEPT ![r].phase = "counted", ![r].backend = "memory",
                            ![r].window = minute, ![r].count = bucket.count]
  BY DEF LocalCount
<1>3. Cleaned(s) \in [Keys -> Bucket]
  BY <1>1, CleanedBuckets
<1> HIDE DEF bucket
<1>4. \A x \in Servers, y \in Keys :
        local'[x][y] = IF x # s THEN local[x][y]
                       ELSE IF y = k THEN bucket ELSE Cleaned(s)[y]
  BY <1>1, <1>2, <1>3 DEF TypeInv
<1>5. /\ req'[r].phase = "counted" /\ req'[r].backend = "memory" /\ req'[r].window = minute
      /\ req'[r].key = k /\ req'[r].server = s /\ req'[r].run = req[r].run
      /\ req'[r].leaked = req[r].leaked /\ req'[r].count = bucket.count
  BY <1>1, <1>2 DEF TypeInv, Request
<1>6. OthersKept(r)
  BY <1>2 DEF TypeInv, OthersKept
<1>. QED
  BY <1>4, <1>5, <1>6 DEF LocalCount, Counts, bucket

LEMMA AnswersLemma ==
  ASSUME LimiterParameters, TypeInv, NEW r \in Requests, Answer(r)
  PROVE  Answers(r) /\ OthersKept(r)
<1>1. req[r] \in Request
  BY DEF TypeInv
<1>2. PICK phase \in {"refused", "admitted"} :
        /\ phase = IF Over(req[r].count) THEN "refused" ELSE "admitted"
        /\ req' = [req EXCEPT ![r].phase = phase]
  BY DEF Answer
<1>3. req'[r].phase = phase /\ OnlyPhase(r) /\ OthersKept(r)
  BY <1>1, <1>2 DEF TypeInv, Request, OnlyPhase, OthersKept
<1>. QED
  BY <1>2, <1>3 DEF Answer, Answers

Arrives(r) ==
  /\ req[r].phase = "idle"
  /\ req'[r].phase = "counting" /\ req'[r].window = minute /\ req'[r].backend = "none"
  /\ req'[r].run = run[req'[r].server] /\ req'[r].count = 0 /\ req'[r].leaked = FALSE

Fails(r) ==
  /\ req[r].phase = "counting" /\ req'[r].phase = "fallback"
  /\ OnlyPhase(r)

LEMMA ArrivesLemma ==
  ASSUME LimiterParameters, TypeInv, NEW r \in Requests, Arrive(r)
  PROVE  Arrives(r) /\ OthersKept(r)
<1>1. PICK k \in Keys, s \in Servers :
        req' = [req EXCEPT ![r] = [Fresh(k, s) EXCEPT !.phase = "counting", !.run = run[s],
                                                      !.window = minute]]
  BY DEF Arrive
<1>2. req'[r] = [Fresh(k, s) EXCEPT !.phase = "counting", !.run = run[s], !.window = minute]
  BY <1>1 DEF TypeInv
<1>3. /\ req'[r].phase = "counting" /\ req'[r].window = minute /\ req'[r].backend = "none"
      /\ req'[r].run = run[s] /\ req'[r].server = s
      /\ req'[r].count = 0 /\ req'[r].leaked = FALSE
  BY <1>2 DEF Fresh
<1>4. OthersKept(r)
  BY <1>1 DEF TypeInv, OthersKept
<1>. QED
  BY <1>3, <1>4 DEF Arrive, Arrives

LEMMA FailsLemma ==
  ASSUME LimiterParameters, TypeInv, NEW r \in Requests, RedisFails(r)
  PROVE  Fails(r) /\ OthersKept(r)
BY DEF RedisFails, TypeInv, Request, Fails, OnlyPhase, OthersKept

\* A crash takes nothing from a request but its answer.
LEMMA CrashLemma ==
  ASSUME LimiterParameters, TypeInv, NEW s \in Servers, Crash(s)
  PROVE  /\ \A r \in Requests :
              /\ OnlyPhase(r)
              /\ req'[r].phase = IF Pending(r) /\ req[r].server = s THEN "cut"
                                 ELSE req[r].phase
         /\ \A x \in Servers :
              /\ run'[x] = IF x = s THEN run[s] + 1 ELSE run[x]
              /\ local'[x] = IF x = s THEN [k \in Keys |-> NoBucket] ELSE local[x]
<1>1. ASSUME NEW r \in Requests
      PROVE  /\ OnlyPhase(r)
             /\ req'[r].phase = IF Pending(r) /\ req[r].server = s THEN "cut"
                                ELSE req[r].phase
  <2>1. req[r] \in Request
    BY DEF TypeInv
  <2>2. req'[r] = IF Pending(r) /\ req[r].server = s THEN [req[r] EXCEPT !.phase = "cut"]
                  ELSE req[r]
    BY DEF Crash
  <2>. QED
    BY <2>1, <2>2 DEF Request, OnlyPhase
<1>2. \A x \in Servers :
        /\ run'[x] = IF x = s THEN run[s] + 1 ELSE run[x]
        /\ local'[x] = IF x = s THEN [k \in Keys |-> NoBucket] ELSE local[x]
  BY DEF Crash, TypeInv
<1>. QED
  BY <1>1, <1>2

\* A counter expires when its minute is two minutes old.
LEMMA ExpiresLemma ==
  ASSUME LimiterParameters, TypeInv, RedisExpires
  PROVE  \A k \in Keys, w \in Minutes :
           redis'[k][w] = redis[k][w] \/ (redis'[k][w] = 0 /\ minute >= w + 2)
<1>1. PICK k \in Keys, w \in Minutes : minute >= w + 2 /\ redis' = [redis EXCEPT ![k][w] = 0]
  BY DEF RedisExpires, Lifetime
<1>. QED
  BY <1>1 DEF TypeInv

----------------------------------------------------------------------------
(* Where a request stands *)

StandingOf(r) ==
  /\ req[r].window <= minute
  /\ req[r].phase \in {"idle", "counting", "fallback"} => req[r].backend = "none"
  /\ req[r].phase \in {"counted", "admitted", "refused"} => req[r].backend # "none"
  /\ req[r].phase \in {"idle", "counting"} => req[r].leaked = FALSE
  /\ req[r].phase = "counting" => minute <= req[r].window + 1
  /\ req[r].run <= run[req[r].server]
  /\ Pending(r) => req[r].run = run[req[r].server]
  /\ req[r].phase = "admitted" => req[r].count <= Limit
  /\ req[r].phase = "refused" => req[r].count > Limit

Standing == \A r \in Requests : StandingOf(r)

LEMMA StandingInit == LimiterParameters /\ LimiterInit => Standing
<1> SUFFICES ASSUME LimiterParameters, LimiterInit, NEW r \in Requests PROVE StandingOf(r)
  BY DEF Standing
<1>1. PICK k \in Keys, s \in Servers : req = [q \in Requests |-> Fresh(k, s)]
  BY DEF LimiterInit
<1>2. req[r] = Fresh(k, s) /\ run[s] = 0 /\ minute = 0
  BY <1>1 DEF LimiterInit
<1>. QED
  BY <1>2 DEF Fresh, StandingOf, Pending

LEMMA StandingStep ==
  ASSUME LimiterParameters, TypeInv, TypeInv', Standing, [LimiterNext]_limiterVars
  PROVE  Standing'
<1> USE DEF StandingOf, Pending
<1>0. /\ minute \in Nat
      /\ \A r \in Requests : /\ req[r] \in Request /\ req'[r] \in Request
                             /\ req[r].window \in Nat /\ req[r].run \in Nat
                             /\ req'[r].window \in Nat /\ req'[r].run \in Nat
                             /\ req[r].server \in Servers
      /\ \A s \in Servers : run[s] \in Nat
  BY Numbers DEF TypeInv, Request
<1>a. ASSUME NEW r \in Requests, StandingOf(r)', OthersKept(r), minute' = minute, run' = run
      PROVE  Standing'
  BY <1>a DEF Standing, OthersKept
<1>b. \A r \in Requests : StandingOf(r)
  BY DEF Standing
<1>1. ASSUME NEW r \in Requests, Step(r)
      PROVE  Standing'
  <2>1. CASE Arrive(r)
    <3>1. Arrives(r) /\ OthersKept(r) /\ minute' = minute /\ run' = run
      BY <2>1, ArrivesLemma DEF Arrive
    <3>2. StandingOf(r)'
      BY <1>0, <1>b, <3>1 DEF Arrives
    <3>. QED
      BY <1>a, <3>1, <3>2
  <2>2. CASE RedisCounts(r)
    <3>1. Hit(r) /\ OthersKept(r) /\ minute' = minute /\ run' = run
      BY <2>2, HitLemma DEF RedisCounts
    <3>2. StandingOf(r)'
      BY <1>0, <1>b, <3>1 DEF Hit
    <3>. QED
      BY <1>a, <3>1, <3>2
  <2>3. CASE RedisFails(r)
    <3>1. Fails(r) /\ OthersKept(r) /\ minute' = minute /\ run' = run
      BY <2>3, FailsLemma DEF RedisFails
    <3>2. StandingOf(r)'
      BY <1>0, <1>b, <3>1 DEF Fails, OnlyPhase
    <3>. QED
      BY <1>a, <3>1, <3>2
  <2>4. CASE LocalCount(r)
    <3>1. Counts(r) /\ OthersKept(r) /\ minute' = minute /\ run' = run
      BY <2>4, CountsLemma DEF LocalCount
    <3>2. StandingOf(r)'
      BY <1>0, <1>b, <3>1 DEF Counts
    <3>. QED
      BY <1>a, <3>1, <3>2
  <2>5. CASE Answer(r)
    <3>1. Answers(r) /\ OthersKept(r) /\ minute' = minute /\ run' = run
      BY <2>5, AnswersLemma DEF Answer
    <3>2. StandingOf(r)'
      BY <1>0, <1>b, <3>1, Numbers DEF Answers, OnlyPhase, Over, Request
    <3>. QED
      BY <1>a, <3>1, <3>2
  <2>. QED
    BY <1>1, <2>1, <2>2, <2>3, <2>4, <2>5 DEF Step
<1>2. CASE MinutePasses
  BY <1>0, <1>2 DEF MinutePasses, Standing
<1>3. CASE RedisExpires
  BY <1>3 DEF RedisExpires, Standing
<1>4. ASSUME NEW s \in Servers, Crash(s)
      PROVE  Standing'
  <2> SUFFICES ASSUME NEW r \in Requests PROVE StandingOf(r)'
    BY DEF Standing
  <2>1. /\ OnlyPhase(r)
        /\ req'[r].phase = IF Pending(r) /\ req[r].server = s THEN "cut" ELSE req[r].phase
        /\ run'[req[r].server] = IF req[r].server = s THEN run[s] + 1
                                 ELSE run[req[r].server]
        /\ minute' = minute
    BY <1>0, <1>4, CrashLemma DEF Crash
  <2>. QED
    BY <1>0, <1>b, <2>1 DEF OnlyPhase
<1>5. CASE UNCHANGED limiterVars
  BY <1>5 DEF limiterVars, Standing
<1>. QED
  BY <1>1, <1>2, <1>3, <1>4, <1>5 DEF LimiterNext

----------------------------------------------------------------------------
(* What a request was told, and what the counters say now *)

\* The counter in Redis has counted this request, or is about to expire.
ToldByRedis(r) ==
  req[r].backend = "redis" =>
    /\ req[r].count >= 1
    /\ \/ req[r].count <= redis[req[r].key][req[r].window]
       \/ minute >= req[r].window + 2

\* The bucket has counted this request, or its minute or its server are over.
ToldByServer(r) ==
  LET bucket == local[req[r].server][req[r].key] IN
  req[r].backend = "memory" =>
    /\ req[r].count >= 1
    /\ \/ bucket.window = req[r].window /\ req[r].count <= bucket.count
       \/ req[r].window < minute
       \/ req[r].run < run[req[r].server]

Told == \A r \in Requests : ToldByRedis(r) /\ ToldByServer(r)

LEMMA TypeFacts ==
  ASSUME LimiterParameters, TypeInv
  PROVE  /\ minute \in Nat
         /\ \A k \in Keys, w \in Minutes : redis[k][w] \in Nat
         /\ \A s \in Servers, k \in Keys :
              /\ local[s][k] \in Bucket
              /\ local[s][k].window \in Nat /\ local[s][k].count \in Nat
         /\ \A s \in Servers : run[s] \in Nat
         /\ \A r \in Requests :
              /\ req[r] \in Request
              /\ req[r].key \in Keys /\ req[r].server \in Servers /\ req[r].window \in Minutes
              /\ req[r].window \in Nat /\ req[r].run \in Nat /\ req[r].count \in Nat
BY Numbers DEF TypeInv, Request, Bucket

LEMMA ToldInit == LimiterParameters /\ LimiterInit => Told
<1> SUFFICES ASSUME LimiterParameters, LimiterInit, NEW r \in Requests
             PROVE  ToldByRedis(r) /\ ToldByServer(r)
  BY DEF Told
<1>1. req[r].backend = "none"
  BY DEF LimiterInit, Fresh
<1>. QED
  BY <1>1 DEF ToldByRedis, ToldByServer

LEMMA ToldStep ==
  ASSUME LimiterParameters, TypeInv, TypeInv', Standing, Told, [LimiterNext]_limiterVars
  PROVE  Told'
<1> SUFFICES ASSUME NEW q \in Requests PROVE (ToldByRedis(q) /\ ToldByServer(q))'
  BY DEF Told
<1>0. ToldByRedis(q) /\ ToldByServer(q) /\ \A r \in Requests : StandingOf(r)
  BY DEF Told, Standing
<1>t. /\ minute \in Nat /\ minute' \in Nat
      /\ \A k \in Keys, w \in Minutes : redis[k][w] \in Nat /\ redis'[k][w] \in Nat
      /\ \A s \in Servers, k \in Keys :
           /\ local[s][k] \in Bucket
           /\ local[s][k].window \in Nat /\ local[s][k].count \in Nat
           /\ local'[s][k].window \in Nat /\ local'[s][k].count \in Nat
      /\ \A s \in Servers : run[s] \in Nat /\ run'[s] \in Nat
      /\ \A r \in Requests :
           /\ req[r] \in Request /\ req'[r] \in Request
           /\ req[r].key \in Keys /\ req[r].server \in Servers /\ req[r].window \in Minutes
           /\ req[r].window \in Nat /\ req[r].run \in Nat /\ req[r].count \in Nat
           /\ req'[r].window \in Nat /\ req'[r].run \in Nat /\ req'[r].count \in Nat
  BY TypeFacts, Numbers DEF TypeInv, Request, Bucket
<1>1. ASSUME NEW r \in Requests, Step(r)
      PROVE  (ToldByRedis(q) /\ ToldByServer(q))'
  <2>1. CASE Arrive(r)
    <3>1. Arrives(r) /\ OthersKept(r) /\ UNCHANGED <<minute, redis, local, run>>
      BY <2>1, ArrivesLemma DEF Arrive
    <3>. QED
      BY <1>0, <3>1 DEF Arrives, OthersKept, ToldByRedis, ToldByServer
  <2>2. CASE RedisCounts(r)
    <3>1. Hit(r) /\ OthersKept(r) /\ UNCHANGED <<minute, local, run>>
      BY <2>2, HitLemma DEF RedisCounts
    <3>2. ToldByRedis(q)'
      <4>1. \A x \in Keys, v \in Minutes :
              redis'[x][v] = redis[x][v] \/ redis'[x][v] = redis[x][v] + 1
        BY <3>1 DEF Hit
      <4>2. redis'[req[r].key][req[r].window] = redis[req[r].key][req[r].window] + 1
        BY <1>t, <3>1 DEF Hit
      <4>3. CASE q = r
        BY <1>0, <1>t, <3>1, <4>2, <4>3 DEF Hit, ToldByRedis, StandingOf
      <4>4. CASE q # r
        <5>1. req'[q] = req[q] /\ minute' = minute
          BY <3>1, <4>4 DEF OthersKept
        <5>. QED
          BY <1>0, <1>t, <4>1, <5>1 DEF ToldByRedis
      <4>. QED
        BY <4>3, <4>4
    <3>3. ToldByServer(q)'
      <4>1. CASE q = r
        <5>1. req[q].backend = "none"
          BY <1>0, <3>1, <4>1 DEF Hit, StandingOf
        <5>2. req'[q].backend # "memory"
          BY <3>1, <4>1, <5>1 DEF Hit
        <5>. QED
          BY <5>2 DEF ToldByServer
      <4>2. CASE q # r
        <5>1. req'[q] = req[q]
          BY <3>1, <4>2 DEF OthersKept
        <5>2. minute' = minute /\ local' = local /\ run' = run
          BY <3>1
        <5>. QED
          BY <1>0, <5>1, <5>2 DEF ToldByServer
      <4>. QED
        BY <4>1, <4>2
    <3>. QED
      BY <3>2, <3>3
  <2>3. CASE RedisFails(r)
    <3>1. Fails(r) /\ OthersKept(r) /\ UNCHANGED <<minute, redis, local, run>>
      BY <2>3, FailsLemma DEF RedisFails
    <3>. QED
      BY <1>0, <3>1 DEF Fails, OnlyPhase, OthersKept, ToldByRedis, ToldByServer
  <2>4. CASE LocalCount(r)
    <3>1. Counts(r) /\ OthersKept(r) /\ UNCHANGED <<minute, redis, run>>
      BY <2>4, CountsLemma DEF LocalCount
    <3>2. ToldByRedis(q)'
      BY <1>0, <3>1 DEF Counts, OthersKept, ToldByRedis
    <3>3. ToldByServer(q)'
      <4> DEFINE s == req[r].server
                 k == req[r].key
      <4>1. \A y \in Keys :
              \/ Cleaned(s)[y] = local[s][y]
              \/ Cleaned(s)[y] = NoBucket /\ local[s][y].window < minute
        BY <1>t, CleanedBuckets
      <4>2. local'[s][k] = Counted(Cleaned(s)[k])
        BY <1>t, <3>1 DEF Counts
      <4>3. CASE q = r
        <5>1. /\ local'[s][k].window = minute
              /\ local'[s][k].count >= 1
          BY <1>t, <4>1, <4>2 DEF Counted, NoBucket
        <5>2. /\ req'[q].server = s /\ req'[q].key = k /\ req'[q].window = minute
              /\ req'[q].count = local'[s][k].count
          BY <3>1, <4>2, <4>3 DEF Counts
        <5>. QED
          BY <1>t, <5>1, <5>2 DEF ToldByServer
      <4>4. CASE q # r
        <5>1. req'[q] = req[q] /\ minute' = minute /\ run' = run
          BY <3>1, <4>4 DEF OthersKept
        <5>2. CASE req[q].server # s
          <6>1. local'[req[q].server][req[q].key] = local[req[q].server][req[q].key]
            BY <1>t, <3>1, <5>2 DEF Counts
          <6>. QED
            BY <1>0, <5>1, <6>1 DEF ToldByServer
        <5>3. CASE req[q].server = s /\ req[q].key # k
          <6>1. local'[s][req[q].key] = Cleaned(s)[req[q].key]
            BY <1>t, <3>1, <5>3 DEF Counts
          <6>. QED
            BY <1>0, <1>t, <4>1, <5>1, <5>3, <6>1 DEF ToldByServer
        <5>4. CASE req[q].server = s /\ req[q].key = k
          <6>1. \/ local'[s][k].window = minute /\ local[s][k].window = minute
                   /\ local'[s][k].count = local[s][k].count + 1
                \/ local[s][k].window # minute
            BY <1>t, <4>1, <4>2 DEF Counted
          <6>2. /\ req[q].window <= minute /\ req[q].window \in Nat /\ minute \in Nat
                /\ req[q].count \in Nat /\ local[s][k].count \in Nat
            BY <1>0, <1>t, <4>1 DEF StandingOf
          <6>3. CASE req[q].backend = "memory"
            <7>1. /\ req[q].count >= 1
                  /\ \/ local[s][k].window = req[q].window /\ req[q].count <= local[s][k].count
                     \/ req[q].window < minute
                     \/ req[q].run < run[s]
              BY <1>0, <5>4, <6>3 DEF ToldByServer
            <7>2. \/ local'[s][k].window = req[q].window /\ req[q].count <= local'[s][k].count
                  \/ req[q].window < minute
                  \/ req[q].run < run[s]
              BY <6>1, <6>2, <7>1
            <7>. QED
              BY <5>1, <5>4, <7>1, <7>2 DEF ToldByServer
          <6>4. CASE req[q].backend # "memory"
            BY <5>1, <6>4 DEF ToldByServer
          <6>. QED
            BY <6>3, <6>4
        <5>. QED
          BY <5>2, <5>3, <5>4
      <4>. QED
        BY <4>3, <4>4
    <3>. QED
      BY <3>2, <3>3
  <2>5. CASE Answer(r)
    <3>1. Answers(r) /\ OthersKept(r) /\ UNCHANGED <<minute, redis, local, run>>
      BY <2>5, AnswersLemma DEF Answer
    <3>. QED
      BY <1>0, <3>1 DEF Answers, OnlyPhase, OthersKept, ToldByRedis, ToldByServer
  <2>. QED
    BY <1>1, <2>1, <2>2, <2>3, <2>4, <2>5 DEF Step
<1>2. CASE MinutePasses
  <2>1. minute' = minute + 1 /\ UNCHANGED <<redis, local, run, req>>
    BY <1>2 DEF MinutePasses
  <2>. QED
    BY <1>0, <1>t, <2>1 DEF ToldByRedis, ToldByServer, StandingOf
<1>3. CASE RedisExpires
  <2>1. UNCHANGED <<minute, local, run, req>>
    BY <1>3 DEF RedisExpires
  <2>2. \A k \in Keys, w \in Minutes : redis'[k][w] = redis[k][w] \/ minute >= w + 2
    BY <1>3, ExpiresLemma
  <2>. QED
    BY <1>0, <1>t, <2>1, <2>2 DEF ToldByRedis, ToldByServer
<1>4. ASSUME NEW s \in Servers, Crash(s)
      PROVE  (ToldByRedis(q) /\ ToldByServer(q))'
  <2>1. /\ OnlyPhase(q) /\ UNCHANGED <<minute, redis>>
        /\ \/ local'[req[q].server] = local[req[q].server]
              /\ run'[req[q].server] = run[req[q].server]
           \/ run'[req[q].server] = run[req[q].server] + 1
    BY <1>t, <1>4, CrashLemma DEF Crash
  <2>. QED
    BY <1>0, <1>t, <2>1 DEF OnlyPhase, ToldByRedis, ToldByServer, StandingOf
<1>5. CASE UNCHANGED limiterVars
  BY <1>0, <1>5 DEF limiterVars, ToldByRedis, ToldByServer
<1>. QED
  BY <1>1, <1>2, <1>3, <1>4, <1>5 DEF LimiterNext

----------------------------------------------------------------------------
(* No two requests of a window are told the same number *)

Apart(p, q) ==
  p # q /\ req[p].key = req[q].key /\ req[p].window = req[q].window
  /\ req[p].backend = req[q].backend =>
       /\ req[p].backend = "redis" => req[p].count # req[q].count
       /\ req[p].backend = "memory" /\ req[p].server = req[q].server
          /\ req[p].run = req[q].run => req[p].count # req[q].count

AllApart == \A p, q \in Requests : Apart(p, q)

LEMMA ApartInit == LimiterParameters /\ LimiterInit => AllApart
<1> SUFFICES ASSUME LimiterParameters, LimiterInit, NEW p \in Requests, NEW q \in Requests
             PROVE  Apart(p, q)
  BY DEF AllApart
<1>1. req[p].backend = "none"
  BY DEF LimiterInit, Fresh
<1>. QED
  BY <1>1 DEF Apart

\* A step that counts nothing keeps them apart.
LEMMA ApartKept ==
  ASSUME AllApart,
         \A r \in Requests : req'[r].backend = "none" \/ OnlyPhase(r)
  PROVE  AllApart'
<1> SUFFICES ASSUME NEW p \in Requests, NEW q \in Requests PROVE Apart(p, q)'
  BY DEF AllApart
<1>1. Apart(p, q)
  BY DEF AllApart
<1>. QED
  BY <1>1 DEF Apart, OnlyPhase

\* A number given to one request is above those given to the others.
LEMMA ApartWhenCounted ==
  ASSUME AllApart, NEW r \in Requests, OthersKept(r),
         \A q \in Requests \ {r} : Apart(r, q)'
  PROVE  AllApart'
<1> SUFFICES ASSUME NEW p \in Requests, NEW q \in Requests PROVE Apart(p, q)'
  BY DEF AllApart
<1>1. CASE p = r /\ q # r
  BY <1>1
<1>2. CASE q = r /\ p # r
  <2>1. Apart(q, p)'
    BY <1>2
  <2>. QED
    BY <2>1 DEF Apart
<1>3. CASE p # r /\ q # r
  <2>1. Apart(p, q) /\ req'[p] = req[p] /\ req'[q] = req[q]
    BY <1>3 DEF AllApart, OthersKept
  <2>. QED
    BY <2>1 DEF Apart
<1>4. CASE p = r /\ q = r
  BY <1>4 DEF Apart
<1>. QED
  BY <1>1, <1>2, <1>3, <1>4

LEMMA ApartStep ==
  ASSUME LimiterParameters, TypeInv, Standing, Told, AllApart, [LimiterNext]_limiterVars
  PROVE  AllApart'
<1>0. \A q \in Requests : StandingOf(q) /\ ToldByRedis(q) /\ ToldByServer(q)
  BY DEF Told, Standing
<1>1. ASSUME NEW r \in Requests, Step(r)
      PROVE  AllApart'
  <2>1. CASE Arrive(r)
    <3>1. req'[r].backend = "none" /\ \A q \in Requests \ {r} : req'[q] = req[q]
      BY <2>1, ArrivesLemma DEF Arrives, OthersKept
    <3>. QED
      BY <3>1, ApartKept DEF OnlyPhase
  <2>2. CASE RedisCounts(r)
    <3>1. Hit(r) /\ OthersKept(r)
      BY <2>2, HitLemma
    <3> SUFFICES ASSUME NEW q \in Requests \ {r} PROVE Apart(r, q)'
      BY <3>1, ApartWhenCounted
    <3>2. req'[q] = req[q]
      BY <3>1 DEF OthersKept
    <3>3. \/ /\ req'[r].backend = "redis" /\ req'[r].key = req[r].key
             /\ req'[r].window = req[r].window
             /\ req'[r].count = redis[req[r].key][req[r].window] + 1
             /\ minute <= req[r].window + 1
          \/ req'[r].backend = "none"
      BY <1>0, <3>1 DEF Hit, StandingOf
    <3>. QED
      BY <1>0, <3>2, <3>3, TypeFacts DEF Apart, ToldByRedis
  <2>3. CASE RedisFails(r)
    <3>1. Fails(r) /\ OthersKept(r)
      BY <2>3, FailsLemma
    <3>. QED
      BY <3>1, ApartKept DEF Fails, OthersKept, OnlyPhase
  <2>4. CASE LocalCount(r)
    <3> DEFINE s == req[r].server
               k == req[r].key
    <3>1. Counts(r) /\ OthersKept(r)
      BY <2>4, CountsLemma
    <3> SUFFICES ASSUME NEW q \in Requests \ {r} PROVE Apart(r, q)'
      BY <3>1, ApartWhenCounted
    <3>2. req'[q] = req[q]
      BY <3>1 DEF OthersKept
    <3>3. /\ req'[r].backend = "memory" /\ req'[r].key = k /\ req'[r].server = s
          /\ req'[r].window = minute /\ req'[r].run = run[s]
          /\ req'[r].count = Counted(Cleaned(s)[k]).count
      BY <1>0, <3>1 DEF Counts, StandingOf, Pending
    <3>4. local[s][k].window = minute => req'[r].count = local[s][k].count + 1
      BY <3>3, CleanedBuckets, TypeFacts DEF Counted
    <3>. QED
      BY <1>0, <3>2, <3>3, <3>4, TypeFacts DEF Apart, ToldByServer
  <2>5. CASE Answer(r)
    <3>1. Answers(r) /\ OthersKept(r)
      BY <2>5, AnswersLemma
    <3>. QED
      BY <3>1, ApartKept DEF Answers, OthersKept, OnlyPhase
  <2>. QED
    BY <1>1, <2>1, <2>2, <2>3, <2>4, <2>5 DEF Step
<1>2. CASE MinutePasses \/ RedisExpires \/ UNCHANGED limiterVars
  <2>1. req' = req
    BY <1>2 DEF MinutePasses, RedisExpires, limiterVars
  <2>. QED
    BY <2>1 DEF AllApart, Apart
<1>3. ASSUME NEW s \in Servers, Crash(s)
      PROVE  AllApart'
  BY <1>3, CrashLemma, ApartKept
<1>. QED
  BY <1>1, <1>2, <1>3 DEF LimiterNext

----------------------------------------------------------------------------
(* The budgets *)

\* Pairwise different numbers from 1 to n are given to at most n requests.
LEMMA FewNumbers ==
  ASSUME NEW S, NEW n \in Nat, NEW f \in [S -> 1 .. n],
         \A p, q \in S : f[p] = f[q] => p = q
  PROVE  Cardinality(S) <= n
<1>1. IsFiniteSet(1 .. n) /\ Cardinality(1 .. n) = n
  BY FS_Interval
<1>2. f \in Injection(S, 1 .. n)
  BY DEF Injection, IsInjective
<1>. QED
  BY <1>1, <1>2, FS_Injection

CountInv == TypeInv /\ Standing /\ Told /\ AllApart

LEMMA SharedBudgetFollows == LimiterParameters /\ CountInv => SharedBudget
<1> SUFFICES ASSUME LimiterParameters, CountInv, NEW k \in Keys, NEW w \in Minutes
             PROVE  Cardinality({r \in CountedIn("redis", k, w) :
                                   req[r].phase = "admitted"}) <= Limit
  BY DEF SharedBudget
<1> DEFINE S == {r \in CountedIn("redis", k, w) : req[r].phase = "admitted"}
           f == [r \in S |-> req[r].count]
<1>1. \A r \in S : /\ r \in Requests /\ req[r].phase = "admitted" /\ req[r].backend = "redis"
                   /\ req[r].key = k /\ req[r].window = w
  BY DEF CountedIn
<1>2. \A r \in S : req[r].count \in 1 .. Limit
  BY <1>1, TypeFacts, Numbers DEF CountInv, Standing, StandingOf, Told, ToldByRedis
<1>3. f \in [S -> 1 .. Limit]
  BY <1>2
<1>4. \A p, q \in S : f[p] = f[q] => p = q
  BY <1>1 DEF CountInv, AllApart, Apart
<1>5. Limit \in Nat
  BY Numbers
<1> HIDE DEF f, S
<1>6. Cardinality(S) <= Limit
  BY <1>3, <1>4, <1>5, FewNumbers
<1>. QED
  BY <1>6 DEF S

LEMMA LocalBudgetFollows == LimiterParameters /\ CountInv => LocalBudget
<1> SUFFICES ASSUME LimiterParameters, CountInv, NEW k \in Keys, NEW w \in Minutes,
                    NEW s \in Servers, NEW n \in 0 .. MaxCrashes
             PROVE  Cardinality({r \in CountedIn("memory", k, w) :
                      req[r].phase = "admitted" /\ req[r].server = s /\ req[r].run = n})
                      <= Limit
  BY DEF LocalBudget
<1> DEFINE S == {r \in CountedIn("memory", k, w) :
                   req[r].phase = "admitted" /\ req[r].server = s /\ req[r].run = n}
           f == [r \in S |-> req[r].count]
<1>1. \A r \in S : /\ r \in Requests /\ req[r].phase = "admitted"
                   /\ req[r].backend = "memory" /\ req[r].key = k /\ req[r].window = w
                   /\ req[r].server = s /\ req[r].run = n
  BY DEF CountedIn
<1>2. \A r \in S : req[r].count \in 1 .. Limit
  BY <1>1, TypeFacts, Numbers DEF CountInv, Standing, StandingOf, Told, ToldByServer
<1>3. f \in [S -> 1 .. Limit]
  BY <1>2
<1>4. \A p, q \in S : f[p] = f[q] => p = q
  BY <1>1 DEF CountInv, AllApart, Apart
<1>5. Limit \in Nat
  BY Numbers
<1> HIDE DEF f, S
<1>6. Cardinality(S) <= Limit
  BY <1>3, <1>4, <1>5, FewNumbers
<1>. QED
  BY <1>6 DEF S

LEMMA CountInvariant == ASSUME LimiterParameters PROVE LimiterSpec => []CountInv
<1>1. LimiterInit => CountInv
  BY TypeInit, StandingInit, ToldInit, ApartInit DEF CountInv
<1>2. CountInv /\ [LimiterNext]_limiterVars => CountInv'
  <2> SUFFICES ASSUME CountInv, [LimiterNext]_limiterVars PROVE CountInv'
    OBVIOUS
  <2>1. TypeInv'
    BY TypeStep DEF CountInv
  <2>2. Standing'
    BY <2>1, StandingStep DEF CountInv
  <2>3. Told'
    BY <2>1, ToldStep DEF CountInv
  <2>4. AllApart'
    BY ApartStep DEF CountInv
  <2>. QED
    BY <2>1, <2>2, <2>3, <2>4 DEF CountInv
<1>. QED
  BY <1>1, <1>2, PTL DEF LimiterSpec

\* However the steps of servers, clients and Redis interleave, over crashes, lost
\* answers and expiring counters, the requests that Redis counted under one minute are
\* admitted at most Limit times (ratelimit.go:57-69).
THEOREM SharedBudgetHolds == LimiterSpec => []SharedBudget
BY LimiterAssumption, CountInvariant, SharedBudgetFollows, PTL

\* The same for what one life of one server counts, whatever its clean-up drops
\* (ratelimit.go:71-94).
THEOREM LocalBudgetHolds == LimiterSpec => []LocalBudget
BY LimiterAssumption, CountInvariant, LocalBudgetFollows, PTL

----------------------------------------------------------------------------
(* Refusals *)

Hits(k, w) == CountedIn("redis", k, w) \union {q \in Requests : req[q].leaked /\ req[q].key = k}

LocalHits(s, k, w, n) ==
  {q \in CountedIn("memory", k, w) : req[q].server = s /\ req[q].run = n}

\* Every number of a counter or of an answer stands for as many requests.
RedisCovered == \A k \in Keys, w \in Minutes : redis[k][w] <= Cardinality(Hits(k, w))

LocalCovered ==
  \A s \in Servers, k \in Keys, w \in Minutes, n \in Nat :
    local[s][k].window = w /\ run[s] = n /\ local[s][k].count > 0 =>
      local[s][k].count <= Cardinality(LocalHits(s, k, w, n))

AnswerCovered(r) ==
  /\ \A k \in Keys, w \in Minutes :
       r \in CountedIn("redis", k, w) => req[r].count <= Cardinality(Hits(k, w))
  /\ \A s \in Servers, k \in Keys, w \in Minutes, n \in Nat :
       r \in LocalHits(s, k, w, n) => req[r].count <= Cardinality(LocalHits(s, k, w, n))

Covered == RedisCovered /\ LocalCovered /\ \A r \in Requests : AnswerCovered(r)

\* What is counted of a request is not taken back.
Kept(q) ==
  /\ req[q].backend # "none" =>
       /\ req'[q].backend = req[q].backend /\ req'[q].window = req[q].window
       /\ req'[q].count = req[q].count
  /\ req[q].backend # "none" \/ req[q].leaked =>
       req'[q].key = req[q].key /\ req'[q].server = req[q].server
       /\ req'[q].run = req[q].run
  /\ req[q].leaked => req'[q].leaked

LEMMA CountsAreKept ==
  ASSUME LimiterParameters, TypeInv, Standing, [LimiterNext]_limiterVars
  PROVE  \A q \in Requests : Kept(q)
<1> SUFFICES ASSUME NEW q \in Requests PROVE Kept(q)
  OBVIOUS
<1>0. StandingOf(q)
  BY DEF Standing
<1>a. req'[q] = req[q] => Kept(q)
  BY DEF Kept
<1>b. OnlyPhase(q) => Kept(q)
  BY DEF Kept, OnlyPhase
<1>1. ASSUME NEW r \in Requests, Step(r)
      PROVE  Kept(q)
  <2>1. CASE Arrive(r)
    BY <1>0, <1>a, <2>1, ArrivesLemma DEF Arrives, OthersKept, StandingOf, Kept
  <2>2. CASE RedisCounts(r)
    BY <1>0, <1>a, <2>2, HitLemma DEF Hit, OthersKept, StandingOf, Kept
  <2>3. CASE RedisFails(r)
    BY <1>a, <1>b, <2>3, FailsLemma DEF Fails, OthersKept
  <2>4. CASE LocalCount(r)
    BY <1>0, <1>a, <2>4, CountsLemma DEF Counts, OthersKept, StandingOf, Kept
  <2>5. CASE Answer(r)
    BY <1>a, <1>b, <2>5, AnswersLemma DEF Answers, OthersKept
  <2>. QED
    BY <1>1, <2>1, <2>2, <2>3, <2>4, <2>5 DEF Step
<1>2. CASE MinutePasses \/ RedisExpires \/ UNCHANGED limiterVars
  BY <1>2, <1>a DEF MinutePasses, RedisExpires, limiterVars
<1>3. ASSUME NEW s \in Servers, Crash(s)
      PROVE  Kept(q)
  BY <1>3, <1>b, CrashLemma
<1>. QED
  BY <1>1, <1>2, <1>3 DEF LimiterNext

LEMMA LargerSet ==
  ASSUME NEW S, NEW T, IsFiniteSet(T), S \subseteq T
  PROVE  /\ IsFiniteSet(S) /\ Cardinality(S) \in Nat /\ Cardinality(T) \in Nat
         /\ Cardinality(S) <= Cardinality(T)
         /\ \A x \in T : x \notin S => Cardinality(S) + 1 <= Cardinality(T)
<1>1. IsFiniteSet(S) /\ Cardinality(S) <= Cardinality(T)
  BY FS_Subset
<1>2. Cardinality(S) \in Nat /\ Cardinality(T) \in Nat
  BY <1>1, FS_CardinalityType
<1>3. ASSUME NEW x \in T, x \notin S
      PROVE  Cardinality(S) + 1 <= Cardinality(T)
  <2>1. Cardinality(S \union {x}) = Cardinality(S) + 1
    BY <1>1, <1>3, FS_AddElement
  <2>2. S \union {x} \subseteq T
    BY <1>3
  <2>3. Cardinality(S \union {x}) <= Cardinality(T)
    BY <2>2, FS_Subset
  <2>. QED
    BY <2>1, <2>3
<1>. QED
  BY <1>1, <1>2, <1>3

LEMMA HitsAreFinite ==
  ASSUME IsFiniteSet(Requests), NEW k, NEW w, NEW s, NEW n
  PROVE  IsFiniteSet(Hits(k, w)) /\ IsFiniteSet(LocalHits(s, k, w, n))
<1>1. Hits(k, w) \subseteq Requests /\ LocalHits(s, k, w, n) \subseteq Requests
  BY DEF Hits, LocalHits, CountedIn
<1>. QED
  BY <1>1, FS_Subset

LEMMA HitsGrow ==
  ASSUME IsFiniteSet(Requests), \A q \in Requests : Kept(q),
         NEW k, NEW w, NEW s, NEW n
  PROVE  /\ Hits(k, w) \subseteq Hits(k, w)'
         /\ LocalHits(s, k, w, n) \subseteq LocalHits(s, k, w, n)'
         /\ IsFiniteSet(Hits(k, w)') /\ IsFiniteSet(LocalHits(s, k, w, n)')
<1>1. Hits(k, w) \subseteq Hits(k, w)'
  BY DEF Hits, CountedIn, Kept
<1>2. LocalHits(s, k, w, n) \subseteq LocalHits(s, k, w, n)'
  BY DEF LocalHits, CountedIn, Kept
<1>3. Hits(k, w)' \subseteq Requests /\ LocalHits(s, k, w, n)' \subseteq Requests
  BY DEF Hits, LocalHits, CountedIn
<1>4. IsFiniteSet(Hits(k, w)') /\ IsFiniteSet(LocalHits(s, k, w, n)')
  BY <1>3, FS_Subset
<1>. QED
  BY <1>1, <1>2, <1>4

LEMMA CoveredInit == IsFiniteSet(Requests) /\ LimiterParameters /\ LimiterInit => Covered
<1> SUFFICES ASSUME IsFiniteSet(Requests), LimiterParameters, LimiterInit PROVE Covered
  OBVIOUS
<1>1. \A k, w : Cardinality(Hits(k, w)) \in Nat
  BY HitsAreFinite, FS_CardinalityType
<1>2. RedisCovered
  BY <1>1 DEF LimiterInit, RedisCovered
<1>3. LocalCovered
  BY DEF LimiterInit, LocalCovered, NoBucket
<1>4. \A r \in Requests : req[r].backend = "none"
  BY DEF LimiterInit, Fresh
<1>. QED
  BY <1>2, <1>3, <1>4 DEF Covered, AnswerCovered, LocalHits, CountedIn

\* What holds of every step: the sets of counted requests only grow.
LEMMA Grow ==
  ASSUME IsFiniteSet(Requests), \A q \in Requests : Kept(q)
  PROVE  /\ \A k, w : /\ Hits(k, w) \subseteq Hits(k, w)'
                      /\ Cardinality(Hits(k, w)) \in Nat
                      /\ Cardinality(Hits(k, w)') \in Nat
                      /\ Cardinality(Hits(k, w)) <= Cardinality(Hits(k, w)')
                      /\ \A x \in Hits(k, w)' : x \notin Hits(k, w) =>
                           Cardinality(Hits(k, w)) + 1 <= Cardinality(Hits(k, w)')
         /\ \A s, k, w, n :
              LET S == LocalHits(s, k, w, n) IN
              /\ Cardinality(S) \in Nat /\ Cardinality(S') \in Nat
              /\ Cardinality(S) <= Cardinality(S')
              /\ \A x \in S' : x \notin S => Cardinality(S) + 1 <= Cardinality(S')
<1>1. ASSUME NEW k, NEW w
      PROVE  /\ Hits(k, w) \subseteq Hits(k, w)'
             /\ Cardinality(Hits(k, w)) \in Nat
             /\ Cardinality(Hits(k, w)') \in Nat
             /\ Cardinality(Hits(k, w)) <= Cardinality(Hits(k, w)')
             /\ \A x \in Hits(k, w)' : x \notin Hits(k, w) =>
                  Cardinality(Hits(k, w)) + 1 <= Cardinality(Hits(k, w)')
  <2>1. Hits(k, w) \subseteq Hits(k, w)' /\ IsFiniteSet(Hits(k, w)')
    BY HitsGrow
  <2>. QED
    BY <2>1, LargerSet
<1>2. ASSUME NEW s, NEW k, NEW w, NEW n
      PROVE  LET S == LocalHits(s, k, w, n) IN
             /\ Cardinality(S) \in Nat /\ Cardinality(S') \in Nat
             /\ Cardinality(S) <= Cardinality(S')
             /\ \A x \in S' : x \notin S => Cardinality(S) + 1 <= Cardinality(S')
  <2>1. /\ LocalHits(s, k, w, n) \subseteq LocalHits(s, k, w, n)'
        /\ IsFiniteSet(LocalHits(s, k, w, n)')
    BY HitsGrow
  <2>. QED
    BY <2>1, LargerSet
<1>. QED
  BY <1>1, <1>2

\* A request whose count stays as it was stays covered.
LEMMA AnswerStaysCovered ==
  ASSUME IsFiniteSet(Requests), TypeInv, LimiterParameters, \A q \in Requests : Kept(q),
         NEW r \in Requests, AnswerCovered(r), req'[r].backend = req[r].backend
  PROVE  AnswerCovered(r)'
<1>0. req[r].count \in Nat
  BY TypeFacts
<1>1. ASSUME NEW k \in Keys, NEW w \in Minutes, r \in CountedIn("redis", k, w)'
      PROVE  req'[r].count <= Cardinality(Hits(k, w)')
  <2>1. r \in CountedIn("redis", k, w) /\ req'[r].count = req[r].count
    BY <1>1 DEF CountedIn, Kept
  <2>. QED
    BY <1>0, <2>1, Grow DEF AnswerCovered
<1>2. ASSUME NEW s \in Servers, NEW k \in Keys, NEW w \in Minutes, NEW n \in Nat,
             r \in LocalHits(s, k, w, n)'
      PROVE  req'[r].count <= Cardinality(LocalHits(s, k, w, n)')
  <2>1. r \in LocalHits(s, k, w, n) /\ req'[r].count = req[r].count
    BY <1>2 DEF LocalHits, CountedIn, Kept
  <2>. QED
    BY <1>0, <2>1, Grow DEF AnswerCovered
<1>. QED
  BY <1>1, <1>2 DEF AnswerCovered

\* A step that leaves counters and buckets alone.
LEMMA CountersStayCovered ==
  ASSUME IsFiniteSet(Requests), TypeInv, LimiterParameters, \A q \in Requests : Kept(q)
  PROVE  /\ RedisCovered /\ redis' = redis => RedisCovered'
         /\ LocalCovered /\ local' = local /\ run' = run => LocalCovered'
<1>1. ASSUME RedisCovered, redis' = redis
      PROVE  RedisCovered'
  <2> SUFFICES ASSUME NEW k \in Keys, NEW w \in Minutes
               PROVE  redis[k][w] <= Cardinality(Hits(k, w)')
    BY <1>1 DEF RedisCovered
  <2>. QED
    BY <1>1, Grow, TypeFacts DEF RedisCovered
<1>2. ASSUME LocalCovered, local' = local, run' = run
      PROVE  LocalCovered'
  <2> SUFFICES ASSUME NEW s \in Servers, NEW k \in Keys, NEW w \in Minutes, NEW n \in Nat,
                      local[s][k].window = w, run[s] = n, local[s][k].count > 0
               PROVE  local[s][k].count <= Cardinality(LocalHits(s, k, w, n)')
    BY <1>2 DEF LocalCovered
  <2>1. local[s][k].count <= Cardinality(LocalHits(s, k, w, n))
    BY <1>2 DEF LocalCovered
  <2>2. Cardinality(LocalHits(s, k, w, n)) <= Cardinality(LocalHits(s, k, w, n)')
        /\ Cardinality(LocalHits(s, k, w, n)) \in Nat
        /\ Cardinality(LocalHits(s, k, w, n)') \in Nat
    BY Grow
  <2>. QED
    BY <2>1, <2>2, TypeFacts
<1>. QED
  BY <1>1, <1>2

LEMMA HitCovers ==
  ASSUME IsFiniteSet(Requests), TypeInv, LimiterParameters, Standing, Covered,
         \A q \in Requests : Kept(q), NEW r \in Requests, RedisCounts(r)
  PROVE  RedisCovered' /\ AnswerCovered(r)'
<1>1. Hit(r) /\ StandingOf(r) /\ RedisCovered
  BY HitLemma DEF Standing, Covered
<1>2. ASSUME NEW k \in Keys, NEW w \in Minutes
      PROVE  redis'[k][w] <= Cardinality(Hits(k, w)')
  <2>1. redis[k][w] <= Cardinality(Hits(k, w)) /\ redis[k][w] \in Nat
    BY <1>1, TypeFacts DEF RedisCovered
  <2>2. CASE req[r].key = k /\ req[r].window = w
    <3>1. redis'[k][w] = redis[k][w] + 1
      BY <1>1, <2>2 DEF Hit
    <3>2. r \in Hits(k, w)' /\ r \notin Hits(k, w)
      BY <1>1, <2>2 DEF Hit, Hits, CountedIn, StandingOf
    <3>3. /\ Cardinality(Hits(k, w)) + 1 <= Cardinality(Hits(k, w)')
          /\ Cardinality(Hits(k, w)) \in Nat /\ Cardinality(Hits(k, w)') \in Nat
      BY <3>2, Grow
    <3>. QED
      BY <2>1, <3>1, <3>3
  <2>3. CASE ~(req[r].key = k /\ req[r].window = w)
    <3>1. redis'[k][w] = redis[k][w]
      BY <1>1, <2>3 DEF Hit
    <3>. QED
      BY <2>1, <3>1, Grow
  <2>. QED
    BY <2>2, <2>3
<1>3. RedisCovered'
  BY <1>2 DEF RedisCovered
<1>4. ASSUME NEW k \in Keys, NEW w \in Minutes, r \in CountedIn("redis", k, w)'
      PROVE  req'[r].count <= Cardinality(Hits(k, w)')
  <2>1. req'[r].count = redis'[k][w]
    BY <1>1, <1>4 DEF Hit, CountedIn, StandingOf
  <2>. QED
    BY <1>2, <2>1
<1>5. ASSUME NEW s, NEW k, NEW w, NEW n
      PROVE  r \notin LocalHits(s, k, w, n)'
  BY <1>1 DEF Hit, LocalHits, CountedIn, StandingOf
<1>. QED
  BY <1>3, <1>4, <1>5 DEF AnswerCovered

LEMMA LocalCountCovers ==
  ASSUME IsFiniteSet(Requests), TypeInv, LimiterParameters, Standing, Covered,
         \A q \in Requests : Kept(q), NEW r \in Requests, LocalCount(r)
  PROVE  LocalCovered' /\ AnswerCovered(r)'
<1>1. Counts(r) /\ StandingOf(r) /\ LocalCovered /\ run' = run
  BY CountsLemma DEF Standing, Covered, LocalCount
<1>a. PICK x \in Servers, y \in Keys : x = req[r].server /\ y = req[r].key
  BY TypeFacts
<1>2. /\ x = req[r].server /\ y = req[r].key
      /\ \A k \in Keys : \/ Cleaned(x)[k] = local[x][k]
                         \/ Cleaned(x)[k] = NoBucket
  BY <1>a, CleanedBuckets
<1>3. ASSUME NEW s \in Servers, NEW k \in Keys, NEW w \in Minutes, NEW n \in Nat,
             local[s][k].window = w, run[s] = n, local[s][k].count > 0
      PROVE  local[s][k].count <= Cardinality(LocalHits(s, k, w, n)')
  <2>1. local[s][k].count <= Cardinality(LocalHits(s, k, w, n))
    BY <1>1, <1>3 DEF LocalCovered
  <2>2. /\ Cardinality(LocalHits(s, k, w, n)) <= Cardinality(LocalHits(s, k, w, n)')
        /\ Cardinality(LocalHits(s, k, w, n)) \in Nat
        /\ Cardinality(LocalHits(s, k, w, n)') \in Nat
    BY Grow
  <2>. QED
    BY <2>1, <2>2, TypeFacts
<1>4. ASSUME NEW w \in Minutes, NEW n \in Nat, w = minute, n = run[x]
      PROVE  local'[x][y].count <= Cardinality(LocalHits(x, y, w, n)')
  <2>1. local'[x][y] = Counted(Cleaned(x)[y])
    BY <1>1, <1>2 DEF Counts
  <2>2. r \in LocalHits(x, y, w, n)' /\ r \notin LocalHits(x, y, w, n)
    BY <1>1, <1>2, <1>4 DEF Counts, LocalHits, CountedIn, StandingOf, Pending
  <2>3. /\ Cardinality(LocalHits(x, y, w, n)) + 1 <= Cardinality(LocalHits(x, y, w, n)')
        /\ Cardinality(LocalHits(x, y, w, n)) \in Nat
        /\ Cardinality(LocalHits(x, y, w, n)') \in Nat
    BY <2>2, Grow
  <2>4. \/ local'[x][y].count = 1
        \/ /\ local[x][y].window = minute
           /\ local'[x][y].count = local[x][y].count + 1
    BY <1>2, <2>1 DEF Counted, NoBucket
  <2>5. local[x][y].window = minute /\ local[x][y].count > 0 =>
          local[x][y].count <= Cardinality(LocalHits(x, y, w, n))
    BY <1>1, <1>2, <1>4 DEF LocalCovered
  <2>6. local[x][y].count \in Nat
    BY <1>2, TypeFacts
  <2>. QED
    BY <2>3, <2>4, <2>5, <2>6
<1>5. /\ local'[x][y].window = minute
      /\ req'[r].count = local'[x][y].count
      /\ req'[r].window = minute /\ req'[r].server = x /\ req'[r].key = y
      /\ req'[r].run = run[x] /\ req'[r].backend = "memory"
  BY <1>1, <1>2 DEF Counts, Counted, StandingOf, Pending
<1>6. ASSUME NEW s \in Servers, NEW k \in Keys, NEW w \in Minutes, NEW n \in Nat,
             local'[s][k].window = w, run'[s] = n, local'[s][k].count > 0
      PROVE  local'[s][k].count <= Cardinality(LocalHits(s, k, w, n)')
  <2>1. CASE s = x /\ k = y
    BY <1>1, <1>4, <1>5, <1>6, <2>1
  <2>2. CASE ~(s = x /\ k = y)
    <3>1. \/ local'[s][k] = local[s][k]
          \/ local'[s][k] = NoBucket
      BY <1>1, <1>2, <2>2 DEF Counts
    <3>2. local'[s][k] = local[s][k] /\ run[s] = n
      BY <1>1, <1>6, <3>1 DEF NoBucket
    <3>. QED
      BY <1>3, <1>6, <3>2
  <2>. QED
    BY <2>1, <2>2
<1>7. LocalCovered'
  BY <1>6 DEF LocalCovered
<1>8. ASSUME NEW s \in Servers, NEW k \in Keys, NEW w \in Minutes, NEW n \in Nat,
             r \in LocalHits(s, k, w, n)'
      PROVE  req'[r].count <= Cardinality(LocalHits(s, k, w, n)')
  <2>1. s = x /\ k = y /\ w = minute /\ n = run[x]
    BY <1>5, <1>8 DEF LocalHits, CountedIn
  <2>. QED
    BY <1>4, <1>5, <2>1
<1>9. \A k, w : r \notin CountedIn("redis", k, w)'
  BY <1>5 DEF CountedIn
<1>. QED
  BY <1>7, <1>8, <1>9 DEF AnswerCovered

LEMMA CoveredStep ==
  ASSUME IsFiniteSet(Requests), LimiterParameters, TypeInv, TypeInv', Standing, Covered,
         [LimiterNext]_limiterVars
  PROVE  Covered'
<1>0. \A q \in Requests : Kept(q)
  BY CountsAreKept
<1>a. RedisCovered /\ LocalCovered /\ \A q \in Requests : AnswerCovered(q)
  BY DEF Covered
<1>b. \A q \in Requests : req'[q].backend = req[q].backend => AnswerCovered(q)'
  BY <1>0, <1>a, AnswerStaysCovered
<1>c. /\ redis' = redis => RedisCovered'
      /\ local' = local /\ run' = run => LocalCovered'
  BY <1>0, <1>a, CountersStayCovered
<1>1. ASSUME NEW r \in Requests, Step(r)
      PROVE  Covered'
  <2>a. ASSUME OthersKept(r) PROVE \A q \in Requests \ {r} : AnswerCovered(q)'
    BY <1>b, <2>a DEF OthersKept
  <2>1. CASE Arrive(r)
    <3>1. Arrives(r) /\ OthersKept(r) /\ UNCHANGED <<redis, local, run>>
      BY <2>1, ArrivesLemma DEF Arrive
    <3>2. req'[r].backend = req[r].backend
      BY <3>1 DEF Arrives, Standing, StandingOf
    <3>. QED
      BY <1>b, <1>c, <2>a, <3>1, <3>2 DEF Covered
  <2>2. CASE RedisCounts(r)
    <3>1. OthersKept(r) /\ UNCHANGED <<local, run>>
      BY <2>2, HitLemma DEF RedisCounts
    <3>2. RedisCovered' /\ AnswerCovered(r)'
      BY <1>0, <2>2, HitCovers
    <3>. QED
      BY <1>c, <2>a, <3>1, <3>2 DEF Covered
  <2>3. CASE RedisFails(r)
    <3>1. Fails(r) /\ OthersKept(r) /\ UNCHANGED <<redis, local, run>>
      BY <2>3, FailsLemma DEF RedisFails
    <3>. QED
      BY <1>b, <1>c, <2>a, <3>1 DEF Covered, Fails, OnlyPhase
  <2>4. CASE LocalCount(r)
    <3>1. OthersKept(r) /\ redis' = redis
      BY <2>4, CountsLemma DEF LocalCount
    <3>2. LocalCovered' /\ AnswerCovered(r)'
      BY <1>0, <2>4, LocalCountCovers
    <3>. QED
      BY <1>c, <2>a, <3>1, <3>2 DEF Covered
  <2>5. CASE Answer(r)
    <3>1. Answers(r) /\ OthersKept(r) /\ UNCHANGED <<redis, local, run>>
      BY <2>5, AnswersLemma DEF Answer
    <3>. QED
      BY <1>b, <1>c, <2>a, <3>1 DEF Covered, Answers, OnlyPhase
  <2>. QED
    BY <1>1, <2>1, <2>2, <2>3, <2>4, <2>5 DEF Step
<1>2. CASE MinutePasses \/ UNCHANGED limiterVars
  <2>1. UNCHANGED <<redis, local, run, req>>
    BY <1>2 DEF MinutePasses, limiterVars
  <2>. QED
    BY <1>b, <1>c, <2>1 DEF Covered
<1>3. CASE RedisExpires
  <2>1. UNCHANGED <<local, run, req>>
    BY <1>3 DEF RedisExpires
  <2>2. ASSUME NEW k \in Keys, NEW w \in Minutes
        PROVE  redis'[k][w] <= Cardinality(Hits(k, w)')
    <3>1. redis'[k][w] \in {redis[k][w], 0} /\ redis[k][w] \in Nat
      BY <1>3, ExpiresLemma, TypeFacts
    <3>2. redis[k][w] <= Cardinality(Hits(k, w))
      BY <1>a DEF RedisCovered
    <3>. QED
      BY <1>0, <3>1, <3>2, Grow
  <2>. QED
    BY <1>b, <1>c, <2>1, <2>2 DEF Covered, RedisCovered
<1>4. ASSUME NEW x \in Servers, Crash(x)
      PROVE  Covered'
  <2>1. redis' = redis /\ \A q \in Requests : AnswerCovered(q)'
    BY <1>4, <1>b, CrashLemma DEF Crash, OnlyPhase
  <2>2. ASSUME NEW s \in Servers, NEW k \in Keys, NEW w \in Minutes, NEW n \in Nat,
               local'[s][k].window = w, run'[s] = n, local'[s][k].count > 0
        PROVE  local'[s][k].count <= Cardinality(LocalHits(s, k, w, n)')
    <3>1. s # x
      BY <1>4, <2>2, CrashLemma DEF NoBucket
    <3>2. local'[s] = local[s] /\ run'[s] = run[s]
      BY <1>4, <3>1, CrashLemma
    <3>3. local[s][k].count <= Cardinality(LocalHits(s, k, w, n))
      BY <1>a, <2>2, <3>2 DEF LocalCovered
    <3>4. /\ Cardinality(LocalHits(s, k, w, n)) <= Cardinality(LocalHits(s, k, w, n)')
          /\ Cardinality(LocalHits(s, k, w, n)) \in Nat
          /\ Cardinality(LocalHits(s, k, w, n)') \in Nat
      BY <1>0, Grow
    <3>. QED
      BY <3>2, <3>3, <3>4, TypeFacts
  <2>. QED
    BY <1>c, <2>1, <2>2 DEF Covered, LocalCovered
<1>. QED
  BY <1>1, <1>2, <1>3, <1>4 DEF LimiterNext

LEMMA RefusalFollows ==
  ASSUME IsFiniteSet(Requests), LimiterParameters, TypeInv, Standing, Covered
  PROVE  RefusalIsEarned
<1> SUFFICES ASSUME NEW r \in Requests, req[r].phase = "refused"
             PROVE  LET k == req[r].key
                        w == req[r].window
                        leaks == {q \in Requests : req[q].leaked /\ req[q].key = k} IN
                    IF req[r].backend = "redis"
                    THEN Cardinality(CountedIn("redis", k, w) \union leaks) > Limit
                    ELSE Cardinality({q \in CountedIn("memory", k, w) :
                           req[q].server = req[r].server /\ req[q].run = req[r].run}) > Limit
  BY DEF RefusalIsEarned
<1>1. PICK k \in Keys, w \in Minutes, s \in Servers, n \in Nat :
        k = req[r].key /\ w = req[r].window /\ s = req[r].server /\ n = req[r].run
  BY TypeFacts
<1>2. /\ req[r].backend \in {"redis", "memory"}
      /\ req[r].count > Limit /\ req[r].count \in Nat /\ Limit \in Nat
  <2>1. req[r].backend \in {"none", "redis", "memory"}
    BY TypeFacts DEF Request
  <2>. QED
    BY <2>1, TypeFacts, Numbers DEF Standing, StandingOf
<1>3. Cardinality(Hits(k, w)) \in Nat /\ Cardinality(LocalHits(s, k, w, n)) \in Nat
  BY HitsAreFinite, FS_CardinalityType
<1>4. CASE req[r].backend = "redis"
  <2>1. r \in CountedIn("redis", k, w)
    BY <1>1, <1>4 DEF CountedIn
  <2>2. Cardinality(Hits(k, w)) > Limit
    BY <1>2, <1>3, <2>1 DEF Covered, AnswerCovered
  <2>. QED
    BY <1>1, <1>4, <2>2 DEF Hits
<1>5. CASE req[r].backend = "memory"
  <2>1. r \in LocalHits(s, k, w, n)
    BY <1>1, <1>5 DEF LocalHits, CountedIn
  <2>2. Cardinality(LocalHits(s, k, w, n)) > Limit
    BY <1>2, <1>3, <2>1 DEF Covered, AnswerCovered
  <2>. QED
    BY <1>1, <1>5, <2>2 DEF LocalHits
<1>. QED
  BY <1>2, <1>4, <1>5

\* Behind every refusal stand more than Limit requests of the same key and minute,
\* counted by the same backend (ratelimit.go:48, 61, 77): neither the clean-up, an
\* expiring counter, a crash nor a late pipeline makes the limiter count too much.
THEOREM RefusalsAreEarned ==
  ASSUME IsFiniteSet(Requests)
  PROVE  LimiterSpec => []RefusalIsEarned
<1> USE LimiterAssumption
<1> DEFINE Inv == TypeInv /\ Standing /\ Covered
<1>1. LimiterInit => Inv
  BY TypeInit, StandingInit, CoveredInit
<1>2. Inv /\ [LimiterNext]_limiterVars => Inv'
  BY TypeStep, StandingStep, CoveredStep
<1>3. Inv => RefusalIsEarned
  BY RefusalFollows
<1>. QED
  BY <1>1, <1>2, <1>3, PTL DEF LimiterSpec

----------------------------------------------------------------------------
(* Stale buckets *)

Stale(s) == {k \in Tracked(s) : local[s][k].window < minute}

BucketsArePast == \A s \in Servers, k \in Keys : local[s][k].window <= minute

StaleInv == BucketsArePast /\ FewStaleBuckets

LEMMA StaleInit == LimiterInit => StaleInv
<1> SUFFICES ASSUME LimiterInit PROVE StaleInv
  OBVIOUS
<1>1. \A s \in Servers, k \in Keys : local[s][k] = NoBucket /\ minute = 0
  BY DEF LimiterInit
<1>2. \A s \in Servers : Tracked(s) = {}
  BY <1>1 DEF Tracked, NoBucket
<1>. QED
  BY <1>1, <1>2 DEF StaleInv, BucketsArePast, FewStaleBuckets, NoBucket

\* The one step that counts in the map: either the map was small, and what is stale
\* was in it; or the clean-up has just removed all that is stale.
LEMMA CountLeavesFewStale ==
  ASSUME IsFiniteSet(Keys), LimiterParameters, TypeInv, StaleInv, NEW r \in Requests, LocalCount(r)
  PROVE  StaleInv'
<1>1. Counts(r) /\ minute' = minute
  BY CountsLemma DEF LocalCount
<1>2. PICK x \in Servers, y \in Keys : x = req[r].server /\ y = req[r].key
  BY TypeFacts
<1>3. local'[x][y].window = minute
  BY <1>1, <1>2 DEF Counts, Counted
<1>4. \A s \in Servers, k \in Keys :
        s # x \/ k # y => local'[s][k] = IF s = x THEN Cleaned(x)[k] ELSE local[s][k]
  BY <1>1, <1>2 DEF Counts
<1>5. \A k \in Keys : Cleaned(x)[k] = local[x][k] \/ Cleaned(x)[k] = NoBucket
  BY CleanedBuckets
<1>6. BucketsArePast'
  BY <1>1, <1>3, <1>4, <1>5, TypeFacts DEF StaleInv, BucketsArePast, NoBucket
<1>7. ASSUME NEW s \in Servers, \E k \in Tracked(s)' : local'[s][k].window = minute
      PROVE  Cardinality({k \in Tracked(s)' : local'[s][k].window < minute}) < CleanAt
  <2>1. CASE s # x
    <3>1. \A k \in Keys : local'[s][k] = local[s][k]
      BY <1>4, <2>1
    <3>2. Tracked(s)' = Tracked(s)
      BY <3>1 DEF Tracked
    <3>3. {k \in Tracked(s)' : local'[s][k].window < minute} = Stale(s)
      BY <3>1, <3>2 DEF Stale, Tracked
    <3>. QED
      BY <1>7, <3>1, <3>2, <3>3 DEF StaleInv, FewStaleBuckets, Stale, Tracked
  <2>2. CASE s = x /\ Cardinality(Tracked(x)) < CleanAt
    <3>1. Cleaned(x) = local[x]
      BY <2>2 DEF Cleaned
    <3>2. {k \in Tracked(s)' : local'[s][k].window < minute} \subseteq Tracked(x)
      BY <1>3, <1>4, <2>2, <3>1, TypeFacts DEF Tracked
    <3>3. IsFiniteSet(Tracked(x))
      BY FS_Subset DEF Tracked
    <3>4. /\ Cardinality({k \in Tracked(s)' : local'[s][k].window < minute})
               <= Cardinality(Tracked(x))
          /\ Cardinality({k \in Tracked(s)' : local'[s][k].window < minute}) \in Nat
          /\ Cardinality(Tracked(x)) \in Nat
      BY <3>2, <3>3, LargerSet
    <3>. QED
      BY <2>2, <3>4, Numbers
  <2>3. CASE s = x /\ ~(Cardinality(Tracked(x)) < CleanAt)
    <3>1. \A k \in Keys : Cleaned(x)[k] = IF local[x][k].window < minute THEN NoBucket
                                          ELSE local[x][k]
      BY <2>3 DEF Cleaned
    <3>2. \A k \in Tracked(s)' : ~(local'[s][k].window < minute)
      BY <1>3, <1>4, <2>3, <3>1, TypeFacts DEF Tracked, NoBucket
    <3>3. {k \in Tracked(s)' : local'[s][k].window < minute} = {}
      BY <3>2
    <3>. QED
      BY <3>3, FS_EmptySet, Numbers
  <2>. QED
    BY <2>1, <2>2, <2>3
<1>. QED
  BY <1>1, <1>6, <1>7 DEF StaleInv, FewStaleBuckets

LEMMA StaleStep ==
  ASSUME IsFiniteSet(Keys), LimiterParameters, TypeInv, StaleInv, [LimiterNext]_limiterVars
  PROVE  StaleInv'
<1>a. ASSUME UNCHANGED <<minute, local>> PROVE StaleInv'
  BY <1>a DEF StaleInv, BucketsArePast, FewStaleBuckets, Tracked
<1>1. ASSUME NEW r \in Requests, Step(r)
      PROVE  StaleInv'
  <2>1. CASE LocalCount(r)
    BY <2>1, CountLeavesFewStale
  <2>2. CASE ~LocalCount(r)
    BY <1>a, <1>1, <2>2 DEF Step, Arrive, RedisCounts, RedisFails, Answer
  <2>. QED
    BY <2>1, <2>2
<1>2. CASE MinutePasses
  <2>1. minute' = minute + 1 /\ local' = local
    BY <1>2 DEF MinutePasses
  <2>2. \A s \in Servers, k \in Keys : local[s][k].window < minute'
    BY <2>1, TypeFacts DEF StaleInv, BucketsArePast
  <2>. QED
    BY <2>1, <2>2, TypeFacts DEF StaleInv, BucketsArePast, FewStaleBuckets, Tracked
<1>3. CASE RedisExpires \/ UNCHANGED limiterVars
  BY <1>3, <1>a DEF RedisExpires, limiterVars
<1>4. ASSUME NEW x \in Servers, Crash(x)
      PROVE  StaleInv'
  <2>1. minute' = minute
    BY <1>4 DEF Crash
  <2>2. \A s \in Servers : \/ local'[s] = local[s]
                           \/ \A k \in Keys : local'[s][k] = NoBucket
    BY <1>4, CrashLemma
  <2>3. BucketsArePast'
    BY <2>1, <2>2, TypeFacts DEF StaleInv, BucketsArePast, NoBucket
  <2>4. ASSUME NEW s \in Servers, \E k \in Tracked(s)' : local'[s][k].window = minute
        PROVE  Cardinality({k \in Tracked(s)' : local'[s][k].window < minute}) < CleanAt
    <3>1. local'[s] = local[s]
      BY <2>2, <2>4 DEF Tracked, NoBucket
    <3>2. Tracked(s)' = Tracked(s)
      BY <3>1 DEF Tracked
    <3>. QED
      BY <2>4, <3>1, <3>2 DEF StaleInv, FewStaleBuckets
  <2>. QED
    BY <2>1, <2>3, <2>4 DEF StaleInv, FewStaleBuckets
<1>. QED
  BY <1>1, <1>2, <1>3, <1>4 DEF LimiterNext

\* Whatever is counted and cleaned up, of a map in use fewer than CleanAt buckets belong
\* to past minutes (ratelimit.go:85-94).
THEOREM StaleBucketsAreFew ==
  ASSUME IsFiniteSet(Keys)
  PROVE  LimiterSpec => []FewStaleBuckets
<1> USE LimiterAssumption
<1> DEFINE Inv == TypeInv /\ StaleInv
<1>1. LimiterInit => Inv
  BY TypeInit, StaleInit
<1>2. Inv /\ [LimiterNext]_limiterVars => Inv'
  BY TypeStep, StaleStep
<1>3. Inv => FewStaleBuckets
  BY DEF StaleInv
<1>. QED
  BY <1>1, <1>2, <1>3, PTL DEF LimiterSpec
=============================================================================
