-------------------------------- MODULE Boot --------------------------------
(***************************************************************************)
(* The life of the backend process: cmd/server/main.go and                 *)
(* internal/database/database.go.  It connects to the database with a      *)
(* bounded number of attempts, seeds the tables one after the other,       *)
(* pings Redis once, serves, stops, and is started again by the container  *)
(* runtime (docker-compose.yml: restart: unless-stopped).  While it serves,*)
(* records are created and soft-deleted; a deleted record keeps its code.  *)
(***************************************************************************)
EXTENDS Naturals, Sequences

CONSTANTS
  Tables,       \* the tables in the order Seed fills them
  SeedCodes,    \* SeedCodes[t]: the codes of the rows seeded into t
  UserCodes,    \* UserCodes[t]: the codes clients may register in t
  Deletable,    \* the codes administrators may delete
  MaxAttempts,  \* connection attempts per start: 20 in the code
  MaxStops      \* bound: how often the process is killed, a start takes too long, and
                \* each dependency fails

CodesOf(t) == SeedCodes[t] \union UserCodes[t]

TableNames == {Tables[i] : i \in DOMAIN Tables}

Codes == UNION {CodesOf(t) : t \in TableNames}

ASSUME BootBounds == MaxAttempts \in Nat \ {0} /\ MaxStops \in Nat
ASSUME BootTables ==
  /\ Len(Tables) \in Nat \ {0} /\ DOMAIN Tables = 1 .. Len(Tables)
  /\ \A t \in TableNames : SeedCodes[t] # {}

\* A code names a row of one table.
ASSUME BootCodes ==
  \A t, u \in TableNames : t # u => CodesOf(t) \intersect CodesOf(u) = {}

VARIABLES
  server,    \* "stopped", "connecting", "seeding", "redis", "serving"
  attempt,   \* connection attempts made in this start
  table,     \* the position in Tables that Seed has reached
  records,   \* records[c]: "absent", "live" or "deleted"
  up,        \* up[d]: whether dependency d ("db", "redis") answers
  stops      \* stops[x]: how often x went down (the server, a dependency) or ran out

vars == <<server, attempt, table, records, up, stops>>

Dependencies == {"db", "redis"}

\* What may fail, the start-up context included.
Failing == Dependencies \union {"server", "startup"}

----------------------------------------------------------------------------

Live(t) == {c \in CodesOf(t) : records[c] = "live"}
Used(t) == {c \in CodesOf(t) : records[c] # "absent"}

\* Deviation: one check, on the first table, for the whole seed.
NeedsSeedByFirstTable(t) == t \in TableNames /\ Live(Tables[1]) = {}

\* Deviation: a table is seeded as long as one of its seed rows is missing.
NeedsSeedWhenRowMissing(t) == ~(SeedCodes[t] \subseteq Live(t))

\* COUNT(*) under the soft-delete scope is zero.
NeedsSeed(t) == Live(t) = {}

\* One INSERT of all the seed rows: the unique index on code refuses it when one
\* of the codes was ever used.
SeedFits(t) == SeedCodes[t] \intersect Used(t) = {}

\* Deviation: the unique index ignores deleted rows.
CodeNotLive(c) == records[c] # "live"

\* The unique index on code covers deleted rows.
CodeUnused(c) == records[c] = "absent"

Exit ==
  /\ server' = "stopped"
  /\ UNCHANGED <<attempt, table, records, up, stops>>

\* The container runtime starts the process; configuration is valid.
Start ==
  /\ server = "stopped"
  /\ server' = "connecting"
  /\ attempt' = 1
  /\ table' = 1
  /\ UNCHANGED <<records, up, stops>>

Connect ==
  /\ server = "connecting"
  /\ up["db"]
  /\ server' = "seeding"
  /\ UNCHANGED <<attempt, table, records, up, stops>>

\* A failed attempt; after the last one, or when the start-up context has expired,
\* the process exits.
ConnectFails ==
  /\ server = "connecting"
  /\ ~up["db"]
  /\ \/ /\ attempt < MaxAttempts
        /\ attempt' = attempt + 1
        /\ UNCHANGED <<server, table, records, up, stops>>
     \/ Exit

\* Deviation: the loop over the tables runs once too often.
AdvanceTooFar ==
  /\ IF table <= Len(Tables)
     THEN table' = table + 1 /\ server' = server
     ELSE server' = "redis" /\ table' = table
  /\ UNCHANGED <<attempt, up, stops>>

Advance ==
  /\ IF table < Len(Tables)
     THEN table' = table + 1 /\ server' = server
     ELSE server' = "redis" /\ table' = table
  /\ UNCHANGED <<attempt, up, stops>>

\* seedX for the next table.
SeedTable ==
  /\ server = "seeding"
  /\ LET t == Tables[table] IN
     \/ ~up["db"] /\ Exit
     \/ up["db"] /\ ~NeedsSeed(t) /\ Advance /\ UNCHANGED records
     \/ up["db"] /\ NeedsSeed(t) /\ ~SeedFits(t) /\ Exit
     \/ /\ up["db"] /\ NeedsSeed(t) /\ SeedFits(t)
        /\ records' = [c \in Codes |-> IF c \in SeedCodes[t] THEN "live" ELSE records[c]]
        /\ Advance

\* One ping, no retry.
PingRedis ==
  /\ server = "redis"
  /\ \/ ~up["redis"] /\ Exit
     \/ /\ up["redis"]
        /\ server' = "serving"
        /\ UNCHANGED <<attempt, table, records, up, stops>>

\* The start-up context ends although the dependencies answer: whatever of connecting,
\* seeding and the ping is under way fails with it.  What was inserted stays.
StartupExpires ==
  /\ server \in {"connecting", "seeding", "redis"}
  /\ stops["startup"] < MaxStops
  /\ server' = "stopped"
  /\ stops' = [stops EXCEPT !["startup"] = @ + 1]
  /\ UNCHANGED <<attempt, table, records, up>>

\* Clients register and delete records while the server runs.
Register ==
  /\ server = "serving" /\ up["db"]
  /\ \E c \in Codes :
       /\ CodeUnused(c)
       /\ records' = [records EXCEPT ![c] = "live"]
  /\ UNCHANGED <<server, attempt, table, up, stops>>

Delete ==
  /\ server = "serving" /\ up["db"]
  /\ \E c \in Deletable :
       /\ records[c] = "live"
       /\ records' = [records EXCEPT ![c] = "deleted"]
  /\ UNCHANGED <<server, attempt, table, up, stops>>

\* A crash, a kill or a shutdown, at any step.
Stop ==
  /\ server # "stopped"
  /\ stops["server"] < MaxStops
  /\ server' = "stopped"
  /\ stops' = [stops EXCEPT !["server"] = @ + 1]
  /\ UNCHANGED <<attempt, table, records, up>>

GoDown(d) ==
  /\ up[d]
  /\ stops[d] < MaxStops
  /\ up' = [up EXCEPT ![d] = FALSE]
  /\ stops' = [stops EXCEPT ![d] = @ + 1]
  /\ UNCHANGED <<server, attempt, table, records>>

ComeUp(d) ==
  /\ ~up[d]
  /\ up' = [up EXCEPT ![d] = TRUE]
  /\ UNCHANGED <<server, attempt, table, records, stops>>

Init ==
  /\ server = "stopped"
  /\ attempt = 1
  /\ table = 1
  /\ records = [c \in Codes |-> "absent"]
  /\ up \in [Dependencies -> BOOLEAN]
  /\ stops = [x \in Failing |-> 0]

Next ==
  \/ Start \/ Connect \/ ConnectFails \/ SeedTable \/ PingRedis \/ StartupExpires
  \/ Register \/ Delete
  \/ Stop
  \/ \E d \in Dependencies : GoDown(d) \/ ComeUp(d)

Spec == Init /\ [][Next]_vars

\* The container runtime restarts the process, the process runs on, and the
\* dependencies are restarted too.  That not every start takes too long is in MaxStops.
Fairness ==
  /\ WF_vars(Start) /\ WF_vars(Connect) /\ WF_vars(ConnectFails)
  /\ WF_vars(SeedTable) /\ WF_vars(PingRedis)
  /\ \A d \in Dependencies : WF_vars(ComeUp(d))

FairSpec == Spec /\ Fairness

----------------------------------------------------------------------------
(* Properties *)

TypeOK ==
  /\ server \in {"stopped", "connecting", "seeding", "redis", "serving"}
  /\ attempt \in 1 .. MaxAttempts
  /\ table \in DOMAIN Tables
  /\ records \in [Codes -> {"absent", "live", "deleted"}]
  /\ up \in [Dependencies -> BOOLEAN]
  /\ stops \in [Failing -> 0 .. MaxStops]

\* Wherever earlier starts were interrupted, a serving process has every table
\* seeded completely (database.go:88-126: one table after the other, no
\* transaction around them).
ServesSeededTables ==
  server = "serving" => \A t \in TableNames : SeedCodes[t] \subseteq Used(t)

\* Neither a start nor a client brings a deleted record back (database.go:128-151
\* counts under the soft-delete scope and inserts).
DeletedStaysDeleted ==
  [][\A c \in Codes : records[c] = "deleted" => records'[c] = "deleted"]_vars

\* After every interruption the process comes back and serves: what
\* docker-compose.yml:64 asks of the runtime.
ComesBack == []<>(server = "serving")
=============================================================================
