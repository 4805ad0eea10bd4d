----------------------------- MODULE BootProofs -----------------------------
(***************************************************************************)
(* Theorems about Boot, for any number of tables, seed rows, attempts and  *)
(* interruptions.                                                          *)
(***************************************************************************)
EXTENDS Boot, TLAPS

LEMMA TypeInit == Init => TypeOK
BY BootBounds, BootTables DEF Init, TypeOK

LEMMA TypeStep == TypeOK /\ [Next]_vars => TypeOK'
<1> SUFFICES ASSUME TypeOK, [Next]_vars PROVE TypeOK'
  OBVIOUS
<1> USE BootBounds DEF TypeOK
<1>a. Exit => TypeOK'
  BY DEF Exit
<1>1. CASE Start
  BY <1>1, BootTables DEF Start
<1>2. CASE Connect
  BY <1>2 DEF Connect
<1>3. CASE ConnectFails
  BY <1>3, <1>a DEF ConnectFails
<1>4. CASE SeedTable
  <2>1. Advance /\ records' \in [Codes -> {"absent", "live", "deleted"}] => TypeOK'
    BY BootTables DEF Advance
  <2>. QED
    BY <1>4, <1>a, <2>1 DEF SeedTable
<1>5. CASE PingRedis
  BY <1>5, <1>a DEF PingRedis
<1>6. CASE Register \/ Delete
  BY <1>6 DEF Register, Delete
<1>7. CASE Stop \/ StartupExpires
  <2>1. PICK x \in {"server", "startup"} :
          stops[x] < MaxStops /\ stops' = [stops EXCEPT ![x] = @ + 1]
    BY <1>7 DEF Stop, StartupExpires
  <2>2. stops[x] \in 0 .. MaxStops /\ stops[x] + 1 \in 0 .. MaxStops
    BY <2>1 DEF Failing
  <2>3. stops' \in [Failing -> 0 .. MaxStops]
    BY <2>1, <2>2
  <2>. QED
    BY <1>7, <2>3 DEF Stop, StartupExpires
<1>8. ASSUME NEW d \in Dependencies, GoDown(d) \/ ComeUp(d)
      PROVE  TypeOK'
  <2>1. up' \in [Dependencies -> BOOLEAN]
    BY <1>8 DEF GoDown, ComeUp
  <2>2. stops[d] \in 0 .. MaxStops /\ (stops[d] < MaxStops => stops[d] + 1 \in 0 .. MaxStops)
    BY DEF Failing
  <2>3. stops' \in [Failing -> 0 .. MaxStops]
    BY <1>8, <2>2 DEF GoDown, ComeUp
  <2>. QED
    BY <1>8, <2>1, <2>3 DEF GoDown, ComeUp
<1>9. CASE UNCHANGED vars
  BY <1>9 DEF vars
<1>. QED
  BY <1>1, <1>2, <1>3, <1>4, <1>5, <1>6, <1>7, <1>8, <1>9 DEF Next

\* The process is always in one of its five states, within its attempts and tables, and
\* every record is absent, live or deleted.
THEOREM TypeCorrect == Spec => []TypeOK
BY TypeInit, TypeStep, PTL DEF Spec

----------------------------------------------------------------------------
(* Records *)

\* What the writers of records do to one of them.
LEMMA RecordsStep ==
  ASSUME TypeOK, [Next]_vars, NEW c \in Codes
  PROVE  \/ records'[c] = records[c]
         \/ records[c] = "absent" /\ records'[c] = "live"
         \/ records[c] = "live" /\ records'[c] \in {"live", "deleted"}
<1>1. CASE SeedTable
  <2> DEFINE t == Tables[table]
  <2>1. \/ records' = records
        \/ /\ SeedFits(t)
           /\ records' = [x \in Codes |-> IF x \in SeedCodes[t] THEN "live" ELSE records[x]]
    BY <1>1 DEF SeedTable, Exit
  <2>2. SeedFits(t) /\ c \in SeedCodes[t] => records[c] = "absent"
    BY DEF SeedFits, Used, CodesOf
  <2>. QED
    BY <2>1, <2>2
<1>2. CASE Register
  BY <1>2 DEF Register, CodeUnused, TypeOK
<1>3. CASE Delete
  BY <1>3 DEF Delete, TypeOK
<1>4. CASE ~SeedTable /\ ~Register /\ ~Delete
  BY <1>4 DEF Next, vars, Start, Connect, ConnectFails, PingRedis, Stop, StartupExpires, GoDown, ComeUp, Exit
<1>. QED
  BY <1>1, <1>2, <1>3, <1>4

\* No start and no client brings a deleted record back, whatever is deleted and
\* wherever a start was interrupted (database.go:128-151).
THEOREM DeletedRecordsStay == Spec => DeletedStaysDeleted
<1>1. TypeOK /\ [Next]_vars =>
        [\A c \in Codes : records[c] = "deleted" => records'[c] = "deleted"]_vars
  <2> SUFFICES ASSUME TypeOK, [Next]_vars, NEW c \in Codes, records[c] = "deleted"
               PROVE  records'[c] = "deleted"
    OBVIOUS
  <2>. QED
    BY RecordsStep
<1>. QED
  BY <1>1, TypeInit, TypeStep, PTL DEF Spec, DeletedStaysDeleted

----------------------------------------------------------------------------
(* The seed *)

Seeded(t) == SeedCodes[t] \subseteq Used(t)

\* A table was never written, or its seed was the first that was written to it.
SeedComesFirst == \A t \in TableNames : Used(t) = {} \/ Seeded(t)

\* How far Seed has come in this start.
Progress ==
  /\ server = "connecting" => table = 1
  /\ server = "seeding" => \A i \in 1 .. table - 1 : Seeded(Tables[i])
  /\ server \in {"redis", "serving"} => \A t \in TableNames : Seeded(t)

LEMMA SeededStays ==
  ASSUME TypeOK, [Next]_vars, NEW t \in TableNames, Seeded(t)
  PROVE  Seeded(t)'
<1>1. Used(t) \subseteq Codes
  BY DEF Used, Codes
<1>. QED
  BY <1>1, RecordsStep DEF Seeded, Used

LEMMA SeedFirstStep ==
  ASSUME TypeOK, SeedComesFirst, Progress, [Next]_vars
  PROVE  SeedComesFirst'
<1> SUFFICES ASSUME NEW t \in TableNames PROVE Used(t)' = {} \/ Seeded(t)'
  BY DEF SeedComesFirst
<1>1. CASE Seeded(t)
  BY <1>1, SeededStays
<1>2. CASE Used(t) = {} /\ ~Seeded(t)
  <2>1. CodesOf(t) \subseteq Codes /\ SeedCodes[t] \subseteq CodesOf(t)
    BY DEF Codes, CodesOf
  <2>2. \A c \in CodesOf(t) : records[c] = "absent"
    BY <1>2 DEF Used
  <2>3. CASE SeedTable
    <3> DEFINE u == Tables[table]
    <3>1. u \in TableNames
      BY DEF TypeOK, TableNames
    <3>2. \/ records' = records
          \/ records' = [x \in Codes |-> IF x \in SeedCodes[u] THEN "live" ELSE records[x]]
      BY <2>3 DEF SeedTable, Exit
    <3>3. CASE records' = records
      BY <1>2, <3>3 DEF Used
    <3>4. CASE /\ u = t
               /\ records' = [x \in Codes |-> IF x \in SeedCodes[u] THEN "live" ELSE records[x]]
      BY <2>1, <3>4 DEF Seeded, Used
    <3>5. CASE /\ u # t
               /\ records' = [x \in Codes |-> IF x \in SeedCodes[u] THEN "live" ELSE records[x]]
      <4>1. \A c \in CodesOf(t) : c \notin SeedCodes[u]
        BY <3>1, <3>5, BootCodes DEF CodesOf
      <4>2. \A c \in CodesOf(t) : records'[c] = "absent"
        BY <2>1, <2>2, <3>5, <4>1
      <4>. QED
        BY <4>2 DEF Used
    <3>. QED
      BY <3>2, <3>3, <3>4, <3>5
  <2>4. CASE Register
    BY <1>2, <2>4 DEF Register, Progress
  <2>5. CASE Delete
    <3>1. PICK d \in Deletable : records[d] = "live"
                              /\ records' = [records EXCEPT ![d] = "deleted"]
      BY <2>5 DEF Delete
    <3>2. \A c \in CodesOf(t) : records'[c] = "absent"
      BY <2>1, <2>2, <3>1 DEF TypeOK
    <3>. QED
      BY <3>2 DEF Used
  <2>6. CASE ~SeedTable /\ ~Register /\ ~Delete
    <3>1. records' = records
      BY <2>6 DEF Next, vars, Start, Connect, ConnectFails, PingRedis, Stop, StartupExpires, GoDown, ComeUp, Exit
    <3>. QED
      BY <1>2, <3>1 DEF Used
  <2>. QED
    BY <2>3, <2>4, <2>5, <2>6
<1>. QED
  BY <1>1, <1>2 DEF SeedComesFirst

LEMMA ProgressStep ==
  ASSUME TypeOK, SeedComesFirst, Progress, [Next]_vars
  PROVE  Progress'
<1>0. \A t \in TableNames : Seeded(t) => Seeded(t)'
  BY SeededStays
<1>t. /\ table \in 1 .. Len(Tables) /\ Len(Tables) \in Nat
      /\ \A i \in 1 .. Len(Tables) : Tables[i] \in TableNames
      /\ \A t \in TableNames : \E i \in 1 .. Len(Tables) : t = Tables[i]
  BY BootTables DEF TypeOK, TableNames
<1>1. CASE SeedTable
  <2>0. PICK n \in 1 .. Len(Tables), u \in TableNames : n = table /\ u = Tables[n]
    BY <1>t
  <2>1. \A i \in 1 .. table - 1 : Seeded(Tables[i])'
    BY <1>0, <1>1, <1>t DEF SeedTable, Progress
  <2>2. CASE Exit
    BY <2>2 DEF Exit, Progress
  <2>3. CASE Advance /\ Seeded(u)'
    <3>1. CASE table < Len(Tables)
      <4>1. table' = table + 1 /\ server' = "seeding"
        BY <1>1, <2>3, <3>1 DEF Advance, SeedTable
      <4>2. \A i \in 1 .. table' - 1 : Seeded(Tables[i])'
        BY <1>t, <2>0, <2>1, <2>3, <4>1
      <4>. QED
        BY <4>1, <4>2 DEF Progress
    <3>2. CASE ~(table < Len(Tables))
      <4>1. server' = "redis" /\ table = Len(Tables)
        BY <1>t, <2>3, <3>2 DEF Advance
      <4>2. \A i \in 1 .. Len(Tables) : Seeded(Tables[i])'
        BY <1>t, <2>0, <2>1, <2>3, <4>1
      <4>. QED
        BY <1>t, <4>1, <4>2 DEF Progress
    <3>. QED
      BY <3>1, <3>2
  <2>4. ~NeedsSeed(u) => Seeded(u)
    BY <1>t DEF NeedsSeed, Live, Used, SeedComesFirst
  <2>5. records' = [x \in Codes |-> IF x \in SeedCodes[u] THEN "live" ELSE records[x]]
          => Seeded(u)'
    BY <1>t DEF Seeded, Used, Codes, CodesOf
  <2>6. Seeded(u) => Seeded(u)'
    BY <1>0, <1>t
  <2>7. \/ Exit
        \/ Advance /\ ~NeedsSeed(u)
        \/ Advance /\ records' = [x \in Codes |-> IF x \in SeedCodes[u] THEN "live"
                                               ELSE records[x]]
    BY <1>1, <2>0 DEF SeedTable
  <2>. QED
    BY <2>2, <2>3, <2>4, <2>5, <2>6, <2>7
<1>2. CASE Connect
  BY <1>2 DEF Connect, Progress
<1>3. CASE Start
  BY <1>3 DEF Start, Progress
<1>4. CASE server' = "stopped"
  BY <1>4 DEF Progress
<1>5. CASE ConnectFails /\ server' # "stopped"
  BY <1>5 DEF ConnectFails, Exit, Progress
<1>6. CASE PingRedis /\ server' # "stopped"
  BY <1>0, <1>6 DEF PingRedis, Exit, Progress
<1>7. CASE UNCHANGED <<server, table>>
  BY <1>0, <1>t, <1>7 DEF Progress
<1>8. \/ SeedTable \/ Connect \/ Start \/ ConnectFails \/ PingRedis
      \/ server' = "stopped" \/ UNCHANGED <<server, table>>
  BY DEF Next, vars, Register, Delete, Stop, StartupExpires, GoDown, ComeUp
<1>. QED
  BY <1>1, <1>2, <1>3, <1>4, <1>5, <1>6, <1>7, <1>8

LEMMA SeedInit == Init => SeedComesFirst /\ Progress
<1> SUFFICES ASSUME Init PROVE SeedComesFirst /\ Progress
  OBVIOUS
<1>1. \A t \in TableNames : CodesOf(t) \subseteq Codes
  BY DEF Codes
<1>. QED
  BY <1>1 DEF Init, SeedComesFirst, Progress, Used

\* Wherever earlier starts were interrupted, and whatever was deleted since, a process
\* that serves has every table seeded, in one piece (database.go:88-126).
THEOREM ServersAreSeeded == Spec => []ServesSeededTables
<1> DEFINE Inv == TypeOK /\ SeedComesFirst /\ Progress
<1>1. Init => Inv
  BY TypeInit, SeedInit
<1>2. Inv /\ [Next]_vars => Inv'
  BY TypeStep, SeedFirstStep, ProgressStep
<1>3. Inv => ServesSeededTables
  BY DEF Progress, ServesSeededTables, Seeded
<1>. QED
  BY <1>1, <1>2, <1>3, PTL DEF Spec
=============================================================================
