----------------------------- MODULE AuditTrail -----------------------------
(***************************************************************************)
(* Readers of the audit log beside its writers: SummarizeAudits, which is  *)
(* five queries without a transaction around them, and EntityHistory       *)
(* (repository/security.go, service/security.go, handler/system.go).  A    *)
(* writer has stored its change already; it takes the time, inserts its    *)
(* entry, and is answered.  Entries are never changed or removed.          *)
(***************************************************************************)
EXTENDS Naturals, FiniteSets, Sequences, SequencesExt, FiniteSetsExt

CONSTANTS
  Writers,        \* write requests, each leaving at most one entry
  Actors, Types,  \* the users, and the entity types; one entity of each type
  DefaultLimit, MaxLimit,    \* of a history: 20 and 100 in the code
  DefaultWindow, MaxWindow,  \* of a summary: 24 hours and 90 days in the code
  MaxInstant      \* bound: the last instant; entries of one instant are unordered

ASSUME TrailAssumption ==
  /\ MaxLimit \in Nat /\ DefaultLimit \in 1 .. MaxLimit
  /\ MaxWindow \in Nat /\ DefaultWindow \in 1 .. MaxWindow

Actions == {"update", "transition"}

VARIABLES
  instant,  \* the instant
  write,    \* write[w]: where a writer stands, and what its entry says
  summary,  \* the summary being read, or read
  history   \* the history read last

trailVars == <<instant, write, summary, history>>

----------------------------------------------------------------------------
(* Writers *)

Entries == {w \in Writers : write[w].phase = "visible"}

Begin(w) ==
  /\ write[w].phase = "idle"
  /\ \E a \in Actors, t \in Types, action \in Actions :
       write' = [write EXCEPT ![w] = [phase |-> "storing", actor |-> a, type |-> t,
                   action |-> action, began |-> instant, stamp |-> 0, done |-> 0]]
  /\ UNCHANGED <<instant, summary, history>>

\* CreatedAt: time.Now().UTC()
Stamp(w) ==
  /\ write[w].phase = "storing"
  /\ write' = [write EXCEPT ![w].phase = "stamped", ![w].stamp = instant]
  /\ UNCHANGED <<instant, summary, history>>

\* AppendAudit; the request is answered afterwards.
AppendEntry(w) ==
  /\ write[w].phase = "stamped"
  /\ write' = [write EXCEPT ![w].phase = "visible", ![w].done = instant]
  /\ UNCHANGED <<instant, summary, history>>

\* The insert fails, or the process stops before it.
NoEntry(w) ==
  /\ write[w].phase \in {"storing", "stamped"}
  /\ write' = [write EXCEPT ![w].phase = "unaudited"]
  /\ UNCHANGED <<instant, summary, history>>

----------------------------------------------------------------------------
(* SummarizeAudits *)

Window(asked) ==
  IF asked < 1 THEN DefaultWindow ELSE IF asked > MaxWindow THEN MaxWindow ELSE asked

Since(asked) == IF instant < Window(asked) THEN 0 ELSE instant - Window(asked)

Recent(since) == {w \in Entries : write[w].stamp >= since}

\* Deviation: the groups by entity type are read first.
TypesFirst == <<"types", "total", "transitions", "actors", "actions">>

Queries == <<"total", "transitions", "actors", "actions", "types">>

Result(query, found) ==
  CASE query = "total"       -> Cardinality(found)
    [] query = "transitions" -> Cardinality({w \in found : write[w].action = "transition"})
    [] query = "actors"      -> Cardinality({write[w].actor : w \in found})
    [] query = "actions"     -> [v \in Actions |-> Cardinality({w \in found : write[w].action = v})]
    [] query = "types"       -> [v \in Types |-> Cardinality({w \in found : write[w].type = v})]

NoSummary == [next |-> 0, since |-> 0, atStart |-> {}, atEnd |-> {}, numbers |-> <<>>]

StartSummary ==
  /\ summary.next = 0
  /\ \E asked \in 0 .. MaxWindow + 1 :
       summary' = [next |-> 1, since |-> Since(asked), atStart |-> Recent(Since(asked)),
                   atEnd |-> {}, numbers |-> <<>>]
  /\ UNCHANGED <<instant, write, history>>

\* Nothing is cached: each query sees the entries of its own moment.
RunQuery ==
  /\ summary.next \in 1 .. Len(Queries)
  /\ LET found == Recent(summary.since) IN
     summary' = [summary EXCEPT
       !.next = @ + 1,
       !.numbers = Append(@, Result(Queries[summary.next], found)),
       !.atEnd = found]
  /\ UNCHANGED <<instant, write, history>>

\* A query fails: the answer is an error without numbers.
QueryFails ==
  /\ summary.next \in 1 .. Len(Queries)
  /\ summary' = NoSummary
  /\ UNCHANGED <<instant, write, history>>

----------------------------------------------------------------------------
(* EntityHistory *)

NormalizedLimit(asked) ==
  IF asked < 1 THEN DefaultLimit ELSE IF asked > MaxLimit THEN MaxLimit ELSE asked

\* Deviation: created_at ASC.
OldestFirst(s) ==
  \A i, j \in DOMAIN s : i < j => write[s[i]].stamp <= write[s[j]].stamp

\* created_at DESC, with no second key: entries of one instant come in any order.
NewestFirst(s) ==
  \A i, j \in DOMAIN s : i < j => write[s[i]].stamp >= write[s[j]].stamp

NoHistory == [found |-> {}, list |-> <<>>]

ReadHistory ==
  /\ \E t \in Types, asked \in 0 .. MaxLimit + 1 :
       LET found == {w \in Entries : write[w].type = t} IN
       \E order \in SetToSeqs(found) :
         /\ NewestFirst(order)
         /\ history' = [found |-> found,
              list |-> SubSeq(order, 1, Min({NormalizedLimit(asked), Len(order)}))]
  /\ UNCHANGED <<instant, write, summary>>

InstantPasses ==
  /\ instant < MaxInstant
  /\ instant' = instant + 1
  /\ UNCHANGED <<write, summary, history>>

TrailInit ==
  /\ instant = 0
  /\ \E a \in Actors, t \in Types :
       write = [w \in Writers |-> [phase |-> "idle", actor |-> a, type |-> t,
                  action |-> "update", began |-> 0, stamp |-> 0, done |-> 0]]
  /\ summary = NoSummary
  /\ history = NoHistory

Writing ==
  \/ \E w \in Writers : Begin(w) \/ Stamp(w) \/ AppendEntry(w) \/ NoEntry(w)
  \/ InstantPasses

\* The two readers share nothing: one specification beside the writers for each.
SummaryNext == Writing \/ StartSummary \/ RunQuery \/ QueryFails
HistoryNext == Writing \/ ReadHistory

SummarySpec == TrailInit /\ [][SummaryNext]_trailVars
HistorySpec == TrailInit /\ [][HistoryNext]_trailVars

----------------------------------------------------------------------------
(* Properties *)

\* What the counts of a summary add up to: so many pairs of a group and a number.
Total(counts) == Cardinality(UNION {{v} \X (1 .. counts[v]) : v \in DOMAIN counts})

Number(query) == summary.numbers[CHOOSE i \in DOMAIN Queries : Queries[i] = query]

Between(low, n, high) == low <= n /\ n <= high

\* The numbers of a summary are of five moments, so they need not agree; but each of
\* them, and each group's, lies between what its query would have answered when the
\* summary began and when it ended; and a later query counts no less: the total is never
\* more than the actions add up to, nor these more than the entity types, nor the
\* transitions and the actors more than the actions show (security.go:68-88).
\* Transitions may exceed the total.
SummaryIsBracketed ==
  summary.next > Len(Queries) =>
    LET AtStart(query) == Result(query, summary.atStart)
        AtEnd(query)   == Result(query, summary.atEnd) IN
    /\ \A query \in {"total", "transitions", "actors"} :
         Between(AtStart(query), Number(query), AtEnd(query))
    /\ \A v \in Actions : Between(AtStart("actions")[v], Number("actions")[v], AtEnd("actions")[v])
    /\ \A v \in Types : Between(AtStart("types")[v], Number("types")[v], AtEnd("types")[v])
    /\ Number("total") <= Total(Number("actions"))
    /\ Total(Number("actions")) <= Total(Number("types"))
    /\ Number("transitions") <= Number("actions")["transition"]
    /\ Number("actors") <= Total(Number("actions"))

\* The history never turns two requests around that followed each other: when v began
\* after u had been answered, and both entries were there, v is listed whenever u is,
\* and before it (security.go:100-101, service/security.go:68-72).  Of requests that
\* overlap, or that share an instant, either may come first.
HistoryRespectsRealTime ==
  \A u, v \in history.found :
    write[u].done < write[v].began =>
      \A i \in DOMAIN history.list :
        history.list[i] = u => \E j \in 1 .. i - 1 : history.list[j] = v
=============================================================================
