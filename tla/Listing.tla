------------------------------- MODULE Listing -------------------------------
(***************************************************************************)
(* A client reads a list page by page while others write.  Each page is a  *)
(* COUNT and then a SELECT, with no transaction around them.  Records are  *)
(* ordered by the time of their last change and by id, newest first        *)
(* (repository/base.go); audit entries by their time alone                 *)
(* (repository/security.go), and these are never changed or removed.       *)
(***************************************************************************)
EXTENDS Paging, FiniteSets, FiniteSetsExt

CONSTANTS
  MaxAtFirst,  \* how many rows there may be at first
  MaxRows,     \* bound: how many rows there ever are; ids are numbered
  MaxMoment    \* bound: the last moment; times of one moment are equal

ASSUME ListingAssumption ==
  MaxRows \in 0 .. MaxInt /\ MaxAtFirst \in 0 .. MaxRows /\ MaxMoment \in Nat

VARIABLES
  listed,  \* what is listed: "records" or "audits"
  moment,  \* the time
  stamp,   \* stamp[i]: updated_at of a record, created_at of an entry; 0: no row yet
  gone,    \* the records that were deleted
  stage,   \* the reader: "idle", "count", "find", "done"
  total,   \* what COUNT told for the page it asks for
  seen,    \* the rows it has been shown
  full,    \* whether the last page held all that its total promised
  untouched, removed, removedSinceCount  \* history: since the reader started, or counted

reader      == <<asked, stage, total, seen, full>>
listingVars == <<listed, moment, stamp, gone, reader, untouched, removed, removedSinceCount>>

Ids     == 1 .. MaxRows
Stored  == {i \in Ids : stamp[i] > 0}
Present == Stored \ gone

----------------------------------------------------------------------------
(* Writers *)

\* The server reads its clock a little before the row is stored.
Times == {moment - 1, moment}

Create ==
  /\ \E i \in Ids : /\ i = Cardinality(Stored) + 1
                    /\ \E t \in Times : stamp' = [stamp EXCEPT ![i] = t]
  /\ UNCHANGED <<listed, moment, gone, reader, untouched, removed, removedSinceCount>>

\* Store.Update; its guard on the version keeps the times of one record in order.
Touch ==
  /\ listed = "records"
  /\ \E i \in Present : \E t \in Times :
       /\ t >= stamp[i]
       /\ stamp' = [stamp EXCEPT ![i] = t]
       /\ untouched' = untouched \ {i}
  /\ UNCHANGED <<listed, moment, gone, reader, removed, removedSinceCount>>

Delete ==
  /\ listed = "records"
  /\ \E i \in Present : gone' = gone \union {i}
  /\ removed' = TRUE
  /\ removedSinceCount' = TRUE
  /\ UNCHANGED <<listed, moment, stamp, reader, untouched>>

MomentPasses ==
  /\ moment < MaxMoment
  /\ moment' = moment + 1
  /\ UNCHANGED <<listed, stamp, gone, reader, untouched, removed, removedSinceCount>>

----------------------------------------------------------------------------
(* The reader *)

UsedPage == NormalizePage(BindPage(asked))

\* Deviation: records are ordered by time alone.
BeforeByTime(i, j) == stamp[i] > stamp[j]

Before(i, j) ==
  stamp[i] > stamp[j] \/ (listed = "records" /\ stamp[i] = stamp[j] /\ i > j)

\* The rows that may come before place n + 1: where ORDER BY leaves the order open,
\* the database may choose, in each query anew.
Firsts(n) ==
  {S \in kSubset(n, Present) : \A i \in S, j \in Present \ S : ~Before(j, i)}

Start ==
  /\ stage = "idle"
  /\ stage' = "count"
  /\ untouched' = Present
  /\ removed' = FALSE
  /\ UNCHANGED <<listed, moment, stamp, gone, asked, total, seen, full, removedSinceCount>>

Count ==
  /\ stage = "count"
  /\ stage' = "find"
  /\ total' = Cardinality(Present)
  /\ removedSinceCount' = FALSE
  /\ UNCHANGED <<listed, moment, stamp, gone, asked, seen, full, untouched, removed>>

Promised ==
  LET left == total - (UsedPage.page - 1) * UsedPage.size IN
  IF left < 0 THEN 0 ELSE IF left < UsedPage.size THEN left ELSE UsedPage.size

\* The reader goes on until a page is not full.
Find ==
  /\ stage = "find"
  /\ LET places == Places(Cardinality(Present), UsedPage)
         upTo   == Max(places \union {0}) IN
     /\ \E front \in Firsts(upTo) : \E skipped \in Firsts(upTo - Cardinality(places)) :
          /\ skipped \subseteq front
          /\ seen' = seen \union (front \ skipped)
     /\ full' = (Cardinality(places) >= Promised)
     /\ IF Cardinality(places) < UsedPage.size
        THEN stage' = "done" /\ UNCHANGED asked
        ELSE stage' = "count" /\ asked' = [asked EXCEPT !.page = @ + 1]
  /\ total' = 0
  /\ UNCHANGED <<listed, moment, stamp, gone, untouched, removed, removedSinceCount>>

\* The reader begins at the first page, and keeps the size it asks for.
ListingInit ==
  /\ listed \in {"records", "audits"}
  /\ moment = 2
  /\ \E atFirst \in 0 .. MaxAtFirst : \E old \in [1 .. atFirst -> {1, 2}] :
       stamp = [i \in Ids |-> IF i <= atFirst THEN old[i] ELSE 0]
  /\ gone = {}
  /\ asked \in [page : {1}, size : Ints]
  /\ stage = "idle" /\ total = 0 /\ seen = {} /\ full = TRUE
  /\ untouched = {} /\ removed = FALSE /\ removedSinceCount = FALSE

ListingNext == Create \/ Touch \/ Delete \/ MomentPasses \/ Start \/ Count \/ Find

ListingSpec == ListingInit /\ [][ListingNext]_listingVars

----------------------------------------------------------------------------
(* Properties *)

Alone(i) == \A j \in Present \ {i} : stamp[j] # stamp[i]

\* Reading on to the end shows every row that was there from the start and was left
\* alone, whatever is inserted or changed meanwhile: changes move rows only towards the
\* front (base.go:44).  Two provisos: a deletion moves rows forward, past the reader,
\* and among audit entries of one instant, which have no second key (security.go:58),
\* one may be shown twice and another not at all.
NothingIsSkipped ==
  stage = "done" /\ ~removed =>
    \A i \in untouched : listed = "records" \/ Alone(i) => i \in seen

\* A page is as full as the total sent with it promises, unless something was deleted
\* between the two queries: rows are counted first and found afterwards
\* (base.go:40-46, security.go:54-59).
PagesAreFull == ~full => removedSinceCount
=============================================================================
