------------------------------- MODULE MCViews -------------------------------
(***************************************************************************)
(* What users are shown, and act on, while others write, on small          *)
(* instances: summaries and histories of the audit log, pages of records   *)
(* and of audit entries, and the workbench of the browser client.  Each    *)
(* behaviour is one of a single part, chosen at the start; the others rest *)
(* in an initial state of theirs.                                          *)
(***************************************************************************)
EXTENDS AuditTrail, Listing, Desk, TLC

VARIABLE part

vars == <<part, trailVars, listingVars, deskVars>>

OneActor == CHOOSE a \in Actors : TRUE
OneType  == CHOOSE t \in Types : TRUE

----------------------------------------------------------------------------

\* Three records and a new one, or four entries and a new one, make a reader of pages
\* of two cross a boundary twice; the size that is asked for the entries is refused.
FirstPage(of, rows, size) ==
  ListingInit /\ listed = of /\ Cardinality(Stored) = rows /\ asked.size = size

\* The pages are asked for without a list behind them.
AnyPage ==
  /\ PagingInit
  /\ listed = "audits" /\ moment = 2 /\ stamp = [i \in Ids |-> 0] /\ gone = {}
  /\ stage = "idle" /\ total = 0 /\ seen = {} /\ full = TRUE
  /\ untouched = {} /\ removed = FALSE /\ removedSinceCount = FALSE

Init ==
  /\ part \in {"summaries", "histories", "records", "entries", "pages", "bench"}
  /\ TrailInit /\ \A w \in Writers : write[w].actor = OneActor /\ write[w].type = OneType
  /\ CASE part = "records" -> FirstPage("records", 3, 2)
       [] part = "entries" -> FirstPage("audits", 4, 4)
       [] part = "pages"   -> AnyPage
       [] OTHER            -> FirstPage("audits", 0, 2)
  /\ DeskInit
  /\ part = "bench" \/ (kind = "artifact" /\ role = "viewer" /\ row.status = "registered")

\* An entry may arrive at two moments between the five queries.
SummariesNext ==
  /\ part = "summaries"
  /\ SummaryNext
  /\ instant' < MaxInstant /\ \A w \in Writers : write'[w].type = OneType
  /\ UNCHANGED <<part, listingVars, deskVars>>

\* Two writers that overlap or follow each other, and a history that shows one or both.
HistoriesNext ==
  /\ part = "histories"
  /\ HistoryNext
  /\ \A w \in Writers : write'[w].actor = OneActor
  /\ UNCHANGED <<part, listingVars, deskVars>>

RecordsNext ==
  /\ part = "records"
  /\ ListingNext
  /\ moment' = 2 /\ Cardinality(Stored') < MaxRows
  /\ UNCHANGED <<part, trailVars, deskVars>>

\* The entries have to arrive meanwhile.
EntriesNext ==
  part = "entries" /\ ListingNext /\ UNCHANGED <<part, trailVars, deskVars>>

BenchNext ==
  part = "bench" /\ DeskNext /\ UNCHANGED <<part, trailVars, listingVars>>

Next == SummariesNext \/ HistoriesNext \/ RecordsNext \/ EntriesNext \/ BenchNext

Spec == Init /\ [][Next]_vars

Symmetry == Permutations(Writers) \union Permutations(Calls)
=============================================================================
