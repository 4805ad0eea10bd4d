---------------------------- MODULE ApprovalReads ----------------------------
(***************************************************************************)
(* Readers of approvals beside the writers of StageApproval.  Get and List *)
(* read the rows first and their opinions in a second query, with no       *)
(* transaction around the two (repository/stage_approval.go).  What they   *)
(* show may mix two moments; the properties say what it still guarantees.  *)
(***************************************************************************)
EXTENDS StageApproval

CONSTANT Readers  \* the read requests, each served at most once

VARIABLES
  stage,  \* where each reader stands: "idle", "rows", "done"
  page,   \* page[q]: the approvals on the page
  shown,  \* shown[q]: the rows it holds, per approval
  slips   \* slips[q]: the opinions attached to them

readVars == <<stage, page, shown, slips>>
allVars  == <<rows, opinions, audits, phase, input, current, commits,
              stage, page, shown, slips>>

----------------------------------------------------------------------------

\* Get asks for one approval; List for a page of those that match a filter.  A
\* reader that finds none answers at once (404, or an empty page).
ReadRows(q) ==
  /\ stage[q] = "idle"
  /\ \E wanted \in SUBSET Approvals :
       LET found == {a \in wanted : Live(rows[a])} IN
       /\ page'  = [page EXCEPT ![q] = found]
       /\ shown' = [shown EXCEPT ![q] = [a \in Approvals |->
                      IF a \in found THEN rows[a] ELSE NoRow]]
       /\ stage' = [stage EXCEPT ![q] = IF found = {} THEN "done" ELSE "rows"]
  /\ UNCHANGED <<vars, slips>>

\* Deviation: the opinions are filtered by the version before the current one.
EarlierOpinions(a) == {o \in opinions : o.approval = a /\ o.version < rows[a].version}

OpinionsOf(a) == {o \in opinions : o.approval = a}

ReadOpinions(q) ==
  /\ stage[q] = "rows"
  /\ slips' = [slips EXCEPT ![q] = UNION {OpinionsOf(a) : a \in page[q]}]
  /\ stage' = [stage EXCEPT ![q] = "done"]
  /\ UNCHANGED <<vars, page, shown>>

ReadsInit ==
  /\ Init
  /\ stage = [q \in Readers |-> "idle"]
  /\ page  = [q \in Readers |-> {}]
  /\ shown = [q \in Readers |-> [a \in Approvals |-> NoRow]]
  /\ slips = [q \in Readers |-> {}]

ReadsNext ==
  \/ Next /\ UNCHANGED readVars
  \/ \E q \in Readers : ReadRows(q) \/ ReadOpinions(q)

ReadsSpec == ReadsInit /\ [][ReadsNext]_allVars

----------------------------------------------------------------------------
(* Properties *)

Slips(q, a) == {o \in slips[q] : o.approval = a}

\* The timeline shown with a row holds every opinion up to the version of the row,
\* whatever was stored between the two queries (stage_approval.go:31-60: the
\* opinions are read last, and are never removed).
TimelineIsComplete ==
  \A q \in Readers : stage[q] = "done" =>
    \A a \in page[q] : \A c \in commits :
      c.approval = a /\ c.op = "transition" /\ c.version <= shown[q][a].version =>
        \E o \in Slips(q, a) : o.version = c.version /\ o.status = c.to

\* The status shown is that of the last opinion no newer than the row shown: a
\* newer opinion on the page belongs to a transition stored after the row was read.
StatusIsExplained ==
  \A q \in Readers : stage[q] = "done" =>
    \A a \in page[q] :
      LET past == {o \in Slips(q, a) : o.version <= shown[q][a].version} IN
      \A o \in past : (\A p \in past : p.version <= o.version) => o.status = shown[q][a].status
=============================================================================
