-------------------------------- MODULE Desk --------------------------------
(***************************************************************************)
(* The workbench of the browser client (src/frontend/src): the entity      *)
(* store (stores/factory.ts) and the page that works on it                 *)
(* (components/EntityPage.vue), beside a server on which others work too.  *)
(* One record stands for the table.  A request is one step at the server,  *)
(* which decides as the services do; its answer comes later, or never.     *)
(***************************************************************************)
EXTENDS Naturals, FiniteSets, Sequences, Service

CONSTANTS
  Loads,      \* the loads a user starts that may be in flight at once
  Calls,      \* the confirmed transitions that may be in flight at once
  MaxVersion  \* bound: others and the user leave the record alone from here on

ASSUME DeskAssumption == MaxVersion \in Nat \ {0} /\ Loads \intersect Calls = {}

VARIABLES
  kind, role,  \* which table is shown; the role of the user
  row,         \* the record, as the server has it
  list,        \* the record as the page lists it; version 0: not listed
  load,        \* load[x]: a GET in flight, of the user or at the end of a call
  call,        \* call[c]: a POST in flight
  loading,     \* the spinner over the table
  dialog,      \* the confirmation that is asked for
  accepted,    \* history: the moves the server made for this user
  left         \* history: the calls in flight whose dialog is gone

deskVars == <<kind, role, row, list, load, call, loading, dialog, accepted, left>>

Kind(graph, statuses) == [graph |-> graph, statuses |-> statuses]

\* The order in which the page advances a record (types/status.ts).
Kinds ==
  [ artifact |-> Kind(ArtifactTransitions, <<"registered", "stable", "treatment", "closed">>),
    plan     |-> Kind(TreatmentPlanTransitions, <<"draft", "review", "approved", "completed">>),
    test     |-> Kind(MaterialTestTransitions, <<"planned", "running", "verified", "invalid">>),
    approval |-> Kind(StageApprovalTransitions, <<"draft", "review", "approved", "rejected">>) ]

Graph    == Kinds[kind].graph
Statuses == Kinds[kind].statuses

NoDialog == [item |-> NoRow, status |-> ""]
NoLoad   == [phase |-> "idle", found |-> NoRow]
NoCall   == [phase |-> "idle", item |-> NoRow, status |-> "", version |-> 0]

----------------------------------------------------------------------------
(* What the page offers *)

\* nextStatus: the status that follows in the list; "" after the last.
NextStatus(status) ==
  LET i == CHOOSE n \in DOMAIN Statuses : Statuses[n] = status IN
  IF i < Len(Statuses) THEN Statuses[i + 1] ELSE ""

\* Deviation: approvals are treated like the other tables.
OfferedAlike(item) ==
  /\ item.version > 0
  /\ NextStatus(item.status) # ""
  /\ HasMinimumRole(role, "operator")

\* canTransition
Offered(item) ==
  /\ item.version > 0
  /\ NextStatus(item.status) # ""
  /\ HasMinimumRole(role, "operator")
  /\ kind = "approval" =>
       /\ item.status # "approved"
       /\ NextStatus(item.status) \in {"approved", "rejected"} => HasMinimumRole(role, "reviewer")

----------------------------------------------------------------------------
(* The server *)

\* The route guard, the graph, the reviewer rule, and the guarded UPDATE.
Accepts(item, status) ==
  /\ Admits(role, "transition")
  /\ Live(row)
  /\ CanTransition(Graph, row.status, status)
  /\ kind = "approval" /\ status \in {"approved", "rejected"} => role \in {"reviewer", "admin"}
  /\ VersionMatches(row, item.version)

OthersWrite ==
  /\ Live(row)
  /\ row.version < MaxVersion
  /\ \/ \E s \in Graph[row.status] \union {row.status} : row' = LiveRow(s, row.version + 1, "seed")
     \/ row' = [row EXCEPT !.deleted = TRUE]
  /\ UNCHANGED <<kind, role, list, load, call, loading, dialog, accepted, left>>

ServeMove(c) ==
  LET item == call[c].item
      to   == call[c].status IN
  /\ call[c].phase = "posted"
  /\ \/ /\ Accepts(item, to)
        /\ row' = LiveRow(to, row.version + 1, "seed")
        /\ accepted' = accepted \union
             {[shown |-> item, from |-> row.status, to |-> to, version |-> row.version + 1]}
        \* The answer may be an error all the same, or get lost.
        /\ \E answer \in {"accepted", "refused"} :
             call' = [call EXCEPT ![c].phase = answer, ![c].version = row.version + 1]
     \/ /\ call' = [call EXCEPT ![c].phase = "refused"]   \* refused, or not reached
        /\ UNCHANGED <<row, accepted>>
  /\ UNCHANGED <<kind, role, list, load, loading, dialog, left>>

\* A search may leave the record out.
ServeLoad(x) ==
  /\ load[x].phase = "asked"
  /\ \E found \in {NoRow} \union {r \in {row} : Live(r)} :
       load' = [load EXCEPT ![x] = [phase |-> "read", found |-> found]]
  /\ UNCHANGED <<kind, role, row, list, call, loading, dialog, accepted, left>>

----------------------------------------------------------------------------
(* load *)

\* Mounting the page, the search and the reset button.
AskLoad(x) ==
  /\ load[x].phase = "idle"
  /\ load' = [load EXCEPT ![x].phase = "asked"]
  /\ loading' = TRUE
  /\ UNCHANGED <<kind, role, row, list, call, dialog, accepted, left>>

\* The dialog is gone, and with it that of every call in flight but x.
CloseDialog(x) ==
  /\ dialog' = NoDialog
  /\ left' = {c \in Calls \ {x} : call[c].phase # "idle"}

\* The end of transition and of confirmTransition, when the load was theirs: the
\* dialog closes, whichever it is by now.
EndCall(x) ==
  IF x \in Calls
  THEN call' = [call EXCEPT ![x] = NoCall] /\ CloseDialog(x)
  ELSE UNCHANGED <<call, dialog, left>>

\* Whatever is in flight beside it, the answer fills the list and stops the spinner.
LoadArrives(x) ==
  /\ load[x].phase = "read"
  /\ list' = load[x].found
  /\ load' = [load EXCEPT ![x] = NoLoad]
  /\ loading' = FALSE
  /\ EndCall(x)
  /\ UNCHANGED <<kind, role, row, accepted>>

LoadFails(x) ==
  /\ load[x].phase # "idle"
  /\ load' = [load EXCEPT ![x] = NoLoad]
  /\ loading' = FALSE
  /\ EndCall(x)
  /\ UNCHANGED <<kind, role, row, list, accepted>>

----------------------------------------------------------------------------
(* transition *)

\* The spinner covers the table, and a dialog covers the page.
OpenDialog ==
  /\ ~loading
  /\ dialog = NoDialog
  /\ Offered(list)
  /\ dialog' = [item |-> list, status |-> NextStatus(list.status)]
  /\ UNCHANGED <<kind, role, row, list, load, call, loading, accepted, left>>

Cancel ==
  /\ dialog # NoDialog
  /\ dialog' = NoDialog
  /\ left' = {c \in Calls : call[c].phase # "idle"}
  /\ UNCHANGED <<kind, role, row, list, load, call, loading, accepted>>

Confirmed(c) ==
  /\ call[c].phase = "idle"
  /\ row.version < MaxVersion
  /\ dialog # NoDialog
  /\ Offered(dialog.item)

\* Deviation: the POST is not awaited.
ConfirmAndReload(c) ==
  /\ Confirmed(c)
  /\ call' = [call EXCEPT ![c] = [phase |-> "reloading", item |-> dialog.item,
                                  status |-> dialog.status, version |-> 0]]
  /\ load' = [load EXCEPT ![c].phase = "asked"]
  /\ loading' = TRUE
  /\ UNCHANGED <<kind, role, row, list, dialog, accepted, left>>

\* The dialog stays until the call has ended, so it may be confirmed again.
Confirm(c) ==
  /\ Confirmed(c)
  /\ call' = [call EXCEPT ![c] = [phase |-> "posted", item |-> dialog.item,
                                  status |-> dialog.status, version |-> 0]]
  /\ loading' = TRUE
  /\ UNCHANGED <<kind, role, row, list, load, dialog, accepted, left>>

\* The POST has succeeded: the list is loaded again.
Reload(c) ==
  /\ call[c].phase = "accepted"
  /\ call' = [call EXCEPT ![c].phase = "reloading"]
  /\ load' = [load EXCEPT ![c].phase = "asked"]
  /\ loading' = TRUE
  /\ UNCHANGED <<kind, role, row, list, dialog, accepted, left>>

\* The POST has failed: the dialog stays, with the item it was opened for.
GiveUp(c) ==
  /\ call[c].phase = "refused"
  /\ call' = [call EXCEPT ![c] = NoCall]
  /\ loading' = FALSE
  /\ left' = left \ {c}
  /\ UNCHANGED <<kind, role, row, list, load, dialog, accepted>>

DeskInit ==
  /\ kind \in DOMAIN Kinds
  /\ role \in Roles
  /\ \E s \in DOMAIN Graph : row = LiveRow(s, 1, "seed")
  /\ list = NoRow
  /\ load = [x \in Loads \union Calls |-> NoLoad]
  /\ call = [c \in Calls |-> NoCall]
  /\ loading = FALSE
  /\ dialog = NoDialog
  /\ accepted = {}
  /\ left = {}

Answer(x) == ServeLoad(x) \/ LoadArrives(x) \/ LoadFails(x)
Settle(c) == ServeMove(c) \/ Reload(c) \/ GiveUp(c)

DeskNext ==
  \/ OthersWrite
  \/ \E x \in Loads : AskLoad(x)
  \/ \E x \in Loads \union Calls : Answer(x)
  \/ OpenDialog \/ Cancel
  \/ \E c \in Calls : Confirm(c) \/ Settle(c)

DeskSpec == DeskInit /\ [][DeskNext]_deskVars

----------------------------------------------------------------------------
(* Properties *)

\* The server makes exactly the move that the user was shown and confirmed, and makes it
\* once: however stale the list, in whatever order loads arrive, after a double click
\* or a retry (factory.ts:11 sends the version listed, base.go:61 compares it).
AcceptedAsConfirmed ==
  \A m \in accepted :
    /\ m.from = m.shown.status
    /\ \A n \in accepted : n.shown = m.shown => n = m

\* The button is offered only for moves the server accepts, as long as the list is up
\* to date: page order, role and the approval exceptions agree with the graphs, the
\* route guard and the reviewer rule, for every table and role (README.md:34).
FreshOffersAreAccepted ==
  Live(row) /\ list = row /\ Offered(list) => Accepts(list, NextStatus(list.status))

\* The move a call confirmed, once the server has made it.
Made(c) ==
  \E m \in accepted :
    m.shown = call[c].item /\ m.to = call[c].status /\ m.version = call[c].version

\* A dialog that the user does not close is closed by the end of a call alone, whose move
\* the server has made; the list then shows the record after it, unless it could not
\* be loaded or the search leaves it out.  The move is the one the dialog asks for,
\* unless the user has left the dialog of that call and opened this one meanwhile: then
\* the end of the call closes a dialog that is not its own, confirmed or not
\* (factory.ts:11, EntityPage.vue:45-49).
ClosesWhenDone ==
  dialog # NoDialog /\ dialog' = NoDialog /\ call' # call =>
    \E c \in Calls :
      /\ call[c].phase = "reloading" /\ call'[c].phase = "idle"
      /\ Made(c)
      /\ c \notin left => dialog.item = call[c].item /\ dialog.status = call[c].status
      /\ load[c].phase = "read" /\ list' = load[c].found /\ list'.version > 0 =>
           list'.version >= call[c].version

ClosedDialogIsDone == [][ClosesWhenDone]_deskVars
=============================================================================
