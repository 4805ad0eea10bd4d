------------------------------ MODULE Registry ------------------------------
(***************************************************************************)
(* Artifacts, treatment plans and material tests.  Their handlers,         *)
(* services and repositories are the same program three times; they differ *)
(* in the status graph and the initial status.  There is no lock on the    *)
(* fields, no reviewer and no opinion: Update and Transition are both a    *)
(* Get, a check of the row read, one guarded UPDATE of the whole row, an   *)
(* audit entry and a closing Get.  One record stands for the table; its    *)
(* kind is chosen at the start.                                            *)
(***************************************************************************)
EXTENDS Naturals, FiniteSets, Service

CONSTANTS
  Requests,      \* the write requests the server may receive
  Callers,       \* the roles of the clients that send them
  AheadVersions  \* versions a client may name without having seen them stored

ASSUME RegistryCallers == Callers \subseteq Roles
ASSUME RegistryAheadVersions == AheadVersions \subseteq Nat \ {0}

VARIABLES
  kind,     \* which of the three tables
  row,      \* the stored row of the record
  audits,   \* audit_logs, the entries about the record
  phase,    \* where each request stands
  input,    \* what each request in flight asks for
  current,  \* the row a request in flight has read: `current' in the service
  commits   \* history: every committed write

tables == <<kind, row, audits, commits>>
vars   == <<kind, row, audits, phase, input, current, commits>>

----------------------------------------------------------------------------
(* The three tables *)

Rules(graph, initial, seeds) == [graph |-> graph, initial |-> initial, seeds |-> seeds]

Artifact ==
  Rules(ArtifactTransitions, "registered", {"registered", "stable", "treatment"})

TreatmentPlan ==
  Rules(TreatmentPlanTransitions, "draft", {"draft", "review", "approved"})

MaterialTest ==
  Rules(MaterialTestTransitions, "planned", {"planned", "running", "verified"})

RulesOf  == [artifact |-> Artifact, plan |-> TreatmentPlan, test |-> MaterialTest]
Kinds    == DOMAIN RulesOf
graph    == RulesOf[kind].graph
Statuses == UNION {DOMAIN RulesOf[k].graph : k \in Kinds}
Contents == Requests \union {"seed"}
NoInput  == [op |-> "none"]

\* The versions a client can name: those the row has had, and AheadVersions.
KnownVersions == {1} \union (1 .. row.version) \union AheadVersions

----------------------------------------------------------------------------
(* Steps shared by the operations *)

Refuse(r, answer) ==
  /\ phase' = [phase EXCEPT ![r] = answer]
  /\ UNCHANGED <<tables, input, current>>

Finish(r, answer) ==
  /\ phase'   = [phase EXCEPT ![r] = answer]
  /\ input'   = [input EXCEPT ![r] = NoInput]
  /\ current' = [current EXCEPT ![r] = NoRow]

Proceed(r, next) ==
  /\ phase' = [phase EXCEPT ![r] = next]
  /\ UNCHANGED <<input, current>>

Load(r, in) ==
  /\ phase'   = [phase EXCEPT ![r] = "write"]
  /\ input'   = [input EXCEPT ![r] = in]
  /\ current' = [current EXCEPT ![r] = row]
  /\ UNCHANGED tables

\* A durable write, whose outcome the server may fail to hear of.
Write(r, newRow, to) ==
  /\ row' = newRow
  /\ commits' = commits \union
       {[request |-> r, op |-> input[r].op, version |-> newRow.version,
         from |-> row.status, to |-> to]}
  /\ Proceed(r, "audit") \/ Finish(r, "internal_error")
  /\ UNCHANGED <<kind, audits>>

AfterAudit(r) ==
  IF input[r].op \in {"create", "delete"} THEN Finish(r, "ok") ELSE Proceed(r, "reply")

----------------------------------------------------------------------------
(* The handlers *)

TurnAway(r) ==
  /\ phase[r] = "idle"
  /\ \E role \in Callers, op \in Ops :
       \/ ~Admits(role, op) /\ Refuse(r, "forbidden")
       \/ Admits(role, op) /\ Refuse(r, "invalid_request")
       \/ Admits(role, op) /\ Refuse(r, "internal_error")

Create(r) ==
  /\ phase[r] = "idle"
  /\ \E role \in Callers : Admits(role, "create")
  /\ \/ Refuse(r, "business_rule")                          \* a blank field
     \/ row.version > 0 /\ Refuse(r, "internal_error")      \* the unique index
     \/ /\ row.version = 0
        /\ row' = LiveRow(RulesOf[kind].initial, 1, r)
        /\ commits' = commits \union
             {[request |-> r, op |-> "create", version |-> 1, from |-> "",
               to |-> RulesOf[kind].initial]}
        /\ \/ /\ phase' = [phase EXCEPT ![r] = "audit"]
              /\ input' = [input EXCEPT ![r] = [op |-> "create"]]
           \/ /\ phase' = [phase EXCEPT ![r] = "internal_error"]
              /\ UNCHANGED input
        /\ UNCHANGED <<kind, audits, current>>

UpdateRead(r) ==
  /\ phase[r] = "idle"
  /\ \E role \in Callers : Admits(role, "update")
  /\ \/ ~Live(row) /\ Refuse(r, "not_found")
     \/ Live(row) /\ Refuse(r, "business_rule")             \* a blank field
     \/ Live(row) /\ \E v \in KnownVersions : Load(r, [op |-> "update", version |-> v])

TransitionRead(r) ==
  /\ phase[r] = "idle"
  /\ \E role \in Callers : Admits(role, "transition")
  /\ \E target \in DOMAIN graph :
       \/ ~Live(row) /\ Refuse(r, "not_found")
       \/ Live(row) /\ ~CanTransition(graph, row.status, target) /\ Refuse(r, "business_rule")
       \/ /\ Live(row)
          /\ CanTransition(graph, row.status, target)
          /\ \E v \in KnownVersions :
               Load(r, [op |-> "transition", version |-> v, target |-> target])

\* Store.Update for both: the row that was read goes back, changed.
UpdateWrite(r) ==
  /\ phase[r] = "write"
  /\ input[r].op = "update"
  /\ VersionMatches(row, input[r].version)
  /\ Write(r, LiveRow(current[r].status, input[r].version + 1, r), current[r].status)

TransitionWrite(r) ==
  /\ phase[r] = "write"
  /\ input[r].op = "transition"
  /\ VersionMatches(row, input[r].version)
  /\ Write(r, LiveRow(input[r].target, input[r].version + 1, current[r].fields),
           input[r].target)

Conflict(r) ==
  /\ phase[r] = "write"
  /\ input[r].op \in {"update", "transition"}
  /\ ~VersionMatches(row, input[r].version)
  /\ Finish(r, "version_conflict")
  /\ UNCHANGED tables

DeleteRead(r) ==
  /\ phase[r] = "idle"
  /\ \E role \in Callers : Admits(role, "delete")
  /\ \/ ~Live(row) /\ Refuse(r, "not_found")
     \/ Live(row) /\ Load(r, [op |-> "delete"])

DeleteWrite(r) ==
  /\ phase[r] = "write"
  /\ input[r].op = "delete"
  /\ \/ DeleteMatches(row) /\ Write(r, [row EXCEPT !.deleted = TRUE], "deleted")
     \/ ~DeleteMatches(row) /\ Finish(r, "not_found") /\ UNCHANGED tables

\* Deviation: `before' is taken after current.Status has been overwritten.
TargetAsBefore(r) ==
  CASE input[r].op = "create"     -> ""
    [] input[r].op = "transition" -> input[r].target
    [] OTHER                      -> current[r].status

AuditBefore(r) == IF input[r].op = "create" THEN "" ELSE current[r].status

\* Deviation: the entry of a delete names no state.
EmptyAfterDelete(r) ==
  CASE input[r].op = "create"     -> RulesOf[kind].initial
    [] input[r].op = "update"     -> current[r].status
    [] input[r].op = "transition" -> input[r].target
    [] input[r].op = "delete"     -> ""

AuditAfter(r) ==
  CASE input[r].op = "create"     -> RulesOf[kind].initial
    [] input[r].op = "update"     -> current[r].status
    [] input[r].op = "transition" -> input[r].target
    [] input[r].op = "delete"     -> "deleted"

\* How a request goes on whose audit insert did not succeed, as far as the server knows.
AuditFailed(r) ==
  IF ReportsAuditFailure(input[r].op) THEN Finish(r, "internal_error") ELSE AfterAudit(r)

\* The insert is durable; its answer may be lost.
Audit(r) ==
  /\ phase[r] = "audit"
  /\ audits' = audits \union {[request |-> r, action |-> input[r].op,
                               before |-> AuditBefore(r), after |-> AuditAfter(r)]}
  /\ AfterAudit(r) \/ AuditFailed(r)
  /\ UNCHANGED <<kind, row, commits>>

Respond(r) ==
  /\ phase[r] = "reply"
  /\ Finish(r, IF Live(row) THEN "ok" ELSE "not_found")
  /\ UNCHANGED tables

DatabaseError(r) ==
  /\ phase[r] \in InFlight
  /\ IF phase[r] = "audit" THEN AuditFailed(r) ELSE Finish(r, "internal_error")
  /\ UNCHANGED tables

Crash ==
  /\ \E r \in Requests : phase[r] \in InFlight
  /\ phase'   = [r \in Requests |-> IF phase[r] \in InFlight THEN "lost" ELSE phase[r]]
  /\ input'   = [r \in Requests |-> NoInput]
  /\ current' = [r \in Requests |-> NoRow]
  /\ UNCHANGED tables

----------------------------------------------------------------------------

Init ==
  /\ kind \in Kinds
  /\ row \in {NoRow} \union {LiveRow(s, 1, "seed") : s \in RulesOf[kind].seeds}
  /\ audits = {}
  /\ commits = {}
  /\ phase   = [r \in Requests |-> "idle"]
  /\ input   = [r \in Requests |-> NoInput]
  /\ current = [r \in Requests |-> NoRow]

Serve(r) ==
  \/ TurnAway(r)
  \/ Create(r)
  \/ UpdateRead(r) \/ UpdateWrite(r)
  \/ TransitionRead(r) \/ TransitionWrite(r)
  \/ Conflict(r)
  \/ DeleteRead(r) \/ DeleteWrite(r)
  \/ Audit(r) \/ Respond(r)
  \/ DatabaseError(r)

Next == (\E r \in Requests : Serve(r)) \/ Crash

Spec == Init /\ [][Next]_vars

----------------------------------------------------------------------------
(* Properties *)

Row == [status : Statuses, version : Nat, fields : Contents, deleted : BOOLEAN]

TypeOK ==
  /\ kind \in Kinds
  /\ row \in Row
  /\ audits \subseteq [request : Requests, action : Ops, before : Statuses \union {""},
                       after : Statuses \union {"deleted"}]
  /\ commits \subseteq [request : Requests, op : Ops, version : Nat,
                        from : Statuses \union {""}, to : Statuses \union {"deleted"}]
  /\ phase \in [Requests -> {"idle"} \union InFlight \union Answers]
  /\ \A r \in Requests : input[r].op \in Ops \union {"none"}
  /\ current \in [Requests -> Row]

\* Each version after the first was made by exactly one update or transition: of
\* the requests that read the same version, one wins (artifact.go:83-87, 103-107
\* with base.go:59-70).
SerialVersions ==
  \A v \in 2 .. row.version :
    Cardinality({c \in commits : c.op \in {"update", "transition"} /\ c.version = v}) = 1

\* An audit entry is about a write that happened and names the statuses it moved
\* between.  The entry of a delete is excepted: its `before' is the status read,
\* which another request may have changed since (artifact.go:115-122).
AuditsAreTrue ==
  \A e \in audits : \E c \in commits :
    /\ c.request = e.request /\ c.op = e.action /\ c.to = e.after
    /\ e.action # "delete" => c.from = e.before

Committed(r) == \E c \in commits : c.request = r

\* A refusal left nothing behind; an accepted request was stored, and audited when
\* it is a transition or a delete; 404 after a successful write means that the
\* record was deleted meanwhile.
AnswersTellTheEffect ==
  \A r \in Requests :
    /\ phase[r] \in Refusals \ {"not_found"} => ~Committed(r)
    /\ phase[r] = "ok" =>
         \E c \in commits :
           /\ c.request = r
           /\ c.op \in {"transition", "delete"} => \E e \in audits : e.request = r
    /\ phase[r] = "not_found" /\ Committed(r) => row.deleted

\* Every write is one step of the lifecycle; the fields may change in any status,
\* and the UPDATE of the whole row never carries back an old status or old fields.
L == INSTANCE Lifecycle WITH
       Records       <- Kinds,
       Contents      <- Contents,
       Graph         <- [x \in Kinds |-> RulesOf[x].graph],
       InitialStatus <- [x \in Kinds |-> RulesOf[x].initial],
       EditableIn    <- [x \in Kinds |-> DOMAIN RulesOf[x].graph],
       book          <- [x \in Kinds |-> IF x = kind THEN row ELSE NoRow]

RefinesLifecycle == L!LifecycleSpec

\* What dto/artifact.go:5-6 says: callers cannot bypass the service state machine,
\* so a stored record changes its status only along the graph of its kind.
StatusFollowsTheGraph ==
  [][row.version > 0 /\ row'.status # row.status
       => CanTransition(graph, row.status, row'.status)]_vars
=============================================================================
