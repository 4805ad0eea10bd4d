---------------------------- MODULE StageApproval ----------------------------
(***************************************************************************)
(* Stage approvals: the handlers of handler/stage_approval.go, the service *)
(* of service/stage_approval.go and the tables stage_approvals,            *)
(* approval_opinions and audit_logs.  Requests are served concurrently;    *)
(* each database call of a handler is one step, so the steps of different  *)
(* requests interleave.  A request is served at most once, which keeps the *)
(* state finite without a bound on versions.                               *)
(***************************************************************************)
EXTENDS Naturals, FiniteSets, Service

CONSTANTS
  Approvals,     \* the codes of the approvals; a code names one row for ever
  Requests,      \* the write requests the server may receive
  Callers,       \* the roles of the clients that send them
  AheadVersions  \* versions a client may name without having seen them stored
                 \* ({} when every client sends back the version it was shown)

ASSUME CallersAssumption == Callers \subseteq Roles
ASSUME AheadVersionsAssumption == AheadVersions \subseteq Nat \ {0}

VARIABLES
  rows,      \* stage_approvals: the stored row of each approval
  opinions,  \* approval_opinions
  audits,    \* audit_logs, the entries about approvals
  phase,     \* where each request stands
  input,     \* what each request in flight asks for
  current,   \* the row a request in flight has read: `current' in the service
  commits    \* history: every committed write (no table stores it)

tables  == <<rows, opinions, audits, commits>>
vars    == <<rows, opinions, audits, phase, input, current, commits>>

----------------------------------------------------------------------------
(* Data *)

ApprovalStates == DOMAIN StageApprovalTransitions
Decisions      == {"approved", "rejected"}

\* The business fields are abstracted to who wrote them last.
Contents == Requests \union {"seed"}

Row == [status : ApprovalStates, version : Nat, fields : Contents, deleted : BOOLEAN]

Input == [op : Ops, approval : Approvals, role : Callers, version : Nat,
          target : ApprovalStates]

NoInput == [op |-> "none"]

Opinion == [approval : Approvals, version : Nat, status : ApprovalStates,
            request : Requests, role : Callers]

AuditEntry == [request : Requests, action : Ops, approval : Approvals,
               before : ApprovalStates \union {""},
               after : ApprovalStates \union {"deleted"}]

Commit == [request : Requests, op : Ops, approval : Approvals, role : Callers,
           version : Nat, from : ApprovalStates \union {""},
           to : ApprovalStates \union {"deleted"}]

\* The versions a client can name: those the row has had, and AheadVersions.
KnownVersions(a) == {1} \union (1 .. rows[a].version) \union AheadVersions

----------------------------------------------------------------------------
(* Rules of the service *)

\* Deviation: the approval lock is missing from Update.
EditableInAnyStatus(status) == status \in ApprovalStates

\* Update is refused with ErrApprovalLocked in every other status.
Editable(status) == status = "draft"

\* Deviation: whoever may transition may decide.
MayDecideUnchecked(role, target) == role \in Roles /\ target \in ApprovalStates

\* Approving and rejecting need a reviewer: ErrReviewerRequired.
MayDecide(role, target) == target \in Decisions => role \in {"reviewer", "admin"}

----------------------------------------------------------------------------
(* Steps shared by the operations *)

\* An answer before anything was written.
Refuse(r, answer) ==
  /\ phase' = [phase EXCEPT ![r] = answer]
  /\ UNCHANGED <<tables, input, current>>

\* The answer that ends a request in flight.
Finish(r, answer) ==
  /\ phase'   = [phase EXCEPT ![r] = answer]
  /\ input'   = [input EXCEPT ![r] = NoInput]
  /\ current' = [current EXCEPT ![r] = NoRow]

Proceed(r, next) ==
  /\ phase' = [phase EXCEPT ![r] = next]
  /\ UNCHANGED <<input, current>>

\* The row was read and the request passed the checks made on it.
Load(r, in) ==
  /\ phase'   = [phase EXCEPT ![r] = "write"]
  /\ input'   = [input EXCEPT ![r] = in]
  /\ current' = [current EXCEPT ![r] = rows[in.approval]]
  /\ UNCHANGED tables

Record(r, in, from, to, version) ==
  commits' = commits \union
    {[request |-> r, op |-> in.op, approval |-> in.approval, role |-> in.role,
      version |-> version, from |-> from, to |-> to]}

Store(a, row) == rows' = [rows EXCEPT ![a] = row]

\* The write is durable; the server may still fail to hear of it.
Written(r) == Proceed(r, "audit") \/ Finish(r, "internal_error")

\* Once the audit call is over, Create and Delete answer at once; the others
\* read the row again.
AfterAudit(r) ==
  IF input[r].op \in {"create", "delete"} THEN Finish(r, "ok") ELSE Proceed(r, "reply")

----------------------------------------------------------------------------
(* Before the service: middleware, request binding, a failed first query *)

TurnAway(r) ==
  /\ phase[r] = "idle"
  /\ \E role \in Callers, op \in Ops :
       \/ ~Admits(role, op) /\ Refuse(r, "forbidden")
       \/ Admits(role, op) /\ Refuse(r, "invalid_request")
       \/ Admits(role, op) /\ Refuse(r, "internal_error")

----------------------------------------------------------------------------
(* Create *)

\* Committed; the audit call follows unless the server fails to hear of it.
Insert(r, in) ==
  /\ rows[in.approval].version = 0
  /\ Store(in.approval, LiveRow("draft", 1, r))
  /\ Record(r, in, "", "draft", 1)
  /\ \/ /\ phase' = [phase EXCEPT ![r] = "audit"]
        /\ input' = [input EXCEPT ![r] = in]
     \/ /\ phase' = [phase EXCEPT ![r] = "internal_error"]
        /\ UNCHANGED input
  /\ UNCHANGED <<opinions, audits, current>>

Create(r) ==
  /\ phase[r] = "idle"
  /\ \E a \in Approvals, role \in Callers :
       /\ Admits(role, "create")
       /\ \/ Refuse(r, "business_rule")                             \* a blank field
          \/ rows[a].version > 0 /\ Refuse(r, "internal_error")     \* the unique index
          \/ Insert(r, [op |-> "create", approval |-> a, role |-> role,
                        version |-> 1, target |-> "draft"])

----------------------------------------------------------------------------
(* Update *)

UpdateRead(r) ==
  /\ phase[r] = "idle"
  /\ \E a \in Approvals, role \in Callers : \E v \in KnownVersions(a) :
       /\ Admits(role, "update")
       /\ \/ ~Live(rows[a]) /\ Refuse(r, "not_found")
          \/ Live(rows[a]) /\ Refuse(r, "business_rule")  \* locked, or a blank field
          \/ /\ Live(rows[a])
             /\ Editable(rows[a].status)
             /\ Load(r, [op |-> "update", approval |-> a, role |-> role,
                         version |-> v, target |-> "draft"])

\* Store.Update: the whole row read earlier goes back, with the new fields.
UpdateWrite(r) ==
  /\ phase[r] = "write"
  /\ input[r].op = "update"
  /\ LET in == input[r]
         a  == in.approval
         row == LiveRow(current[r].status, in.version + 1, r)
     IN \/ /\ VersionMatches(rows[a], in.version)
           /\ Store(a, row)
           /\ Record(r, in, rows[a].status, row.status, row.version)
           /\ Written(r)
           /\ UNCHANGED <<opinions, audits>>
        \/ /\ ~VersionMatches(rows[a], in.version)
           /\ Finish(r, "version_conflict")
           /\ UNCHANGED tables

----------------------------------------------------------------------------
(* Transition *)

TransitionRead(r) ==
  /\ phase[r] = "idle"
  /\ \E a \in Approvals, role \in Callers, target \in ApprovalStates :
     \E v \in KnownVersions(a) :
       LET legal == /\ CanTransition(StageApprovalTransitions, rows[a].status, target)
                    /\ MayDecide(role, target)
       IN /\ Admits(role, "transition")
          /\ \/ ~Live(rows[a]) /\ Refuse(r, "not_found")
             \/ Live(rows[a]) /\ ~legal /\ Refuse(r, "business_rule")
             \/ /\ Live(rows[a])
                /\ legal
                /\ Load(r, [op |-> "transition", approval |-> a, role |-> role,
                            version |-> v, target |-> target])

\* TransitionWithOpinion: the guarded UPDATE and the INSERT of the opinion in
\* one transaction.  The unique index on (approval, version) would abort both; the
\* answer would be the one of DatabaseError.
TransitionWrite(r) ==
  /\ phase[r] = "write"
  /\ input[r].op = "transition"
  /\ LET in == input[r]
         a  == in.approval
         row == LiveRow(in.target, in.version + 1, current[r].fields)
         indexFree == \A o \in opinions : <<o.approval, o.version>> # <<a, row.version>>
     IN \/ /\ VersionMatches(rows[a], in.version)
           /\ indexFree
           /\ Store(a, row)
           /\ opinions' = opinions \union
                {[approval |-> a, version |-> row.version, status |-> row.status,
                  request |-> r, role |-> in.role]}
           /\ Record(r, in, rows[a].status, row.status, row.version)
           /\ Written(r)
           /\ UNCHANGED audits
        \/ /\ ~VersionMatches(rows[a], in.version)
           /\ Finish(r, "version_conflict")
           /\ UNCHANGED tables

----------------------------------------------------------------------------
(* Delete *)

DeleteRead(r) ==
  /\ phase[r] = "idle"
  /\ \E a \in Approvals, role \in Callers :
       /\ Admits(role, "delete")
       /\ \/ ~Live(rows[a]) /\ Refuse(r, "not_found")
          \/ /\ Live(rows[a])
             /\ Load(r, [op |-> "delete", approval |-> a, role |-> role,
                         version |-> rows[a].version, target |-> "draft"])

\* Store.Delete names no version: it removes whatever the row has become.
DeleteWrite(r) ==
  /\ phase[r] = "write"
  /\ input[r].op = "delete"
  /\ LET in == input[r]
         a  == in.approval
     IN \/ /\ DeleteMatches(rows[a])
           /\ Store(a, [rows[a] EXCEPT !.deleted = TRUE])
           /\ Record(r, in, rows[a].status, "deleted", rows[a].version)
           /\ Written(r)
           /\ UNCHANGED <<opinions, audits>>
        \/ /\ ~DeleteMatches(rows[a])
           /\ Finish(r, "not_found")
           /\ UNCHANGED tables

----------------------------------------------------------------------------
(* After the write *)

\* Deviation: `before' is taken after current.Status has been overwritten.
TargetAsBefore(r) == IF input[r].op = "create" THEN "" ELSE input[r].target

\* The state the audit entry says the approval came from: what was READ.
AuditBefore(r) == IF input[r].op = "create" THEN "" ELSE current[r].status

\* Deviation: the entry of a delete names no state.
EmptyAfterDelete(r) ==
  CASE input[r].op = "create"     -> "draft"
    [] input[r].op = "update"     -> current[r].status
    [] input[r].op = "transition" -> input[r].target
    [] input[r].op = "delete"     -> ""

AuditAfter(r) ==
  CASE input[r].op = "create"     -> "draft"
    [] input[r].op = "update"     -> current[r].status
    [] input[r].op = "transition" -> input[r].target
    [] input[r].op = "delete"     -> "deleted"

\* How a request goes on whose audit insert did not succeed, as far as the server knows.
AuditFailed(r) ==
  IF ReportsAuditFailure(input[r].op) THEN Finish(r, "internal_error") ELSE AfterAudit(r)

\* The insert is durable; its answer may be lost.
Audit(r) ==
  /\ phase[r] = "audit"
  /\ audits' = audits \union
       {[request |-> r, action |-> input[r].op, approval |-> input[r].approval,
         before |-> AuditBefore(r), after |-> AuditAfter(r)]}
  /\ AfterAudit(r) \/ AuditFailed(r)
  /\ UNCHANGED <<rows, opinions, commits>>

\* The closing Get of Update and Transition.
Respond(r) ==
  /\ phase[r] = "reply"
  /\ Finish(r, IF Live(rows[input[r].approval]) THEN "ok" ELSE "not_found")
  /\ UNCHANGED tables

----------------------------------------------------------------------------
(* Failures *)

\* A database call fails without effect (the client left, the context ended,
\* the connection broke).
DatabaseError(r) ==
  /\ phase[r] \in InFlight
  /\ IF phase[r] = "audit" THEN AuditFailed(r) ELSE Finish(r, "internal_error")
  /\ UNCHANGED tables

\* The process stops: the requests in flight are never answered, the tables stay.
Crash ==
  /\ \E r \in Requests : phase[r] \in InFlight
  /\ phase'   = [r \in Requests |-> IF phase[r] \in InFlight THEN "lost" ELSE phase[r]]
  /\ input'   = [r \in Requests |-> NoInput]
  /\ current' = [r \in Requests |-> NoRow]
  /\ UNCHANGED tables

----------------------------------------------------------------------------

\* Database.Seed registers approvals in draft, review and approved, version 1.
Seeds == { LiveRow(s, 1, "seed") : s \in {"draft", "review", "approved"} }

Init ==
  /\ rows \in [Approvals -> {NoRow} \union Seeds]
  /\ opinions = {}
  /\ audits = {}
  /\ commits = {}
  /\ phase   = [r \in Requests |-> "idle"]
  /\ input   = [r \in Requests |-> NoInput]
  /\ current = [r \in Requests |-> NoRow]

Serve(r) ==
  \/ TurnAway(r)
  \/ Create(r)
  \/ UpdateRead(r) \/ UpdateWrite(r)
  \/ TransitionRead(r) \/ TransitionWrite(r)
  \/ DeleteRead(r) \/ DeleteWrite(r)
  \/ Audit(r)
  \/ Respond(r)
  \/ DatabaseError(r)

Next == (\E r \in Requests : Serve(r)) \/ Crash

Spec == Init /\ [][Next]_vars

----------------------------------------------------------------------------
(* Properties *)

TypeOK ==
  /\ rows \in [Approvals -> Row]
  /\ opinions \subseteq Opinion
  /\ audits \subseteq AuditEntry
  /\ commits \subseteq Commit
  /\ phase \in [Requests -> {"idle"} \union InFlight \union Answers]
  /\ input \in [Requests -> Input \union {NoInput}]
  /\ current \in [Requests -> Row]

Reviewers == {"reviewer", "admin"}

Writers(a, v) ==
  {c \in commits : c.approval = a /\ c.op \in {"update", "transition"} /\ c.version = v}

\* Each version of an approval was made by exactly one update or transition,
\* and none is missing: two requests never both win against one version
\* (stage_approval.go:86-90, 110-118 with base.go:59-70).
SerialVersions ==
  \A a \in Approvals :
    /\ \A v \in 2 .. rows[a].version : Cardinality(Writers(a, v)) = 1
    /\ \A c \in commits : c.approval = a => c.version <= rows[a].version

\* The opinion with the highest version names the status the approval has: the
\* two tables never disagree, also across updates, deletes and failed
\* transactions (repository/stage_approval.go:67-80).
StatusMatchesLatestOpinion ==
  \A o \in opinions :
    (\A p \in opinions : p.approval = o.approval => p.version <= o.version)
      => o.status = rows[o.approval].status

\* An approval is approved or rejected by a reviewer or an administrator, and
\* only from the status review as it was when the decision was stored
\* (stage_approval.go:101-107).
DecisionsAreReviewed ==
  \A c \in commits :
    c.op = "transition" /\ c.to \in Decisions => c.role \in Reviewers /\ c.from = "review"

\* When an approval stands approved or rejected, and was not seeded so, its latest
\* version was made by a transition of a reviewer or an administrator: no update
\* puts a decision back (stage_approval.go:75-88 writes the status it read).
NobodyElseDecides ==
  \A a \in Approvals : \A c \in Writers(a, rows[a].version) :
    rows[a].status \in Decisions => c.op = "transition" /\ c.role \in Reviewers

\* An audit entry is about a write that happened, and says truly from where to
\* where the approval moved.  The entry of a delete is excepted: its `before' is
\* the status read, which a transition may have changed since (stage_approval.go:126-133).
AuditsAreTrue ==
  \A e \in audits : \E c \in commits :
    /\ c.request = e.request /\ c.op = e.action /\ c.approval = e.approval
    /\ c.to = e.after
    /\ e.action # "delete" => c.from = e.before

Committed(r) == \E c \in commits : c.request = r
Audited(r)   == \E e \in audits : e.request = r

\* What the client concludes from the answer is so: a refusal left nothing
\* behind; an accepted request was stored, and when it is a transition or a
\* delete it was audited; 404 after a successful write means that the approval
\* has been deleted (handler/errors.go:14-27 with the error paths of the service).
AnswersTellTheEffect ==
  \A r \in Requests :
    /\ phase[r] \in Refusals \ {"not_found"} => ~Committed(r)
    /\ phase[r] = "ok" =>
         \E c \in commits :
           c.request = r /\ (c.op \in {"transition", "delete"} => Audited(r))
    /\ phase[r] = "not_found" =>
         \A c \in commits : c.request = r => rows[c.approval].deleted

\* Once approved, an approval keeps its status, version and fields; it can only
\* be deleted, even by a request that read it before (status.go:52,
\* stage_approval.go:69, 101).
ApprovedIsFinal ==
  [][\A a \in Approvals :
       Live(rows[a]) /\ rows[a].status = "approved" =>
         rows'[a] \in {rows[a], [rows[a] EXCEPT !.deleted = TRUE]}]_vars

\* Every write is one step of the lifecycle: an update changes only fields and
\* only in draft, a transition changes only the status along the graph, each
\* takes the next version, and a deleted approval stays as it is.
L == INSTANCE Lifecycle WITH
       Records       <- Approvals,
       Contents      <- Contents,
       Graph         <- [a \in Approvals |-> StageApprovalTransitions],
       InitialStatus <- [a \in Approvals |-> "draft"],
       EditableIn    <- [a \in Approvals |-> {"draft"}],
       book          <- rows

RefinesLifecycle == L!LifecycleSpec

\* What service/errors.go:10 says: approval fields are immutable after review
\* starts.
FieldsFrozenAfterReviewStarts ==
  [][\A a \in Approvals :
       rows[a].status # "draft" => rows'[a].fields = rows[a].fields]_vars

\* What README.md:35 says: every status change is written to the audit log (here:
\* by the time its request is over).
StatusChangesAreAudited ==
  \A c \in commits :
    c.op = "transition" /\ phase[c.request] \in Answers => Audited(c.request)

(* The inductive invariant behind RefinesLifecycle, for clients that name only
   versions they were shown. *)

\* A request about to write names a version no later than the one it read; as long
\* as the row is still at that version, it is the row that was read; and the checks
\* made on the row read allow the write.
Fresh(r) ==
  phase[r] = "write" =>
    LET a == input[r].approval IN
    /\ input[r] \in Input
    /\ Live(current[r])
    /\ current[r].version <= rows[a].version
    /\ input[r].version <= current[r].version
    /\ current[r].version = rows[a].version =>
         current[r].status = rows[a].status /\ current[r].fields = rows[a].fields
    /\ input[r].op = "update" => Editable(current[r].status)
    /\ input[r].op = "transition" =>
         /\ CanTransition(StageApprovalTransitions, current[r].status, input[r].target)
         /\ MayDecide(input[r].role, input[r].target)

\* The read of each request in flight is not stale when its version still matches
\* (the gap between stage_approval.go:65 and :88, and between :96 and :116).
ReadsAreFresh == \A r \in Requests : Fresh(r)
=============================================================================
