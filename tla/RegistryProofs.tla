--------------------------- MODULE RegistryProofs ---------------------------
(***************************************************************************)
(* Theorems about Registry, that is, about artifacts, treatment plans and  *)
(* material tests alike, for any requests and callers.                     *)
(***************************************************************************)
EXTENDS Registry, FiniteSetTheorems, TLAPS

----------------------------------------------------------------------------
(* The three tables *)

LEMMA TablesLemma ==
  /\ Kinds = {"artifact", "plan", "test"}
  /\ \A k \in Kinds :
       /\ DOMAIN RulesOf[k].graph \subseteq Statuses
       /\ RulesOf[k].initial \in DOMAIN RulesOf[k].graph
       /\ RulesOf[k].seeds \subseteq DOMAIN RulesOf[k].graph
<1>1. Kinds = {"artifact", "plan", "test"}
  BY DEF Kinds, RulesOf
<1>2. \A k \in Kinds : DOMAIN RulesOf[k].graph \subseteq Statuses
  BY DEF Statuses
<1>3. RulesOf["artifact"] = Artifact /\ RulesOf["plan"] = TreatmentPlan
      /\ RulesOf["test"] = MaterialTest
  BY DEF RulesOf
<1>4. /\ Artifact.graph = ArtifactTransitions /\ Artifact.initial = "registered"
      /\ Artifact.seeds = {"registered", "stable", "treatment"}
  BY DEF Artifact, Rules
<1>5. /\ TreatmentPlan.graph = TreatmentPlanTransitions /\ TreatmentPlan.initial = "draft"
      /\ TreatmentPlan.seeds = {"draft", "review", "approved"}
  BY DEF TreatmentPlan, Rules
<1>6. /\ MaterialTest.graph = MaterialTestTransitions /\ MaterialTest.initial = "planned"
      /\ MaterialTest.seeds = {"planned", "running", "verified"}
  BY DEF MaterialTest, Rules
<1>7. /\ DOMAIN ArtifactTransitions = {"registered", "stable", "treatment", "closed"}
      /\ DOMAIN TreatmentPlanTransitions = {"draft", "review", "approved", "completed"}
      /\ DOMAIN MaterialTestTransitions = {"planned", "running", "verified", "invalid"}
  BY DEF ArtifactTransitions, TreatmentPlanTransitions, MaterialTestTransitions
<1>. QED
  BY <1>1, <1>2, <1>3, <1>4, <1>5, <1>6, <1>7

LEMMA OpsAndAnswers ==
  /\ Ops = {"create", "update", "transition", "delete"}
  /\ InFlight = {"write", "audit", "reply"}
  /\ {"forbidden", "invalid_request", "not_found", "version_conflict",
      "business_rule", "ok", "internal_error", "lost"} \subseteq Answers
  /\ Answers \intersect InFlight = {}
  /\ "idle" \notin InFlight /\ "idle" \notin Answers
BY DEF Ops, InFlight, Answers, Refusals

----------------------------------------------------------------------------
(* Types *)

\* What a request asks for, which TypeOK says less precisely.
Input == [op : {"create", "delete"}]
         \union [op : {"update"}, version : Nat]
         \union [op : {"transition"}, version : Nat, target : Statuses]

AuditEntry == [request : Requests, action : Ops, before : Statuses \union {""},
               after : Statuses \union {"deleted"}]

Commit == [request : Requests, op : Ops, version : Nat,
           from : Statuses \union {""}, to : Statuses \union {"deleted"}]

TablesOK ==
  /\ kind \in Kinds
  /\ row \in Row
  /\ audits \subseteq AuditEntry
  /\ commits \subseteq Commit

RequestsOK ==
  /\ phase \in [Requests -> {"idle"} \union InFlight \union Answers]
  /\ input \in [Requests -> Input \union {NoInput}]
  /\ current \in [Requests -> Row]
  /\ \A r \in Requests : phase[r] \in InFlight => input[r] \in Input

TypeInv == TablesOK /\ RequestsOK

LEMMA LiveRowIsRow ==
  ASSUME NEW status \in Statuses, NEW version \in Nat, NEW fields \in Contents
  PROVE  /\ LiveRow(status, version, fields) \in Row
         /\ LiveRow(status, version, fields).status = status
         /\ LiveRow(status, version, fields).version = version
         /\ LiveRow(status, version, fields).fields = fields
         /\ LiveRow(status, version, fields).deleted = FALSE
BY DEF LiveRow, Row

LEMMA DraftIsAStatus == "draft" \in Statuses
<1>1. "plan" \in Kinds /\ RulesOf["plan"] = TreatmentPlan
  BY DEF Kinds, RulesOf
<1>2. "draft" \in DOMAIN RulesOf["plan"].graph
  BY <1>1 DEF TreatmentPlan, Rules, TreatmentPlanTransitions
<1>. QED
  BY <1>1, <1>2, TablesLemma

LEMMA NoRowIsRow == NoRow \in Row
BY DraftIsAStatus, LiveRowIsRow DEF NoRow, Contents

LEMMA TypeInit == Init => TypeInv
<1> SUFFICES ASSUME Init PROVE TypeInv
  OBVIOUS
<1>1. ASSUME NEW s \in RulesOf[kind].seeds PROVE LiveRow(s, 1, "seed") \in Row
  <2>1. s \in Statuses /\ "seed" \in Contents
    BY <1>1, TablesLemma DEF Init, Contents
  <2>. QED
    BY <2>1, LiveRowIsRow
<1>2. TablesOK
  BY <1>1, NoRowIsRow DEF Init, TablesOK
<1>3. RequestsOK
  BY NoRowIsRow, OpsAndAnswers DEF Init, RequestsOK
<1>. QED
  BY <1>2, <1>3 DEF TypeInv

LEMMA RefuseKeepsTypes ==
  ASSUME TypeInv, NEW r \in Requests, NEW answer \in Answers, Refuse(r, answer)
  PROVE  TypeInv'
<1>1. TablesOK'
  BY DEF Refuse, tables, TypeInv, TablesOK
<1>2. RequestsOK'
  BY OpsAndAnswers DEF Refuse, TypeInv, RequestsOK
<1>. QED
  BY <1>1, <1>2 DEF TypeInv

LEMMA FinishKeepsTypes ==
  ASSUME RequestsOK, NEW r \in Requests, NEW answer \in Answers, Finish(r, answer)
  PROVE  RequestsOK'
BY OpsAndAnswers, NoRowIsRow DEF Finish, RequestsOK

LEMMA ProceedKeepsTypes ==
  ASSUME RequestsOK, NEW r \in Requests, NEW next \in {"audit", "reply"}, Proceed(r, next),
         phase[r] \in InFlight
  PROVE  RequestsOK'
BY OpsAndAnswers DEF Proceed, RequestsOK

LEMMA LoadKeepsTypes ==
  ASSUME TypeInv, NEW r \in Requests, NEW in \in Input, Load(r, in)
  PROVE  TypeInv'
<1>1. TablesOK'
  BY DEF Load, tables, TypeInv, TablesOK
<1>2. RequestsOK'
  BY OpsAndAnswers DEF Load, TypeInv, TablesOK, RequestsOK
<1>. QED
  BY <1>1, <1>2 DEF TypeInv

LEMMA KnownVersionsAreNat ==
  ASSUME TypeInv, NEW v \in KnownVersions
  PROVE  v \in Nat
<1>1. row.version \in Nat
  BY DEF TypeInv, TablesOK, Row
<1>2. AheadVersions \subseteq Nat
  BY RegistryAheadVersions
<1>3. 1 .. row.version \subseteq Nat /\ {1} \subseteq Nat
  BY <1>1
<1>. QED
  BY <1>2, <1>3 DEF KnownVersions

\* Who is about to write has asked for a change, and names a version unless it deletes.
LEMMA WriterTypes ==
  ASSUME TypeInv, NEW r \in Requests, phase[r] = "write"
  PROVE  /\ input[r] \in Input /\ input[r].op \in Ops /\ current[r] \in Row
         /\ row \in Row /\ row.version \in Nat
         /\ input[r].op \in {"update", "transition"} => input[r].version \in Nat
         /\ input[r].op = "transition" => input[r].target \in Statuses
BY OpsAndAnswers DEF TypeInv, TablesOK, RequestsOK, Input, Row

----------------------------------------------------------------------------
(* The steps *)

\* One committed write of r.
Stores(r, op, newRow, from, to) ==
  /\ row' = newRow
  /\ commits' = commits \union
       {[request |-> r, op |-> op, version |-> newRow.version, from |-> from, to |-> to]}

StoresCreate(r) ==
  /\ phase[r] = "idle" /\ row.version = 0
  /\ Stores(r, "create", LiveRow(RulesOf[kind].initial, 1, r), "", RulesOf[kind].initial)

StoresUpdate(r) ==
  /\ phase[r] = "write" /\ input[r].op = "update" /\ VersionMatches(row, input[r].version)
  /\ Stores(r, "update", LiveRow(current[r].status, input[r].version + 1, r),
            row.status, current[r].status)

StoresTransition(r) ==
  /\ phase[r] = "write" /\ input[r].op = "transition" /\ VersionMatches(row, input[r].version)
  /\ Stores(r, "transition", LiveRow(input[r].target, input[r].version + 1, current[r].fields),
            row.status, input[r].target)

StoresDelete(r) ==
  /\ phase[r] = "write" /\ input[r].op = "delete" /\ Live(row)
  /\ Stores(r, "delete", [row EXCEPT !.deleted = TRUE], row.status, "deleted")

StoresNothing == row' = row /\ commits' = commits

\* A request that is refused, fails or is answered without a write.
Ends(r) ==
  UNCHANGED tables /\ \E answer \in Answers \ {"ok"} : Refuse(r, answer) \/ Finish(r, answer)

\* It loads the row, and the checks made on it pass.
Loads(r) ==
  /\ phase[r] = "idle"
  /\ Live(row)
  /\ \E in \in Input :
       /\ Load(r, in)
       /\ in.op \in {"update", "transition"} => in.version \in KnownVersions
       /\ in.op = "transition" => CanTransition(graph, row.status, in.target)

\* It writes.
Registers(r) ==
  /\ StoresCreate(r)
  /\ \/ phase' = [phase EXCEPT ![r] = "audit"] /\ input' = [input EXCEPT ![r] = [op |-> "create"]]
     \/ phase' = [phase EXCEPT ![r] = "internal_error"] /\ input' = input
  /\ UNCHANGED <<audits, current>>

Writes(r) ==
  /\ StoresUpdate(r) \/ StoresTransition(r) \/ StoresDelete(r)
  /\ Proceed(r, "audit") \/ Finish(r, "internal_error")
  /\ UNCHANGED audits

\* All that follows the write.
Follows(r) == Audit(r) \/ Respond(r) \/ DatabaseError(r)

LEMMA ReadsLoad ==
  ASSUME TypeInv, NEW r \in Requests, UpdateRead(r) \/ TransitionRead(r) \/ DeleteRead(r)
  PROVE  phase[r] = "idle" /\ (Ends(r) \/ Loads(r))
<1>1. phase[r] = "idle"
  BY DEF UpdateRead, TransitionRead, DeleteRead
<1>2. ASSUME NEW answer \in {"not_found", "business_rule"}, Refuse(r, answer)
      PROVE  Ends(r)
  BY <1>2, OpsAndAnswers DEF Ends, Refuse
<1>3. CASE UpdateRead(r)
  <2>1. ASSUME Live(row), NEW v \in KnownVersions, Load(r, [op |-> "update", version |-> v])
        PROVE  Loads(r)
    <3> DEFINE in == [op |-> "update", version |-> v]
    <3>1. in \in Input /\ in.op = "update" /\ in.version = v
      BY KnownVersionsAreNat DEF Input
    <3> HIDE DEF in
    <3>. QED
      BY <1>1, <2>1, <3>1 DEF Loads, in
  <2>. QED
    BY <1>1, <1>2, <1>3, <2>1 DEF UpdateRead
<1>4. CASE TransitionRead(r)
  <2>1. ASSUME Live(row), NEW v \in KnownVersions, NEW target \in DOMAIN graph,
               CanTransition(graph, row.status, target),
               Load(r, [op |-> "transition", version |-> v, target |-> target])
        PROVE  Loads(r)
    <3> DEFINE in == [op |-> "transition", version |-> v, target |-> target]
    <3>1. target \in Statuses
      BY TablesLemma DEF TypeInv, TablesOK, graph
    <3>2. in \in Input /\ in.op = "transition" /\ in.version = v /\ in.target = target
      BY <3>1, KnownVersionsAreNat DEF Input
    <3> HIDE DEF in
    <3>. QED
      BY <1>1, <2>1, <3>2 DEF Loads, in
  <2>. QED
    BY <1>1, <1>2, <1>4, <2>1 DEF TransitionRead
<1>5. CASE DeleteRead(r)
  <2>1. ASSUME Live(row), Load(r, [op |-> "delete"])
        PROVE  Loads(r)
    <3> DEFINE in == [op |-> "delete"]
    <3>1. in \in Input /\ in.op = "delete"
      BY DEF Input
    <3> HIDE DEF in
    <3>. QED
      BY <1>1, <2>1, <3>1 DEF Loads, in
  <2>. QED
    BY <1>1, <1>2, <1>5, <2>1 DEF DeleteRead
<1>. QED
  BY <1>1, <1>3, <1>4, <1>5

LEMMA ServeSteps ==
  ASSUME TypeInv, NEW r \in Requests, Serve(r)
  PROVE  /\ kind' = kind
         /\ \/ phase[r] \in {"idle", "write"} /\ Ends(r)
            \/ Loads(r) \/ Registers(r) \/ Writes(r) \/ Follows(r)
<1>1. CASE TurnAway(r)
  BY <1>1, OpsAndAnswers DEF TurnAway, Ends, Refuse, tables
<1>2. CASE Create(r)
  <2>1. \/ Refuse(r, "business_rule")
        \/ Refuse(r, "internal_error")
        \/ kind' = kind /\ Registers(r)
    BY <1>2 DEF Create, Registers, StoresCreate, Stores, LiveRow
  <2>. QED
    BY <1>2, <2>1, OpsAndAnswers DEF Create, Ends, Refuse, tables
<1>3. CASE UpdateRead(r) \/ TransitionRead(r) \/ DeleteRead(r)
  <2>1. kind' = kind
    BY <1>3 DEF UpdateRead, TransitionRead, DeleteRead, Refuse, Load, tables
  <2>. QED
    BY <1>3, <2>1, ReadsLoad
<1>4. CASE UpdateWrite(r)
  BY <1>4 DEF UpdateWrite, Write, Writes, StoresUpdate, Stores
<1>5. CASE TransitionWrite(r)
  BY <1>5 DEF TransitionWrite, Write, Writes, StoresTransition, Stores
<1>6. CASE Conflict(r)
  BY <1>6, OpsAndAnswers DEF Conflict, Ends, tables
<1>7. CASE DeleteWrite(r)
  <2>1. CASE DeleteMatches(row)
    BY <1>7, <2>1 DEF DeleteWrite, DeleteMatches, Write, Writes, StoresDelete, Stores
  <2>2. CASE ~DeleteMatches(row)
    BY <1>7, <2>2, OpsAndAnswers DEF DeleteWrite, Ends, tables
  <2>. QED
    BY <2>1, <2>2
<1>8. CASE Audit(r) \/ Respond(r) \/ DatabaseError(r)
  BY <1>8 DEF Audit, Respond, DatabaseError, tables, Follows
<1>. QED
  BY <1>1, <1>2, <1>3, <1>4, <1>5, <1>6, <1>7, <1>8 DEF Serve

\* The row that a write leaves, and the version it takes.
LEMMA StoredRowIsRow ==
  ASSUME TypeInv, NEW r \in Requests,
         StoresCreate(r) \/ StoresUpdate(r) \/ StoresTransition(r) \/ StoresDelete(r)
  PROVE  /\ row' \in Row
         /\ commits' \subseteq Commit
<1>1. \/ /\ row' \in Row
         /\ \E op \in Ops, from \in Statuses \union {""}, to \in Statuses \union {"deleted"} :
              Stores(r, op, row', from, to)
  <2>1. CASE StoresCreate(r)
    <3>1. RulesOf[kind].initial \in Statuses /\ r \in Contents
      BY TablesLemma DEF TypeInv, TablesOK, Contents
    <3>. QED
      BY <2>1, <3>1, LiveRowIsRow, OpsAndAnswers DEF StoresCreate, Stores
  <2>2. CASE StoresUpdate(r)
    <3>1. /\ current[r].status \in Statuses /\ r \in Contents /\ row.status \in Statuses
          /\ input[r].version + 1 \in Nat
      BY <2>2, WriterTypes DEF StoresUpdate, Row, Contents
    <3>. QED
      BY <2>2, <3>1, LiveRowIsRow, OpsAndAnswers DEF StoresUpdate, Stores
  <2>3. CASE StoresTransition(r)
    <3>1. /\ input[r].target \in Statuses /\ current[r].fields \in Contents
          /\ row.status \in Statuses /\ input[r].version + 1 \in Nat
      BY <2>3, WriterTypes DEF StoresTransition, Row
    <3>2. row' \in Row
      BY <2>3, <3>1, LiveRowIsRow DEF StoresTransition, Stores
    <3>3. Stores(r, "transition", row', row.status, input[r].target)
      BY <2>3 DEF StoresTransition, Stores
    <3>. QED
      BY <3>1, <3>2, <3>3, OpsAndAnswers
  <2>4. CASE StoresDelete(r)
    <3>1. row \in Row /\ row.status \in Statuses
      BY <2>4, WriterTypes DEF StoresDelete, Row
    <3>2. [row EXCEPT !.deleted = TRUE] \in Row
      BY <3>1 DEF Row
    <3>. QED
      BY <2>4, <3>1, <3>2, OpsAndAnswers DEF StoresDelete, Stores
  <2>. QED
    BY <2>1, <2>2, <2>3, <2>4
<1>2. PICK op \in Ops, from \in Statuses \union {""}, to \in Statuses \union {"deleted"} :
        Stores(r, op, row', from, to)
  BY <1>1
<1>3. [request |-> r, op |-> op, version |-> row'.version, from |-> from, to |-> to] \in Commit
  BY <1>1 DEF Commit, Row
<1>4. commits \subseteq Commit
  BY DEF TypeInv, TablesOK
<1>. QED
  BY <1>1, <1>2, <1>3, <1>4 DEF Stores

LEMMA FollowsKeepsTypes ==
  ASSUME TypeInv, NEW r \in Requests, Follows(r)
  PROVE  TypeInv'
<1>1. phase[r] \in InFlight /\ input[r] \in Input
  BY OpsAndAnswers DEF Follows, Audit, Respond, DatabaseError, TypeInv, RequestsOK
<1>2. ASSUME Finish(r, "ok") \/ Finish(r, "not_found") \/ Finish(r, "internal_error")
             \/ Proceed(r, "reply")
      PROVE  RequestsOK'
  BY <1>1, <1>2, OpsAndAnswers, FinishKeepsTypes, ProceedKeepsTypes DEF TypeInv
<1>3. RequestsOK'
  BY <1>2 DEF Follows, Audit, Respond, DatabaseError, AuditFailed, AfterAudit
<1>4. kind' = kind /\ row' = row /\ commits' = commits
  BY DEF Follows, Audit, Respond, DatabaseError, tables
<1>5. audits' \subseteq AuditEntry
  <2>1. CASE Audit(r)
    <3>1. input[r].op \in Ops
      BY <1>1, OpsAndAnswers DEF Input
    <3>2. AuditBefore(r) \in Statuses \union {""}
      BY DEF AuditBefore, TypeInv, RequestsOK, Row
    <3>3. AuditAfter(r) \in Statuses \union {"deleted"}
      <4>1. RulesOf[kind].initial \in Statuses /\ current[r].status \in Statuses
        BY TablesLemma DEF TypeInv, TablesOK, RequestsOK, Row
      <4>2. input[r].op = "transition" => input[r].target \in Statuses
        BY <1>1 DEF Input
      <4>. QED
        BY <3>1, <4>1, <4>2, OpsAndAnswers DEF AuditAfter
    <3>4. [request |-> r, action |-> input[r].op, before |-> AuditBefore(r),
           after |-> AuditAfter(r)] \in AuditEntry
      BY <3>1, <3>2, <3>3 DEF AuditEntry
    <3>. QED
      BY <2>1, <3>4 DEF Audit, TypeInv, TablesOK
  <2>2. CASE Respond(r) \/ DatabaseError(r)
    BY <2>2 DEF Respond, DatabaseError, tables, TypeInv, TablesOK
  <2>. QED
    BY <2>1, <2>2 DEF Follows
<1>. QED
  BY <1>3, <1>4, <1>5 DEF TypeInv, TablesOK

LEMMA EndsKeepsTypes ==
  ASSUME TypeInv, NEW r \in Requests, Ends(r)
  PROVE  TypeInv'
<1>1. PICK answer \in Answers : Refuse(r, answer) \/ Finish(r, answer)
  BY DEF Ends
<1>2. CASE Refuse(r, answer)
  BY <1>2, RefuseKeepsTypes
<1>3. CASE Finish(r, answer)
  <2>1. RequestsOK'
    BY <1>3, FinishKeepsTypes DEF TypeInv
  <2>. QED
    BY <2>1 DEF Ends, tables, TypeInv, TablesOK
<1>. QED
  BY <1>1, <1>2, <1>3

LEMMA ServeKeepsTypes ==
  ASSUME TypeInv, NEW r \in Requests, Serve(r)
  PROVE  TypeInv'
<1>1. kind' = kind
  BY ServeSteps
<1>2. CASE Ends(r)
  BY <1>2, EndsKeepsTypes
<1>3. CASE Loads(r)
  BY <1>3, LoadKeepsTypes DEF Loads
<1>4. CASE Registers(r)
  <2>1. row' \in Row /\ commits' \subseteq Commit /\ audits' = audits
    BY <1>4, StoredRowIsRow DEF Registers
  <2>2. [op |-> "create"] \in Input
    BY DEF Input
  <2>3. RequestsOK'
    BY <1>4, <2>2, OpsAndAnswers DEF Registers, TypeInv, RequestsOK
  <2>. QED
    BY <1>1, <2>1, <2>3 DEF TypeInv, TablesOK
<1>5. CASE Writes(r)
  <2>1. row' \in Row /\ commits' \subseteq Commit /\ audits' = audits
    BY <1>5, StoredRowIsRow DEF Writes
  <2>2. phase[r] \in InFlight
    BY <1>5, OpsAndAnswers DEF Writes, StoresUpdate, StoresTransition, StoresDelete
  <2>3. RequestsOK'
    BY <1>5, <2>2, OpsAndAnswers, FinishKeepsTypes, ProceedKeepsTypes DEF Writes, TypeInv
  <2>. QED
    BY <1>1, <2>1, <2>3 DEF TypeInv, TablesOK
<1>6. CASE Follows(r)
  BY <1>6, FollowsKeepsTypes
<1>. QED
  BY <1>2, <1>3, <1>4, <1>5, <1>6, ServeSteps

LEMMA CrashKeepsTypes == TypeInv /\ Crash => TypeInv'
<1> SUFFICES ASSUME TypeInv, Crash PROVE TypeInv'
  OBVIOUS
<1>1. TablesOK'
  BY DEF Crash, tables, TypeInv, TablesOK
<1>2. RequestsOK'
  BY NoRowIsRow, OpsAndAnswers DEF Crash, TypeInv, RequestsOK
<1>. QED
  BY <1>1, <1>2 DEF TypeInv

LEMMA TypeStep == TypeInv /\ [Next]_vars => TypeInv'
<1> SUFFICES ASSUME TypeInv, [Next]_vars PROVE TypeInv'
  OBVIOUS
<1>1. CASE UNCHANGED vars
  BY <1>1 DEF vars, TypeInv, TablesOK, RequestsOK
<1>. QED
  BY <1>1, ServeKeepsTypes, CrashKeepsTypes DEF Next

\* Every variable of the three services keeps to its type.
THEOREM TypeCorrect == Spec => []TypeOK
<1>1. Spec => []TypeInv
  BY TypeInit, TypeStep, PTL DEF Spec
<1>2. TypeInv => TypeOK
  <2>1. ASSUME TypeInv, NEW r \in Requests PROVE input[r].op \in Ops \union {"none"}
    <3>1. input[r] \in Input \/ input[r] = NoInput
      BY <2>1 DEF TypeInv, RequestsOK
    <3>. QED
      BY <3>1, OpsAndAnswers DEF Input, NoInput
  <2>. QED
    BY <2>1 DEF TypeInv, TablesOK, RequestsOK, TypeOK, AuditEntry, Commit
<1>. QED
  BY <1>1, <1>2, PTL

----------------------------------------------------------------------------
(* How the row and the commits change *)

LEMMA ServeStores ==
  ASSUME TypeInv, NEW r \in Requests, Serve(r)
  PROVE  \/ StoresNothing
         \/ StoresCreate(r) \/ StoresUpdate(r) \/ StoresTransition(r) \/ StoresDelete(r)
BY ServeSteps DEF Ends, Loads, Load, Registers, Writes, Follows, Audit, Respond, DatabaseError,
                  tables, StoresNothing

LEMMA NextStores ==
  ASSUME TypeInv, [Next]_vars
  PROVE  /\ kind' = kind
         /\ \/ StoresNothing
            \/ \E r \in Requests : StoresCreate(r) \/ StoresUpdate(r) \/ StoresTransition(r)
                                  \/ StoresDelete(r)
BY ServeStores, ServeSteps DEF Next, vars, Crash, tables, StoresNothing

\* What a write does to the version: the next one, by an update or a transition, or
\* none after the first.
Raises(op, newRow) == op \in {"update", "transition"} /\ newRow.version = row.version + 1

KeepsVersion(op, newRow) ==
  /\ op \in {"create", "delete"}
  /\ \/ row.version = 0 /\ newRow.version = 1
     \/ row.version > 0 /\ newRow.version = row.version

LEMMA WritesRaiseOrKeep ==
  ASSUME TypeInv, NEW r \in Requests
  PROVE  /\ StoresCreate(r) => KeepsVersion("create", row')
         /\ StoresUpdate(r) => Raises("update", row')
         /\ StoresTransition(r) => Raises("transition", row')
         /\ StoresDelete(r) => KeepsVersion("delete", row')
<1>1. ASSUME StoresCreate(r) PROVE KeepsVersion("create", row')
  <2>1. row'.version = 1
    BY <1>1 DEF StoresCreate, Stores, LiveRow
  <2>. QED
    BY <1>1, <2>1 DEF StoresCreate, KeepsVersion
<1>2. ASSUME StoresUpdate(r) PROVE Raises("update", row')
  BY <1>2 DEF StoresUpdate, Stores, Raises, LiveRow, VersionMatches
<1>3. ASSUME StoresTransition(r) PROVE Raises("transition", row')
  BY <1>3 DEF StoresTransition, Stores, Raises, LiveRow, VersionMatches
<1>4. ASSUME StoresDelete(r) PROVE KeepsVersion("delete", row')
  <2>1. row'.version = row.version
    BY <1>4 DEF StoresDelete, Stores, TypeInv, TablesOK, Row
  <2>. QED
    BY <1>4, <2>1 DEF StoresDelete, KeepsVersion, Live
<1>. QED
  BY <1>1, <1>2, <1>3, <1>4

----------------------------------------------------------------------------
(* One writer per version *)

Writers(v) == {c \in commits : c.op \in {"update", "transition"} /\ c.version = v}

CommitsAreOfThePast == \A c \in commits : c.version \in 1 .. row.version

EachVersionHasAWriter == \A v \in 2 .. row.version : \E c \in commits : Writers(v) = {c}

VersionsInv == CommitsAreOfThePast /\ EachVersionHasAWriter

LEMMA RaisingKeepsVersions ==
  ASSUME TypeInv, VersionsInv, NEW r \in Requests, NEW op, NEW from, NEW to,
         Stores(r, op, row', from, to), Raises(op, row')
  PROVE  VersionsInv'
<1> DEFINE n == [request |-> r, op |-> op, version |-> row'.version, from |-> from, to |-> to]
<1>1. row.version \in Nat /\ row'.version = row.version + 1
      /\ \A c \in commits : c.version \in Nat
  BY DEF TypeInv, TablesOK, Row, Commit, Raises
<1>2. commits' = commits \union {n} /\ n.version = row'.version
      /\ n.op \in {"update", "transition"}
  BY DEF Stores, Raises
<1> HIDE DEF n
<1>3. CommitsAreOfThePast'
  BY <1>1, <1>2 DEF VersionsInv, CommitsAreOfThePast
<1>4. ASSUME NEW v \in 2 .. row'.version
      PROVE  \E c \in commits' : Writers(v)' = {c}
  <2>1. CASE v = row'.version
    <3>1. Writers(v)' = {n}
      BY <1>1, <1>2, <2>1 DEF Writers, VersionsInv, CommitsAreOfThePast
    <3>. QED
      BY <1>2, <3>1
  <2>2. CASE v # row'.version
    <3>1. v \in 2 .. row.version
      BY <1>1, <2>2
    <3>2. Writers(v)' = Writers(v)
      BY <1>2, <2>2 DEF Writers
    <3>. QED
      BY <1>2, <3>1, <3>2 DEF VersionsInv, EachVersionHasAWriter
  <2>. QED
    BY <2>1, <2>2
<1>. QED
  BY <1>3, <1>4 DEF VersionsInv, EachVersionHasAWriter

LEMMA KeepingKeepsVersions ==
  ASSUME TypeInv, VersionsInv, NEW r \in Requests, NEW op, NEW from, NEW to,
         Stores(r, op, row', from, to), KeepsVersion(op, row')
  PROVE  VersionsInv'
<1> DEFINE n == [request |-> r, op |-> op, version |-> row'.version, from |-> from, to |-> to]
<1>1. /\ row.version \in Nat
      /\ \/ row.version = 0 /\ row'.version = 1
         \/ row.version > 0 /\ row'.version = row.version
  BY DEF TypeInv, TablesOK, Row, KeepsVersion
<1>2. commits' = commits \union {n} /\ n.version = row'.version /\ n.op \in {"create", "delete"}
  BY DEF Stores, KeepsVersion
<1> HIDE DEF n
<1>3. CommitsAreOfThePast'
  BY <1>1, <1>2 DEF VersionsInv, CommitsAreOfThePast
<1>4. ASSUME NEW v \in 2 .. row'.version
      PROVE  \E c \in commits' : Writers(v)' = {c}
  <2>1. v \in 2 .. row.version
    BY <1>1
  <2>2. Writers(v)' = Writers(v)
    BY <1>2 DEF Writers
  <2>. QED
    BY <1>2, <2>1, <2>2 DEF VersionsInv, EachVersionHasAWriter
<1>. QED
  BY <1>3, <1>4 DEF VersionsInv, EachVersionHasAWriter

LEMMA VersionsInit == Init => VersionsInv
<1> SUFFICES ASSUME Init PROVE VersionsInv
  OBVIOUS
<1>1. row.version \in {0, 1} /\ commits = {}
  BY DEF Init, NoRow, LiveRow
<1>. QED
  BY <1>1 DEF VersionsInv, CommitsAreOfThePast, EachVersionHasAWriter

LEMMA VersionsStep ==
  ASSUME TypeInv, VersionsInv, [Next]_vars
  PROVE  VersionsInv'
<1>1. CASE StoresNothing
  BY <1>1 DEF StoresNothing, VersionsInv, CommitsAreOfThePast, EachVersionHasAWriter, Writers
<1>2. ASSUME NEW r \in Requests, StoresCreate(r) \/ StoresDelete(r)
      PROVE  VersionsInv'
  <2>1. \E op, from, to : Stores(r, op, row', from, to) /\ KeepsVersion(op, row')
    BY <1>2, WritesRaiseOrKeep DEF StoresCreate, StoresDelete, Stores
  <2>. QED
    BY <2>1, KeepingKeepsVersions
<1>3. ASSUME NEW r \in Requests, StoresUpdate(r) \/ StoresTransition(r)
      PROVE  VersionsInv'
  <2>1. \E op, from, to : Stores(r, op, row', from, to) /\ Raises(op, row')
    BY <1>3, WritesRaiseOrKeep DEF StoresUpdate, StoresTransition, Stores
  <2>. QED
    BY <2>1, RaisingKeepsVersions
<1>. QED
  BY <1>1, <1>2, <1>3, NextStores

LEMMA OneWriterEach == VersionsInv => SerialVersions
<1> SUFFICES ASSUME VersionsInv, NEW v \in 2 .. row.version
             PROVE  Cardinality(Writers(v)) = 1
  BY DEF SerialVersions, Writers
<1>1. PICK c \in commits : Writers(v) = {c}
  BY DEF VersionsInv, EachVersionHasAWriter
<1>2. Cardinality({c}) = 1
  BY FS_Singleton
<1>. QED
  BY <1>1, <1>2

\* Whatever versions clients name: of all requests that try to make a version exactly one
\* update or transition does, and no version is left out.
THEOREM VersionsAreSerial == Spec => []SerialVersions
<1>1. TypeInv /\ VersionsInv /\ [Next]_vars => (TypeInv /\ VersionsInv)'
  BY TypeStep, VersionsStep
<1>. QED
  BY <1>1, TypeInit, VersionsInit, OneWriterEach, PTL DEF Spec
----------------------------------------------------------------------------
(* What a request has read is not stale when its version still matches *)

Fresh(r) ==
  phase[r] = "write" =>
    /\ Live(current[r])
    /\ current[r].version <= row.version
    /\ current[r].version = row.version =>
         current[r].status = row.status /\ current[r].fields = row.fields
    /\ input[r].op \in {"update", "transition"} => input[r].version <= current[r].version
    /\ input[r].op = "transition" => CanTransition(graph, current[r].status, input[r].target)

ReadsAreFresh == \A r \in Requests : Fresh(r)

\* Serving r leaves the other requests where they are.
OthersKept(r) ==
  \A q \in Requests \ {r} :
    phase'[q] = phase[q] /\ input'[q] = input[q] /\ current'[q] = current[q]

Advances ==
  /\ row.version <= row'.version
  /\ row.version = row'.version => row'.status = row.status /\ row'.fields = row.fields

LEMMA RowAdvances ==
  ASSUME TypeInv, [Next]_vars
  PROVE  Advances
<1>1. row \in Row /\ row.version \in Nat
  BY DEF TypeInv, TablesOK, Row
<1>2. CASE StoresNothing
  BY <1>1, <1>2 DEF StoresNothing, Advances
<1>3. ASSUME NEW r \in Requests, StoresCreate(r)
      PROVE  Advances
  <2>1. row.version = 0 /\ row'.version = 1
    BY <1>3 DEF StoresCreate, Stores, LiveRow
  <2>. QED
    BY <2>1 DEF Advances
<1>4. ASSUME NEW r \in Requests, StoresUpdate(r) \/ StoresTransition(r)
      PROVE  Advances
  <2>1. row'.version = row.version + 1
    BY <1>4, WritesRaiseOrKeep DEF Raises
  <2>. QED
    BY <1>1, <2>1 DEF Advances
<1>5. ASSUME NEW r \in Requests, StoresDelete(r)
      PROVE  Advances
  BY <1>1, <1>5 DEF StoresDelete, Stores, Row, Advances
<1>. QED
  BY <1>2, <1>3, <1>4, <1>5, NextStores

LEMMA ServeKeepsOthers ==
  ASSUME TypeInv, NEW r \in Requests, Serve(r)
  PROVE  OthersKept(r)
<1>1. CASE Ends(r)
  BY <1>1 DEF Ends, Refuse, Finish, TypeInv, RequestsOK, OthersKept
<1>2. CASE Loads(r)
  BY <1>2 DEF Loads, Load, TypeInv, RequestsOK, OthersKept
<1>3. CASE Registers(r)
  BY <1>3 DEF Registers, TypeInv, RequestsOK, OthersKept
<1>4. CASE Writes(r)
  BY <1>4 DEF Writes, Proceed, Finish, TypeInv, RequestsOK, OthersKept
<1>5. CASE Follows(r)
  BY <1>5 DEF Follows, Audit, Respond, DatabaseError, AuditFailed, AfterAudit, Proceed, Finish, TypeInv,
              RequestsOK, OthersKept
<1>. QED
  BY <1>1, <1>2, <1>3, <1>4, <1>5, ServeSteps

LEMMA KeptStaysFresh ==
  ASSUME TypeInv, TypeInv', [Next]_vars, NEW r \in Requests, Fresh(r),
         phase'[r] = phase[r], input'[r] = input[r], current'[r] = current[r]
  PROVE  Fresh(r)'
<1> SUFFICES ASSUME phase[r] = "write" PROVE Fresh(r)'
  BY DEF Fresh
<1>1. /\ row.version \in Nat /\ row'.version \in Nat /\ current[r].version \in Nat
      /\ input[r].op \in {"update", "transition"} => input[r].version \in Nat
  BY WriterTypes DEF TypeInv, TablesOK, Row
<1>2. Advances
  BY RowAdvances
<1>3. graph' = graph
  BY NextStores DEF graph
<1>4. /\ Live(current[r])'
      /\ (input[r].op = "transition" =>
            CanTransition(graph, current[r].status, input[r].target))'
      /\ (input[r].op \in {"update", "transition"} => input[r].version <= current[r].version)'
  BY <1>3 DEF Fresh, Live
<1>5. current[r].version <= row'.version
  BY <1>1, <1>2 DEF Fresh, Advances
<1>6. current[r].version = row'.version =>
        current[r].status = row'.status /\ current[r].fields = row'.fields
  BY <1>1, <1>2 DEF Fresh, Advances
<1>. QED
  BY <1>4, <1>5, <1>6 DEF Fresh

LEMMA LoadedIsFresh ==
  ASSUME AheadVersions = {}, TypeInv, NEW r \in Requests, Loads(r), kind' = kind
  PROVE  Fresh(r)'
<1>1. PICK in \in Input :
        /\ Load(r, in)
        /\ in.op \in {"update", "transition"} => in.version \in KnownVersions
        /\ in.op = "transition" => CanTransition(graph, row.status, in.target)
  BY DEF Loads
<1>2. /\ phase'[r] = "write" /\ input'[r] = in /\ current'[r] = row
      /\ row' = row /\ graph' = graph
  BY <1>1 DEF Load, TypeInv, RequestsOK, tables, graph
<1>3. row.version \in Nat /\ row.version >= 1 /\ Live(row)
  BY DEF Loads, Live, TypeInv, TablesOK, Row
<1>4. in.op \in {"update", "transition"} => in.version <= row.version
  BY <1>1, <1>3 DEF KnownVersions
<1>. QED
  BY <1>1, <1>2, <1>3, <1>4 DEF Fresh

LEMMA OnlyLoadsReachWrite ==
  ASSUME TypeInv, NEW r \in Requests, Serve(r)
  PROVE  Loads(r) \/ phase'[r] # "write"
<1>1. CASE Ends(r)
  BY <1>1, OpsAndAnswers DEF Ends, Refuse, Finish, TypeInv, RequestsOK
<1>2. CASE Registers(r)
  BY <1>2 DEF Registers, TypeInv, RequestsOK
<1>3. CASE Writes(r)
  BY <1>3 DEF Writes, Proceed, Finish, TypeInv, RequestsOK
<1>4. CASE Follows(r)
  BY <1>4 DEF Follows, Audit, Respond, DatabaseError, AuditFailed, AfterAudit, Proceed, Finish, TypeInv,
              RequestsOK
<1>. QED
  BY <1>1, <1>2, <1>3, <1>4, ServeSteps

LEMMA FreshStep ==
  ASSUME AheadVersions = {}, TypeInv, ReadsAreFresh, [Next]_vars
  PROVE  ReadsAreFresh'
<1> SUFFICES ASSUME NEW q \in Requests PROVE Fresh(q)'
  BY DEF ReadsAreFresh
<1>1. TypeInv' /\ Fresh(q) /\ kind' = kind
  BY TypeStep, NextStores DEF ReadsAreFresh
<1>2. CASE UNCHANGED vars
  BY <1>1, <1>2, KeptStaysFresh DEF vars
<1>3. CASE Crash
  BY <1>3, OpsAndAnswers DEF Crash, Fresh
<1>4. ASSUME NEW r \in Requests, Serve(r), q # r
      PROVE  Fresh(q)'
  BY <1>1, <1>4, ServeKeepsOthers, KeptStaysFresh DEF OthersKept
<1>5. CASE Serve(q)
  BY <1>1, <1>5, OnlyLoadsReachWrite, LoadedIsFresh DEF Fresh
<1>. QED
  BY <1>2, <1>3, <1>4, <1>5 DEF Next

LEMMA FreshInit == Init => ReadsAreFresh
BY DEF Init, ReadsAreFresh, Fresh

----------------------------------------------------------------------------
(* Each write is a step of the lifecycle *)

\* A request whose version matches replaces the row it read.
LEMMA MatchMeansCurrent ==
  ASSUME TypeInv, ReadsAreFresh, NEW r \in Requests, phase[r] = "write",
         input[r].op \in {"update", "transition"}, VersionMatches(row, input[r].version)
  PROVE  /\ Live(row) /\ row.deleted = FALSE /\ row.version = input[r].version
         /\ row.status = current[r].status /\ row.fields = current[r].fields
         /\ input[r].op = "transition" => CanTransition(graph, row.status, input[r].target)
<1>1. /\ row \in Row /\ row.version \in Nat /\ current[r].version \in Nat
      /\ input[r].version \in Nat
  BY WriterTypes DEF Row
<1>2. Live(row) /\ row.version = input[r].version /\ row.deleted = FALSE
  BY <1>1 DEF VersionMatches, Live, Row
<1>3. Fresh(r)
  BY DEF ReadsAreFresh
<1>4. current[r].version = row.version
  BY <1>1, <1>2, <1>3 DEF Fresh
<1>. QED
  BY <1>2, <1>3, <1>4 DEF Fresh

Book == [x \in Kinds |-> IF x = kind THEN row ELSE NoRow]

\* Storing a row in the table is storing it under its kind.
LEMMA BookFollowsRow ==
  ASSUME kind \in Kinds, kind' = kind
  PROVE  Book' = [Book EXCEPT ![kind] = row'] /\ Book[kind] = row
BY DEF Book

LEMMA CanMoveIn ==
  ASSUME kind \in Kinds, NEW from, NEW to, CanTransition(graph, from, to)
  PROVE  to \in DOMAIN graph
<1>1. Kinds = {"artifact", "plan", "test"}
  BY TablesLemma
<1>2. \/ graph = ArtifactTransitions \/ graph = TreatmentPlanTransitions
      \/ graph = MaterialTestTransitions
  BY <1>1 DEF graph, RulesOf, Artifact, TreatmentPlan, MaterialTest, Rules
<1>3. CASE graph = ArtifactTransitions
  BY <1>3 DEF CanTransition, ArtifactTransitions
<1>4. CASE graph = TreatmentPlanTransitions
  BY <1>4 DEF CanTransition, TreatmentPlanTransitions
<1>5. CASE graph = MaterialTestTransitions
  BY <1>5 DEF CanTransition, MaterialTestTransitions
<1>. QED
  BY <1>2, <1>3, <1>4, <1>5

StatusOfKind == row.version > 0 => row.status \in DOMAIN graph

LEMMA StatusInit == Init => StatusOfKind
<1> SUFFICES ASSUME Init PROVE StatusOfKind
  OBVIOUS
<1>1. row = NoRow \/ \E s \in RulesOf[kind].seeds : row = LiveRow(s, 1, "seed")
  BY DEF Init
<1>. QED
  BY <1>1, TablesLemma DEF Init, StatusOfKind, NoRow, LiveRow, graph

LEMMA StatusStep ==
  ASSUME TypeInv, ReadsAreFresh, StatusOfKind, [Next]_vars
  PROVE  StatusOfKind'
<1>1. kind \in Kinds /\ graph' = graph /\ graph = RulesOf[kind].graph /\ row \in Row
  BY NextStores DEF graph, TypeInv, TablesOK
<1>2. CASE StoresNothing
  BY <1>1, <1>2 DEF StoresNothing, StatusOfKind
<1>3. ASSUME NEW r \in Requests, StoresCreate(r)
      PROVE  StatusOfKind'
  BY <1>1, <1>3, TablesLemma DEF StoresCreate, Stores, LiveRow, StatusOfKind
<1>4. ASSUME NEW r \in Requests, StoresUpdate(r)
      PROVE  StatusOfKind'
  <2>1. row'.status = row.status /\ row.version > 0
    BY <1>4, MatchMeansCurrent DEF StoresUpdate, Stores, LiveRow, Live
  <2>. QED
    BY <1>1, <2>1 DEF StatusOfKind
<1>5. ASSUME NEW r \in Requests, StoresTransition(r)
      PROVE  StatusOfKind'
  <2>1. row'.status = input[r].target /\ CanTransition(graph, row.status, input[r].target)
    BY <1>5, MatchMeansCurrent DEF StoresTransition, Stores, LiveRow
  <2>. QED
    BY <1>1, <2>1, CanMoveIn DEF StatusOfKind
<1>6. ASSUME NEW r \in Requests, StoresDelete(r)
      PROVE  StatusOfKind'
  BY <1>1, <1>6 DEF StoresDelete, Stores, Live, Row, StatusOfKind
<1>. QED
  BY <1>2, <1>3, <1>4, <1>5, <1>6, NextStores

LEMMA WriteIsLifecycleStep ==
  ASSUME TypeInv, ReadsAreFresh, StatusOfKind, kind' = kind, NEW r \in Requests,
         StoresCreate(r) \/ StoresUpdate(r) \/ StoresTransition(r) \/ StoresDelete(r)
  PROVE  L!LifecycleNext
<1>1. kind \in Kinds /\ row \in Row
  BY DEF TypeInv, TablesOK
<1>2. Book' = [Book EXCEPT ![kind] = row'] /\ Book[kind] = row
  BY <1>1, BookFollowsRow
<1> PICK k \in Kinds : k = kind
  BY <1>1
<1>3. ASSUME NEW status, NEW fields, row' = LiveRow(status, row.version + 1, fields)
      PROVE  L!Write(k, status, fields)
  BY <1>2, <1>3 DEF L!Write, Book, LiveRow
<1>4. CASE StoresCreate(r)
  <2>1. row.version = 0 /\ row' = LiveRow(RulesOf[kind].initial, row.version + 1, r)
    <3>1. row.version = 0 /\ row' = LiveRow(RulesOf[kind].initial, 1, r)
      BY <1>4 DEF StoresCreate, Stores
    <3>2. row.version + 1 = 1
      BY <3>1
    <3>. QED
      BY <3>1, <3>2
  <2>2. [x \in Kinds |-> RulesOf[x].initial][kind] = RulesOf[kind].initial /\ r \in Contents
    BY <1>1 DEF Contents
  <2>3. L!Register(k)
    BY <1>2, <1>3, <2>1, <2>2 DEF L!Register, Book
  <2>. QED
    BY <1>1, <2>3 DEF L!LifecycleNext
<1>5. CASE StoresUpdate(r)
  <2>1. /\ Live(row) /\ row.version = input[r].version /\ row.status = current[r].status
        /\ row' = LiveRow(row.status, row.version + 1, r)
    BY <1>5, MatchMeansCurrent DEF StoresUpdate, Stores
  <2>2. row.status \in [x \in Kinds |-> DOMAIN RulesOf[x].graph][kind] /\ r \in Contents
    BY <1>1, <2>1 DEF StatusOfKind, Live, graph, Contents
  <2>3. L!Edit(k)
    BY <1>2, <1>3, <2>1, <2>2 DEF L!Edit, L!Live, L!Stored, Live, Book
  <2>. QED
    BY <1>1, <2>3 DEF L!LifecycleNext
<1>6. CASE StoresTransition(r)
  <2>1. /\ Live(row) /\ row.version = input[r].version
        /\ CanTransition(graph, row.status, input[r].target)
        /\ row' = LiveRow(input[r].target, row.version + 1, row.fields)
    BY <1>6, MatchMeansCurrent DEF StoresTransition, Stores
  <2>2. input[r].target \in DOMAIN graph
    BY <1>1, <2>1, CanMoveIn
  <2>3. [x \in Kinds |-> RulesOf[x].graph][kind] = graph
    BY <1>1 DEF graph
  <2>4. L!Live(row) /\ L!CanTransition(graph, row.status, input[r].target)
    BY <2>1 DEF L!Live, L!Stored, Live, CanTransition, L!CanTransition
  <2>5. PICK s \in DOMAIN graph, fields \in {row.fields} : s = input[r].target
    BY <2>2
  <2>6. L!Write(k, s, fields)
    BY <1>3, <2>1, <2>5
  <2>7. /\ s \in DOMAIN [x \in Kinds |-> RulesOf[x].graph][k]
        /\ L!CanTransition([x \in Kinds |-> RulesOf[x].graph][k], row.status, s)
    BY <2>3, <2>4, <2>5 DEF L!CanTransition
  <2>8. [x \in Kinds |-> IF x = kind THEN row ELSE NoRow][k] = row
    OBVIOUS
  <2>9. L!Move(k)
    BY <2>4, <2>5, <2>6, <2>7, <2>8 DEF L!Move, L!Write
  <2>. QED
    BY <1>1, <2>9 DEF L!LifecycleNext
<1>7. CASE StoresDelete(r)
  <2>1. Live(row) /\ row' = [row EXCEPT !.deleted = TRUE]
    BY <1>7 DEF StoresDelete, Stores
  <2>2. L!Remove(k)
    BY <1>2, <2>1 DEF L!Remove, L!Live, L!Stored, Live, Book
  <2>. QED
    BY <2>2 DEF L!LifecycleNext
<1>. QED
  BY <1>4, <1>5, <1>6, <1>7

LEMMA StepIsLifecycleStep ==
  ASSUME TypeInv, ReadsAreFresh, StatusOfKind, [Next]_vars
  PROVE  [L!LifecycleNext]_Book
<1>1. ASSUME StoresNothing PROVE Book' = Book
  BY <1>1, NextStores DEF StoresNothing, Book
<1>. QED
  BY <1>1, NextStores, WriteIsLifecycleStep

LEMMA InitIsLifecycleInit == Init => L!LifecycleInit
<1> SUFFICES ASSUME Init, NEW k \in Kinds
             PROVE  \/ ~L!Stored(Book[k])
                    \/ /\ L!Live(Book[k])
                       /\ Book[k].version = 1
                       /\ Book[k].status \in DOMAIN [x \in Kinds |-> RulesOf[x].graph][k]
  BY DEF L!LifecycleInit, Book
<1>1. row = NoRow \/ \E s \in RulesOf[kind].seeds : row = LiveRow(s, 1, "seed")
  BY DEF Init
<1>2. k = kind => row = NoRow \/ row.status \in DOMAIN RulesOf[k].graph
  BY <1>1, TablesLemma DEF LiveRow
<1>. QED
  BY <1>1, <1>2 DEF Book, NoRow, LiveRow, L!Stored, L!Live

\* When every client sends back a version it was shown, artifacts, treatment plans and
\* material tests follow the lifecycle: no write is lost, no status is skipped, and the
\* UPDATE of the whole row never carries back an old status or old fields.
THEOREM RecordsFollowTheLifecycle ==
  ASSUME AheadVersions = {}
  PROVE  Spec => RefinesLifecycle
<1> DEFINE Inv == TypeInv /\ ReadsAreFresh /\ StatusOfKind
<1>1. Spec => []Inv
  <2>1. Inv /\ [Next]_vars => Inv'
    BY TypeStep, FreshStep, StatusStep
  <2>2. Init => Inv
    BY TypeInit, FreshInit, StatusInit
  <2>. QED
    BY <2>1, <2>2, PTL DEF Spec
<1>2. Inv /\ [Next]_vars => [L!LifecycleNext]_Book
  BY StepIsLifecycleStep
<1>3. Spec => L!LifecycleInit /\ [][L!LifecycleNext]_Book
  BY <1>1, <1>2, InitIsLifecycleInit, PTL DEF Spec
<1>. QED
  BY <1>3, PTL DEF RefinesLifecycle, L!LifecycleSpec, Book

----------------------------------------------------------------------------
(* Audit entries *)

Explains(c, r) ==
  /\ c.request = r /\ c.op = input[r].op /\ c.to = AuditAfter(r)
  /\ input[r].op # "delete" => c.from = AuditBefore(r)

\* A request about to write its audit entry has made the write it will report.
AuditDue(r) == phase[r] = "audit" => \E c \in commits : Explains(c, r)

AuditsAreDue == \A r \in Requests : AuditDue(r)

LEMMA CommitsGrow ==
  ASSUME TypeInv, [Next]_vars
  PROVE  commits \subseteq commits'
BY NextStores DEF StoresNothing, StoresCreate, StoresUpdate, StoresTransition, StoresDelete, Stores

LEMMA DueWhenKept ==
  ASSUME NEW r \in Requests, AuditDue(r), commits \subseteq commits', kind' = kind,
         phase'[r] = phase[r], input'[r] = input[r], current'[r] = current[r]
  PROVE  AuditDue(r)'
BY DEF AuditDue, Explains, AuditAfter, AuditBefore

\* The commit that a write leaves is the one its audit entry will report.
LEMMA StoredExplains ==
  ASSUME NEW r \in Requests, NEW op, NEW newRow, NEW from, NEW to,
         Stores(r, op, newRow, from, to),
         input'[r].op = op, to = AuditAfter(r)', op # "delete" => from = AuditBefore(r)'
  PROVE  AuditDue(r)'
<1> DEFINE c == [request |-> r, op |-> op, version |-> newRow.version, from |-> from, to |-> to]
<1>1. c \in commits'
  BY DEF Stores
<1>2. c.request = r /\ c.op = op /\ c.to = to /\ c.from = from
  OBVIOUS
<1> HIDE DEF c
<1>3. Explains(c, r)'
  BY <1>2 DEF Explains
<1>. QED
  BY <1>1, <1>3 DEF AuditDue

LEMMA WritesAreDue ==
  ASSUME TypeInv, ReadsAreFresh, NEW r \in Requests, Writes(r), kind' = kind
  PROVE  AuditDue(r)'
<1> SUFFICES ASSUME phase'[r] = "audit" PROVE AuditDue(r)'
  BY DEF AuditDue
<1>1. input'[r] = input[r] /\ current'[r] = current[r]
  BY DEF Writes, Proceed, Finish, TypeInv, RequestsOK
<1>2. AuditAfter(r)' = AuditAfter(r) /\ AuditBefore(r)' = AuditBefore(r)
  BY <1>1 DEF AuditAfter, AuditBefore
<1>3. CASE StoresUpdate(r)
  <2>1. row.status = current[r].status
    BY <1>3, MatchMeansCurrent DEF StoresUpdate
  <2>2. AuditAfter(r) = current[r].status /\ AuditBefore(r) = current[r].status
    BY <1>3 DEF StoresUpdate, AuditAfter, AuditBefore
  <2>. QED
    BY <1>1, <1>2, <1>3, <2>1, <2>2, StoredExplains DEF StoresUpdate
<1>4. CASE StoresTransition(r)
  <2>1. row.status = current[r].status
    BY <1>4, MatchMeansCurrent DEF StoresTransition
  <2>2. AuditAfter(r) = input[r].target /\ AuditBefore(r) = current[r].status
    BY <1>4 DEF StoresTransition, AuditAfter, AuditBefore
  <2>. QED
    BY <1>1, <1>2, <1>4, <2>1, <2>2, StoredExplains DEF StoresTransition
<1>5. CASE StoresDelete(r)
  <2>1. AuditAfter(r) = "deleted"
    BY <1>5 DEF StoresDelete, AuditAfter
  <2>. QED
    BY <1>1, <1>2, <1>5, <2>1, StoredExplains DEF StoresDelete
<1>. QED
  BY <1>3, <1>4, <1>5 DEF Writes

LEMMA ServeIsDue ==
  ASSUME TypeInv, ReadsAreFresh, NEW r \in Requests, Serve(r)
  PROVE  AuditDue(r)'
<1>1. kind' = kind
  BY ServeSteps
<1>2. CASE Ends(r)
  BY <1>2, OpsAndAnswers DEF Ends, Refuse, Finish, TypeInv, RequestsOK, AuditDue
<1>3. CASE Loads(r)
  BY <1>3 DEF Loads, Load, TypeInv, RequestsOK, AuditDue
<1>4. CASE Registers(r)
  <2>1. CASE phase'[r] = "audit"
    <3>1. input'[r].op = "create"
      BY <1>4, <2>1 DEF Registers, TypeInv, RequestsOK
    <3>2. AuditAfter(r)' = RulesOf[kind].initial /\ AuditBefore(r)' = ""
      BY <1>1, <3>1 DEF AuditAfter, AuditBefore
    <3>. QED
      BY <1>4, <3>1, <3>2, StoredExplains DEF Registers, StoresCreate
  <2>. QED
    BY <2>1 DEF AuditDue
<1>5. CASE Follows(r)
  <2>1. phase'[r] # "audit"
    BY <1>5 DEF Follows, Audit, Respond, DatabaseError, AuditFailed, AfterAudit, Proceed, Finish, TypeInv,
                RequestsOK
  <2>. QED
    BY <2>1 DEF AuditDue
<1>. QED
  BY <1>1, <1>2, <1>3, <1>4, <1>5, WritesAreDue, ServeSteps

LEMMA DueStep ==
  ASSUME TypeInv, ReadsAreFresh, AuditsAreDue, [Next]_vars
  PROVE  AuditsAreDue'
<1> SUFFICES ASSUME NEW q \in Requests PROVE AuditDue(q)'
  BY DEF AuditsAreDue
<1>1. AuditDue(q) /\ commits \subseteq commits' /\ kind' = kind
  BY CommitsGrow, NextStores DEF AuditsAreDue
<1>2. CASE UNCHANGED vars
  BY <1>1, <1>2, DueWhenKept DEF vars
<1>3. CASE Crash
  BY <1>3, OpsAndAnswers DEF Crash, AuditDue
<1>4. ASSUME NEW r \in Requests, Serve(r), q # r
      PROVE  AuditDue(q)'
  BY <1>1, <1>4, ServeKeepsOthers, DueWhenKept DEF OthersKept
<1>5. CASE Serve(q)
  BY <1>5, ServeIsDue
<1>. QED
  BY <1>2, <1>3, <1>4, <1>5 DEF Next

\* Only Audit writes an entry.
LEMMA NewEntries ==
  ASSUME TypeInv, NEW r \in Requests, Serve(r)
  PROVE  audits' = audits \/ Audit(r)
BY ServeSteps DEF Ends, Loads, Load, Registers, Writes, Follows, Respond, DatabaseError, tables

LEMMA AuditsStep ==
  ASSUME TypeInv, AuditsAreDue, AuditsAreTrue, [Next]_vars
  PROVE  AuditsAreTrue'
<1> SUFFICES ASSUME NEW e \in audits'
             PROVE  \E c \in commits' :
                      /\ c.request = e.request /\ c.op = e.action /\ c.to = e.after
                      /\ e.action # "delete" => c.from = e.before
  BY DEF AuditsAreTrue
<1>1. commits \subseteq commits'
  BY CommitsGrow
<1>2. CASE e \in audits
  BY <1>1, <1>2 DEF AuditsAreTrue
<1>3. ASSUME NEW r \in Requests, Audit(r), e \notin audits
      PROVE  \E c \in commits' :
               /\ c.request = e.request /\ c.op = e.action /\ c.to = e.after
               /\ e.action # "delete" => c.from = e.before
  <2>1. e = [request |-> r, action |-> input[r].op,
             before |-> AuditBefore(r), after |-> AuditAfter(r)]
    BY <1>3 DEF Audit
  <2>2. /\ e.request = r /\ e.action = input[r].op
        /\ e.before = AuditBefore(r) /\ e.after = AuditAfter(r)
    BY <2>1
  <2>3. PICK c \in commits : Explains(c, r)
    BY <1>3 DEF Audit, AuditsAreDue, AuditDue
  <2>. QED
    BY <1>1, <2>2, <2>3 DEF Explains
<1>4. CASE UNCHANGED vars \/ Crash
  BY <1>2, <1>4 DEF vars, Crash, tables
<1>. QED
  BY <1>2, <1>3, <1>4, NewEntries DEF Next

\* When every client sends back a version it was shown: an entry of the audit log is about a
\* write that happened and names the statuses it moved between (the entry of a delete: the
\* status it moved to).
THEOREM EntriesAreTrue ==
  ASSUME AheadVersions = {}
  PROVE  Spec => []AuditsAreTrue
<1> DEFINE Inv == TypeInv /\ ReadsAreFresh /\ AuditsAreDue /\ AuditsAreTrue
<1>1. Init => Inv
  BY TypeInit, FreshInit DEF Init, AuditsAreDue, AuditDue, AuditsAreTrue
<1>2. Inv /\ [Next]_vars => Inv'
  BY TypeStep, FreshStep, DueStep, AuditsStep
<1>. QED
  BY <1>1, <1>2, PTL DEF Spec

----------------------------------------------------------------------------
(* What a caller is told *)

Audited(r) == \E e \in audits : e.request = r

\* Where a request stands tells what it has left in the tables.
Outcome(r) ==
  /\ phase[r] \in {"idle", "write"} \union (Refusals \ {"not_found"}) => ~Committed(r)
  /\ phase[r] \in {"audit", "reply"} =>
       /\ Committed(r)
       /\ \A c \in commits : c.request = r => c.op = input[r].op
  /\ phase[r] = "reply" =>
       /\ input[r].op \in {"update", "transition"}
       /\ input[r].op = "transition" => Audited(r)
  /\ phase[r] = "ok" =>
       \E c \in commits :
         c.request = r /\ (c.op \in {"transition", "delete"} => Audited(r))
  /\ phase[r] = "not_found" /\ Committed(r) => row.deleted

AllOutcomes == \A r \in Requests : Outcome(r)

LEMMA DeletedStaysDeleted ==
  ASSUME TypeInv, [Next]_vars, row.deleted, row.version > 0
  PROVE  row'.deleted
<1>1. ~Live(row) /\ row.version # 0
  BY DEF Live, TypeInv, TablesOK, Row
<1>2. ASSUME NEW r \in Requests
      PROVE  ~ (StoresCreate(r) \/ StoresUpdate(r) \/ StoresTransition(r) \/ StoresDelete(r))
  BY <1>1 DEF StoresCreate, StoresUpdate, StoresTransition, StoresDelete, VersionMatches
<1>. QED
  BY <1>2, NextStores DEF StoresNothing

CommitsOf(r) == {c \in commits : c.request = r}

\* The step of another request.
LEMMA KeptOutcome ==
  ASSUME TypeInv, VersionsInv, [Next]_vars, NEW q \in Requests, Outcome(q),
         phase'[q] = phase[q], input'[q] = input[q],
         CommitsOf(q)' = CommitsOf(q), audits \subseteq audits'
  PROVE  Outcome(q)'
<1>1. \A c : c \in commits /\ c.request = q <=> c \in commits' /\ c.request = q
  BY DEF CommitsOf
<1>2. (Committed(q)' <=> Committed(q)) /\ (Audited(q) => Audited(q)')
  BY <1>1 DEF Committed, Audited
<1>3. ASSUME Committed(q), row.deleted
      PROVE  row'.deleted
  <2>1. row.version > 0
    BY <1>3 DEF Committed, VersionsInv, CommitsAreOfThePast, TypeInv, TablesOK, Row
  <2>. QED
    BY <1>3, <2>1, DeletedStaysDeleted
<1>. QED
  BY <1>1, <1>2, <1>3 DEF Outcome

\* Only r leaves commits and audit entries when r is served.
LEMMA OthersLeaveNothing ==
  ASSUME TypeInv, NEW r \in Requests, Serve(r), NEW q \in Requests \ {r}
  PROVE  CommitsOf(q)' = CommitsOf(q) /\ audits \subseteq audits'
<1>1. audits \subseteq audits'
  BY NewEntries DEF Audit
<1>2. commits' = commits \/ \E c : c.request = r /\ commits' = commits \union {c}
  <2>1. ASSUME NEW op, NEW newRow, NEW from, NEW to, Stores(r, op, newRow, from, to)
        PROVE  \E c : c.request = r /\ commits' = commits \union {c}
    <3> DEFINE n == [request |-> r, op |-> op, version |-> newRow.version, from |-> from,
                     to |-> to]
    <3>1. n.request = r /\ commits' = commits \union {n}
      BY <2>1 DEF Stores
    <3>. QED
      BY <3>1
  <2>. QED
    BY <2>1, ServeStores DEF StoresNothing, StoresCreate, StoresUpdate, StoresTransition,
                             StoresDelete
<1>. QED
  BY <1>1, <1>2 DEF CommitsOf

\* As long as r has written nothing.
LEMMA EarlyOutcome ==
  ASSUME NEW r \in Requests, Outcome(r), phase[r] \in {"idle", "write"}, commits' = commits,
         phase'[r] \in {"write"} \union (Answers \ {"ok"})
  PROVE  Outcome(r)'
<1>1. ~Committed(r)'
  BY DEF Outcome, Committed
<1>2. phase'[r] \notin {"audit", "reply", "ok"}
  BY DEF Answers, Refusals
<1>. QED
  BY <1>1, <1>2 DEF Outcome, Committed

\* When it commits.
LEMMA CommittingOutcome ==
  ASSUME NEW r \in Requests, Outcome(r), phase[r] \in {"idle", "write"},
         NEW op, NEW newRow, NEW from, NEW to, Stores(r, op, newRow, from, to),
         \/ phase'[r] = "audit" /\ input'[r].op = op
         \/ phase'[r] = "internal_error"
  PROVE  Outcome(r)'
<1> DEFINE n == [request |-> r, op |-> op, version |-> newRow.version, from |-> from, to |-> to]
<1>1. n.request = r /\ n.op = op /\ commits' = commits \union {n}
  BY DEF Stores
<1> HIDE DEF n
<1>2. \A c \in commits' : c.request = r => c = n
  BY <1>1 DEF Outcome, Committed
<1>. QED
  BY <1>1, <1>2 DEF Outcome, Refusals, Committed

\* And afterwards.
LEMMA LateOutcome ==
  ASSUME TypeInv, VersionsInv, NEW r \in Requests, Outcome(r), Follows(r)
  PROVE  Outcome(r)'
<1>1. phase[r] \in InFlight /\ input[r] \in Input /\ commits' = commits /\ row' = row
  BY OpsAndAnswers DEF Follows, Audit, Respond, DatabaseError, TypeInv, RequestsOK, tables
<1>2. ASSUME Finish(r, "internal_error")
      PROVE  Outcome(r)'
  BY <1>2 DEF Finish, Outcome, Refusals, TypeInv, RequestsOK
<1>3. ASSUME phase[r] = "audit", AfterAudit(r),
             input[r].op \in {"transition", "delete"} => Audited(r)'
      PROVE  Outcome(r)'
  <2>1. PICK c \in commits : c.request = r /\ c.op = input[r].op
    BY <1>3 DEF Outcome, Committed
  <2>2. CASE input[r].op \in {"create", "delete"}
    <3>1. phase'[r] = "ok"
      BY <1>3, <2>2 DEF AfterAudit, Finish, TypeInv, RequestsOK
    <3>2. c \in commits' /\ (c.op \in {"transition", "delete"} => Audited(r)')
      BY <1>1, <1>3, <2>1
    <3>. QED
      BY <2>1, <3>1, <3>2 DEF Outcome, Refusals
  <2>3. CASE input[r].op \in {"update", "transition"}
    <3>1. phase'[r] = "reply" /\ input'[r] = input[r]
      BY <1>3, <2>3 DEF AfterAudit, Proceed, TypeInv, RequestsOK
    <3>. QED
      BY <1>1, <1>3, <2>3, <3>1 DEF Outcome, Refusals, Committed
  <2>. QED
    BY <1>1, <2>2, <2>3, OpsAndAnswers DEF Input
<1>4. CASE Audit(r)
  <2> DEFINE e == [request |-> r, action |-> input[r].op,
                   before |-> AuditBefore(r), after |-> AuditAfter(r)]
  <2>1. e \in audits' /\ e.request = r
    BY <1>4 DEF Audit
  <2>2. Audited(r)'
    BY <2>1 DEF Audited
  <2>. QED
    BY <1>2, <1>3, <1>4, <2>2 DEF Audit, AuditFailed
<1>5. CASE Respond(r)
  <2>1. phase[r] = "reply" /\ audits' = audits
    BY <1>5 DEF Respond, tables
  <2>2. CASE Live(row)
    <3>1. phase'[r] = "ok"
      BY <1>5, <2>2 DEF Respond, Finish, TypeInv, RequestsOK
    <3>2. PICK c \in commits : c.request = r /\ c.op = input[r].op
      BY <2>1 DEF Outcome, Committed
    <3>3. c.op \in {"transition", "delete"} => Audited(r)'
      BY <2>1, <3>2 DEF Outcome, Audited
    <3>. QED
      BY <1>1, <3>1, <3>2, <3>3 DEF Outcome, Refusals
  <2>3. CASE ~Live(row)
    <3>1. phase'[r] = "not_found"
      BY <1>5, <2>3 DEF Respond, Finish, TypeInv, RequestsOK
    <3>2. Committed(r) => row.deleted
      BY <2>3 DEF Committed, VersionsInv, CommitsAreOfThePast, TypeInv, TablesOK, Row, Live
    <3>. QED
      BY <1>1, <3>1, <3>2 DEF Outcome, Committed, Refusals
  <2>. QED
    BY <2>2, <2>3
<1>6. CASE DatabaseError(r)
  <2>1. phase[r] = "audit" /\ ~ReportsAuditFailure(input[r].op)
          => input[r].op \notin {"transition", "delete"}
    BY DEF ReportsAuditFailure
  <2>. QED
    BY <1>2, <1>3, <1>6, <2>1 DEF DatabaseError, AuditFailed
<1>. QED
  BY <1>4, <1>5, <1>6 DEF Follows

LEMMA WrittenOutcome ==
  ASSUME TypeInv, NEW r \in Requests, Outcome(r), Registers(r) \/ Writes(r)
  PROVE  Outcome(r)'
<1>1. CASE Registers(r)
  <2>1. phase[r] = "idle" /\ \E newRow, to : Stores(r, "create", newRow, "", to)
    BY <1>1 DEF Registers, StoresCreate
  <2>2. \/ phase'[r] = "audit" /\ input'[r].op = "create"
        \/ phase'[r] = "internal_error"
    BY <1>1 DEF Registers, TypeInv, RequestsOK
  <2>. QED
    BY <2>1, <2>2, CommittingOutcome
<1>2. CASE Writes(r)
  <2>1. phase[r] = "write" /\ \E newRow, from, to : Stores(r, input[r].op, newRow, from, to)
    BY <1>2 DEF Writes, StoresUpdate, StoresTransition, StoresDelete
  <2>2. \/ phase'[r] = "audit" /\ input'[r].op = input[r].op
        \/ phase'[r] = "internal_error"
    BY <1>2 DEF Writes, Proceed, Finish, TypeInv, RequestsOK
  <2>. QED
    BY <2>1, <2>2, CommittingOutcome
<1>. QED
  BY <1>1, <1>2

LEMMA ServeOutcome ==
  ASSUME TypeInv, VersionsInv, NEW r \in Requests, Outcome(r), Serve(r)
  PROVE  Outcome(r)'
<1>1. CASE phase[r] \in {"idle", "write"} /\ Ends(r)
  <2>1. commits' = commits /\ phase'[r] \in Answers \ {"ok"}
    BY <1>1 DEF Ends, Refuse, Finish, tables, TypeInv, RequestsOK
  <2>. QED
    BY <1>1, <2>1, EarlyOutcome
<1>2. CASE Loads(r)
  <2>1. commits' = commits /\ phase'[r] = "write" /\ phase[r] = "idle"
    BY <1>2 DEF Loads, Load, tables, TypeInv, RequestsOK
  <2>. QED
    BY <2>1, EarlyOutcome
<1>. QED
  BY <1>1, <1>2, ServeSteps, WrittenOutcome, LateOutcome

LEMMA OutcomesStep ==
  ASSUME TypeInv, VersionsInv, AllOutcomes, [Next]_vars
  PROVE  AllOutcomes'
<1> SUFFICES ASSUME NEW q \in Requests PROVE Outcome(q)'
  BY DEF AllOutcomes
<1>1. Outcome(q)
  BY DEF AllOutcomes
<1>2. CASE UNCHANGED vars
  BY <1>1, <1>2 DEF Outcome, Committed, Audited, vars
<1>3. CASE Crash
  <2>1. row' = row /\ commits' = commits /\ audits' = audits
    BY <1>3 DEF Crash, tables
  <2>2. \/ phase'[q] = "lost"
        \/ phase'[q] = phase[q] /\ phase[q] \notin InFlight
    BY <1>3 DEF Crash
  <2>. QED
    BY <1>1, <2>1, <2>2 DEF Outcome, Committed, Audited, Refusals, InFlight
<1>4. ASSUME NEW r \in Requests, Serve(r), q # r
      PROVE  Outcome(q)'
  <2>1. CommitsOf(q)' = CommitsOf(q) /\ audits \subseteq audits'
    BY <1>4, OthersLeaveNothing
  <2>2. phase'[q] = phase[q] /\ input'[q] = input[q]
    BY <1>4, ServeKeepsOthers DEF OthersKept
  <2>. QED
    BY <1>1, <2>1, <2>2, KeptOutcome
<1>5. CASE Serve(q)
  BY <1>1, <1>5, ServeOutcome
<1>. QED
  BY <1>2, <1>3, <1>4, <1>5 DEF Next

\* Whatever versions clients name, whatever fails: a refusal left nothing in the tables, an
\* accepted request was stored, and audited when it is a transition or a delete.
THEOREM AnswersAreTrue == Spec => []AnswersTellTheEffect
<1> DEFINE Inv == TypeInv /\ VersionsInv /\ AllOutcomes
<1>1. Init => Inv
  BY TypeInit, VersionsInit DEF Init, AllOutcomes, Outcome, Committed, Refusals
<1>2. Inv /\ [Next]_vars => Inv'
  BY TypeStep, VersionsStep, OutcomesStep
<1>3. Inv => AnswersTellTheEffect
  BY DEF AllOutcomes, Outcome, Audited, AnswersTellTheEffect
<1>. QED
  BY <1>1, <1>2, <1>3, PTL DEF Spec
=============================================================================
