------------------------- MODULE StageApprovalProofs -------------------------
(***************************************************************************)
(* Theorems about StageApproval, for any approvals, requests and callers.  *)
(***************************************************************************)
EXTENDS StageApproval, TLAPS

----------------------------------------------------------------------------
(* The status graph *)

LEMMA StatesLemma ==
  /\ ApprovalStates = {"draft", "review", "approved", "rejected"}
  /\ DOMAIN StageApprovalTransitions = ApprovalStates
BY DEF ApprovalStates, StageApprovalTransitions

LEMMA EdgeLemma ==
  ASSUME NEW from, NEW to, CanTransition(StageApprovalTransitions, from, to)
  PROVE  /\ from \in ApprovalStates
         /\ to \in ApprovalStates
         /\ from # "approved"
         /\ to \in Decisions => from = "review"
BY DEF CanTransition, ApprovalStates, StageApprovalTransitions, Decisions

----------------------------------------------------------------------------
(* Types *)

\* A request in flight holds a request record, which TypeOK alone does not say.
InFlightHasInput == \A r \in Requests : phase[r] \in InFlight => input[r] \in Input

\* The part of the types that concerns requests, not tables.
RequestsOK ==
  /\ phase \in [Requests -> {"idle"} \union InFlight \union Answers]
  /\ input \in [Requests -> Input \union {NoInput}]
  /\ current \in [Requests -> Row]
  /\ InFlightHasInput

TablesOK ==
  /\ rows \in [Approvals -> Row]
  /\ opinions \subseteq Opinion
  /\ audits \subseteq AuditEntry
  /\ commits \subseteq Commit

TypeInv == TablesOK /\ RequestsOK

LEMMA LiveRowIsRow ==
  ASSUME NEW status \in ApprovalStates, NEW version \in Nat, NEW fields \in Contents
  PROVE  /\ LiveRow(status, version, fields) \in Row
         /\ LiveRow(status, version, fields).status = status
         /\ LiveRow(status, version, fields).version = version
         /\ LiveRow(status, version, fields).fields = fields
BY DEF LiveRow, Row

LEMMA NoRowIsRow == NoRow \in Row
BY StatesLemma, LiveRowIsRow DEF NoRow, Contents

LEMMA TypeInit == Init => TypeInv
<1> SUFFICES ASSUME Init PROVE TypeInv
  OBVIOUS
<1>2. Seeds \subseteq Row
  BY StatesLemma, LiveRowIsRow DEF Seeds, Contents
<1>3. TablesOK
  BY <1>2, NoRowIsRow DEF Init, TablesOK
<1>4. RequestsOK
  BY NoRowIsRow DEF Init, RequestsOK, InFlightHasInput, InFlight
<1>. QED
  BY <1>3, <1>4 DEF TypeInv

LEMMA AnswersNotInFlight == Answers \intersect InFlight = {}
BY DEF Answers, Refusals, InFlight

LEMMA FinishKeepsTypes ==
  ASSUME RequestsOK, NEW r \in Requests, NEW answer \in Answers, Finish(r, answer)
  PROVE  RequestsOK'
BY NoRowIsRow, AnswersNotInFlight DEF RequestsOK, Finish, InFlightHasInput

LEMMA ProceedKeepsTypes ==
  ASSUME RequestsOK, NEW r \in Requests, phase[r] \in InFlight, NEW next \in InFlight,
         Proceed(r, next)
  PROVE  RequestsOK'
BY DEF RequestsOK, Proceed, InFlightHasInput

LEMMA RefuseKeepsTypes ==
  ASSUME TypeInv, NEW r \in Requests, NEW answer \in Answers, Refuse(r, answer)
  PROVE  TypeInv'
<1>1. TablesOK'
  BY DEF TypeInv, TablesOK, Refuse, tables
<1>2. RequestsOK'
  BY AnswersNotInFlight DEF TypeInv, RequestsOK, Refuse, InFlightHasInput
<1>. QED
  BY <1>1, <1>2 DEF TypeInv

LEMMA LoadKeepsTypes ==
  ASSUME TypeInv, NEW r \in Requests, NEW in \in Input, Load(r, in)
  PROVE  TypeInv'
<1>1. TablesOK'
  BY DEF TypeInv, TablesOK, Load, tables
<1>2. in.approval \in Approvals
  BY DEF Input
<1>3. RequestsOK'
  BY <1>2 DEF TypeInv, RequestsOK, TablesOK, Load, InFlightHasInput, InFlight
<1>. QED
  BY <1>1, <1>3 DEF TypeInv

LEMMA WrittenKeepsTypes ==
  ASSUME RequestsOK, NEW r \in Requests, phase[r] \in InFlight, Written(r)
  PROVE  RequestsOK'
<1>1. "audit" \in InFlight /\ "internal_error" \in Answers
  BY DEF InFlight, Answers
<1>. QED
  BY <1>1, FinishKeepsTypes, ProceedKeepsTypes DEF Written

LEMMA AfterAuditKeepsTypes ==
  ASSUME RequestsOK, NEW r \in Requests, phase[r] \in InFlight, AfterAudit(r)
  PROVE  RequestsOK'
<1>1. "reply" \in InFlight /\ "ok" \in Answers
  BY DEF InFlight, Answers
<1>. QED
  BY <1>1, FinishKeepsTypes, ProceedKeepsTypes DEF AfterAudit

LEMMA OpsAndAnswers ==
  /\ Ops = {"create", "update", "transition", "delete"}
  /\ InFlight = {"write", "audit", "reply"}
  /\ {"forbidden", "invalid_request", "not_found", "version_conflict",
      "business_rule", "ok", "internal_error", "lost"} \subseteq Answers
BY DEF Ops, InFlight, Answers, Refusals

LEMMA TurnAwayKeepsTypes ==
  ASSUME TypeInv, NEW r \in Requests, TurnAway(r)
  PROVE  TypeInv'
BY OpsAndAnswers, RefuseKeepsTypes DEF TurnAway

LEMMA KnownVersionsAreNat ==
  ASSUME TablesOK, NEW a \in Approvals
  PROVE  KnownVersions(a) \subseteq Nat
<1>1. rows[a].version \in Nat
  BY DEF TablesOK, Row
<1>2. AheadVersions \subseteq Nat
  BY AheadVersionsAssumption
<1>3. 1 .. rows[a].version \subseteq Nat /\ {1} \subseteq Nat
  BY <1>1
<1>. QED
  BY <1>2, <1>3 DEF KnownVersions

LEMMA CommitKeepsTypes ==
  ASSUME TablesOK, NEW r \in Requests, NEW in \in Input,
         NEW from \in ApprovalStates \union {""}, NEW to \in ApprovalStates \union {"deleted"},
         NEW version \in Nat, NEW row \in Row, Record(r, in, from, to, version),
         Store(in.approval, row), opinions' \subseteq Opinion, UNCHANGED audits
  PROVE  TablesOK'
<1>1. commits' \subseteq Commit
  <2>1. in.op \in Ops /\ in.approval \in Approvals /\ in.role \in Callers
    BY DEF Input
  <2>2. [request |-> r, op |-> in.op, approval |-> in.approval, role |-> in.role,
         version |-> version, from |-> from, to |-> to] \in Commit
    BY <2>1 DEF Commit
  <2>. QED
    BY <2>2 DEF Record, TablesOK
<1>2. rows' \in [Approvals -> Row]
  BY DEF Store, TablesOK, Input
<1>. QED
  BY <1>1, <1>2 DEF TablesOK

LEMMA InsertKeepsTypes ==
  ASSUME TypeInv, NEW r \in Requests, NEW in \in Input, Insert(r, in)
  PROVE  TypeInv'
<1> DEFINE row == LiveRow("draft", 1, r)
<1>1. row \in Row
  BY StatesLemma, LiveRowIsRow DEF Contents
<1>2. TablesOK /\ opinions' \subseteq Opinion /\ Store(in.approval, row)
  BY DEF TypeInv, TablesOK, Insert
<1> HIDE DEF row
<1>3. TablesOK'
  BY <1>1, <1>2, StatesLemma, CommitKeepsTypes DEF Insert
<1>4. RequestsOK'
  BY OpsAndAnswers, AnswersNotInFlight DEF TypeInv, Insert, RequestsOK, InFlightHasInput
<1>. QED
  BY <1>3, <1>4 DEF TypeInv

LEMMA CreateKeepsTypes ==
  ASSUME TypeInv, NEW r \in Requests, Create(r)
  PROVE  TypeInv'
<1>1. PICK a \in Approvals, role \in Callers :
        \/ Refuse(r, "business_rule")
        \/ Refuse(r, "internal_error")
        \/ Insert(r, [op |-> "create", approval |-> a, role |-> role,
                      version |-> 1, target |-> "draft"])
  BY DEF Create
<1>2. [op |-> "create", approval |-> a, role |-> role, version |-> 1, target |-> "draft"]
        \in Input
  BY StatesLemma, OpsAndAnswers DEF Input
<1>. QED
  BY <1>1, <1>2, RefuseKeepsTypes, InsertKeepsTypes, OpsAndAnswers

LEMMA UpdateReadKeepsTypes ==
  ASSUME TypeInv, NEW r \in Requests, UpdateRead(r)
  PROVE  TypeInv'
<1>1. PICK a \in Approvals, role \in Callers : \E v \in KnownVersions(a) :
        \/ Refuse(r, "not_found")
        \/ Refuse(r, "business_rule")
        \/ Load(r, [op |-> "update", approval |-> a, role |-> role,
                    version |-> v, target |-> "draft"])
  BY DEF UpdateRead
<1>2. ASSUME NEW v \in KnownVersions(a)
      PROVE  [op |-> "update", approval |-> a, role |-> role, version |-> v,
              target |-> "draft"] \in Input
  BY StatesLemma, OpsAndAnswers, KnownVersionsAreNat DEF TypeInv, Input
<1>. QED
  BY <1>1, <1>2, RefuseKeepsTypes, LoadKeepsTypes, OpsAndAnswers

LEMMA TransitionReadKeepsTypes ==
  ASSUME TypeInv, NEW r \in Requests, TransitionRead(r)
  PROVE  TypeInv'
<1>1. PICK a \in Approvals, role \in Callers, target \in ApprovalStates :
        \E v \in KnownVersions(a) :
        \/ Refuse(r, "not_found")
        \/ Refuse(r, "business_rule")
        \/ Load(r, [op |-> "transition", approval |-> a, role |-> role,
                    version |-> v, target |-> target])
  BY DEF TransitionRead
<1>2. ASSUME NEW v \in KnownVersions(a)
      PROVE  [op |-> "transition", approval |-> a, role |-> role, version |-> v,
              target |-> target] \in Input
  BY StatesLemma, OpsAndAnswers, KnownVersionsAreNat DEF TypeInv, Input
<1>. QED
  BY <1>1, <1>2, RefuseKeepsTypes, LoadKeepsTypes, OpsAndAnswers

LEMMA DeleteReadKeepsTypes ==
  ASSUME TypeInv, NEW r \in Requests, DeleteRead(r)
  PROVE  TypeInv'
<1>1. PICK a \in Approvals, role \in Callers :
        \/ Refuse(r, "not_found")
        \/ Load(r, [op |-> "delete", approval |-> a, role |-> role,
                    version |-> rows[a].version, target |-> "draft"])
  BY DEF DeleteRead
<1>2. [op |-> "delete", approval |-> a, role |-> role, version |-> rows[a].version,
       target |-> "draft"] \in Input
  BY StatesLemma, OpsAndAnswers DEF TypeInv, Input, TablesOK, Row
<1>. QED
  BY <1>1, <1>2, RefuseKeepsTypes, LoadKeepsTypes, OpsAndAnswers

LEMMA UpdateWriteKeepsTypes ==
  ASSUME TypeInv, NEW r \in Requests, UpdateWrite(r)
  PROVE  TypeInv'
<1> DEFINE in == input[r]
           row == LiveRow(current[r].status, in.version + 1, r)
<1>1. in \in Input /\ phase[r] \in InFlight /\ TablesOK /\ RequestsOK
  BY OpsAndAnswers DEF TypeInv, UpdateWrite, RequestsOK, InFlightHasInput
<1>2. CASE /\ Store(in.approval, row)
           /\ Record(r, in, rows[in.approval].status, row.status, row.version)
           /\ Written(r)
           /\ UNCHANGED <<opinions, audits>>
  <2>1. /\ row \in Row /\ row.status \in ApprovalStates /\ row.version \in Nat
        /\ rows[in.approval].status \in ApprovalStates
    <3>1. /\ in.approval \in Approvals /\ in.version + 1 \in Nat
          /\ current[r].status \in ApprovalStates /\ r \in Contents
      BY <1>1 DEF RequestsOK, Row, Contents, Input
    <3>2. rows[in.approval].status \in ApprovalStates
      BY <1>1, <3>1 DEF TablesOK, Row
    <3>. QED
      BY <3>1, <3>2, LiveRowIsRow
  <2>2. opinions' \subseteq Opinion
    BY <1>1, <1>2 DEF TablesOK
  <2> HIDE DEF in, row
  <2>3. TablesOK'
    BY <1>1, <1>2, <2>1, <2>2, CommitKeepsTypes
  <2>. QED
    BY <1>1, <1>2, <2>3, WrittenKeepsTypes DEF TypeInv
<1>3. CASE Finish(r, "version_conflict") /\ UNCHANGED tables
  BY <1>1, <1>3, FinishKeepsTypes, OpsAndAnswers DEF TypeInv, tables, TablesOK
<1>. QED
  BY <1>2, <1>3 DEF UpdateWrite

LEMMA TransitionWriteKeepsTypes ==
  ASSUME TypeInv, NEW r \in Requests, TransitionWrite(r)
  PROVE  TypeInv'
<1> DEFINE in == input[r]
           row == LiveRow(in.target, in.version + 1, current[r].fields)
           opinion == [approval |-> in.approval, version |-> row.version,
                       status |-> row.status, request |-> r, role |-> in.role]
<1>1. in \in Input /\ phase[r] \in InFlight /\ TablesOK /\ RequestsOK
  BY OpsAndAnswers DEF TypeInv, TransitionWrite, RequestsOK, InFlightHasInput
<1>2. CASE /\ Store(in.approval, row)
           /\ opinions' = opinions \union {opinion}
           /\ Record(r, in, rows[in.approval].status, row.status, row.version)
           /\ Written(r)
           /\ UNCHANGED audits
  <2>1. /\ row \in Row /\ row.status \in ApprovalStates /\ row.version \in Nat
        /\ rows[in.approval].status \in ApprovalStates
        /\ opinion \in Opinion
    <3>1. /\ in.approval \in Approvals /\ in.version + 1 \in Nat /\ in.role \in Callers
          /\ in.target \in ApprovalStates /\ current[r].fields \in Contents
      BY <1>1 DEF RequestsOK, Row, Input
    <3>2. rows[in.approval].status \in ApprovalStates
      BY <1>1, <3>1 DEF TablesOK, Row
    <3>3. row \in Row /\ row.status = in.target /\ row.version = in.version + 1
      BY <3>1, LiveRowIsRow
    <3> HIDE DEF in, row
    <3>. QED
      BY <3>1, <3>2, <3>3 DEF Opinion
  <2>2. opinions' \subseteq Opinion
    BY <1>1, <1>2, <2>1 DEF TablesOK
  <2> HIDE DEF in, row
  <2>3. TablesOK'
    BY <1>1, <1>2, <2>1, <2>2, CommitKeepsTypes
  <2>. QED
    BY <1>1, <1>2, <2>3, WrittenKeepsTypes DEF TypeInv
<1>3. CASE Finish(r, "version_conflict") /\ UNCHANGED tables
  BY <1>1, <1>3, FinishKeepsTypes, OpsAndAnswers DEF TypeInv, tables, TablesOK
<1>. QED
  BY <1>2, <1>3 DEF TransitionWrite

LEMMA DeleteWriteKeepsTypes ==
  ASSUME TypeInv, NEW r \in Requests, DeleteWrite(r)
  PROVE  TypeInv'
<1> DEFINE in == input[r]
           row == [rows[in.approval] EXCEPT !.deleted = TRUE]
<1>1. in \in Input /\ phase[r] \in InFlight /\ TablesOK /\ RequestsOK
  BY OpsAndAnswers DEF TypeInv, DeleteWrite, RequestsOK, InFlightHasInput
<1>2. CASE /\ Store(in.approval, row)
           /\ Record(r, in, rows[in.approval].status, "deleted", rows[in.approval].version)
           /\ Written(r)
           /\ UNCHANGED <<opinions, audits>>
  <2>1. /\ row \in Row /\ rows[in.approval].version \in Nat
        /\ rows[in.approval].status \in ApprovalStates
    BY <1>1 DEF TablesOK, Row, Input
  <2>2. opinions' \subseteq Opinion
    BY <1>1, <1>2 DEF TablesOK
  <2> HIDE DEF in, row
  <2>3. TablesOK'
    BY <1>1, <1>2, <2>1, <2>2, CommitKeepsTypes
  <2>. QED
    BY <1>1, <1>2, <2>3, WrittenKeepsTypes DEF TypeInv
<1>3. CASE Finish(r, "not_found") /\ UNCHANGED tables
  BY <1>1, <1>3, FinishKeepsTypes, OpsAndAnswers DEF TypeInv, tables, TablesOK
<1>. QED
  BY <1>2, <1>3 DEF DeleteWrite

LEMMA AuditFailedKeepsTypes ==
  ASSUME RequestsOK, NEW r \in Requests, phase[r] \in InFlight, AuditFailed(r)
  PROVE  RequestsOK'
BY OpsAndAnswers, FinishKeepsTypes, AfterAuditKeepsTypes DEF AuditFailed

LEMMA AuditKeepsTypes ==
  ASSUME TypeInv, NEW r \in Requests, Audit(r)
  PROVE  TypeInv'
<1>1. input[r] \in Input /\ phase[r] \in InFlight /\ TablesOK /\ RequestsOK
  BY OpsAndAnswers DEF TypeInv, Audit, RequestsOK, InFlightHasInput
<1>2. AuditBefore(r) \in ApprovalStates \union {""}
  BY <1>1 DEF AuditBefore, RequestsOK, Row
<1>3. AuditAfter(r) \in ApprovalStates \union {"deleted"}
  BY <1>1, StatesLemma, OpsAndAnswers DEF AuditAfter, RequestsOK, Row, Input
<1>4. audits' \subseteq AuditEntry
  <2>1. input[r].op \in Ops /\ input[r].approval \in Approvals
    BY <1>1 DEF Input
  <2>2. [request |-> r, action |-> input[r].op, approval |-> input[r].approval,
         before |-> AuditBefore(r), after |-> AuditAfter(r)] \in AuditEntry
    BY <1>2, <1>3, <2>1 DEF AuditEntry
  <2>. QED
    BY <1>1, <2>2 DEF Audit, TablesOK
<1>5. TablesOK'
  BY <1>1, <1>4 DEF Audit, TablesOK
<1>6. CASE AfterAudit(r)
  BY <1>1, <1>5, <1>6, AfterAuditKeepsTypes DEF TypeInv
<1>7. CASE AuditFailed(r)
  BY <1>1, <1>5, <1>7, AuditFailedKeepsTypes DEF TypeInv
<1>. QED
  BY <1>6, <1>7 DEF Audit

LEMMA RespondKeepsTypes ==
  ASSUME TypeInv, NEW r \in Requests, Respond(r)
  PROVE  TypeInv'
<1>1. TablesOK'
  BY DEF TypeInv, Respond, tables, TablesOK
<1>2. RequestsOK'
  BY OpsAndAnswers, FinishKeepsTypes DEF TypeInv, Respond
<1>. QED
  BY <1>1, <1>2 DEF TypeInv

LEMMA DatabaseErrorKeepsTypes ==
  ASSUME TypeInv, NEW r \in Requests, DatabaseError(r)
  PROVE  TypeInv'
<1>1. TablesOK'
  BY DEF TypeInv, DatabaseError, tables, TablesOK
<1>2. RequestsOK'
  BY OpsAndAnswers, FinishKeepsTypes, AuditFailedKeepsTypes DEF TypeInv, DatabaseError
<1>. QED
  BY <1>1, <1>2 DEF TypeInv

LEMMA CrashKeepsTypes ==
  ASSUME TypeInv, Crash
  PROVE  TypeInv'
<1>1. TablesOK'
  BY DEF TypeInv, Crash, tables, TablesOK
<1>2. RequestsOK'
  BY OpsAndAnswers, AnswersNotInFlight, NoRowIsRow DEF TypeInv, Crash, RequestsOK, InFlightHasInput
<1>. QED
  BY <1>1, <1>2 DEF TypeInv

LEMMA TypeStep == TypeInv /\ [Next]_vars => TypeInv'
<1> SUFFICES ASSUME TypeInv, [Next]_vars PROVE TypeInv'
  OBVIOUS
<1>1. CASE UNCHANGED vars
  BY <1>1 DEF vars, TypeInv, TablesOK, RequestsOK, InFlightHasInput
<1>2. CASE Crash
  BY <1>2, CrashKeepsTypes
<1>3. ASSUME NEW r \in Requests, Serve(r)
      PROVE  TypeInv'
  BY <1>3, TurnAwayKeepsTypes, CreateKeepsTypes, UpdateReadKeepsTypes,
     UpdateWriteKeepsTypes, TransitionReadKeepsTypes, TransitionWriteKeepsTypes,
     DeleteReadKeepsTypes, DeleteWriteKeepsTypes, AuditKeepsTypes, RespondKeepsTypes,
     DatabaseErrorKeepsTypes
     DEF Serve
<1>. QED
  BY <1>1, <1>2, <1>3 DEF Next

\* Every variable of the approval service keeps to its type.
THEOREM TypeCorrect == Spec => []TypeOK
<1>1. Spec => []TypeInv
  BY TypeInit, TypeStep, PTL DEF Spec
<1>2. TypeInv => TypeOK
  BY DEF TypeInv, TablesOK, RequestsOK, TypeOK
<1>. QED
  BY <1>1, <1>2, PTL

----------------------------------------------------------------------------
(* What a step leaves alone *)

\* Serving r changes nothing of the other requests in flight.
OthersKept(r) ==
  \A q \in Requests \ {r} :
    phase'[q] = phase[q] /\ input'[q] = input[q] /\ current'[q] = current[q]

\* The ways a step of r ends: without a read, or by loading a row that passes
\* the checks, under a version that the row has had.
LoadsChecked(r) ==
  \E in \in Input :
    /\ Load(r, in)
    /\ Live(rows[in.approval])
    /\ in.version <= rows[in.approval].version
    /\ in.op = "update" => Editable(rows[in.approval].status)
    /\ in.op = "transition" =>
         /\ CanTransition(StageApprovalTransitions, rows[in.approval].status, in.target)
         /\ MayDecide(in.role, in.target)

MovesOn(r) == OthersKept(r) /\ phase'[r] # "write"

LEMMA RefuseMovesOn ==
  ASSUME TypeInv, NEW r \in Requests, NEW answer \in Answers, Refuse(r, answer)
  PROVE  MovesOn(r)
BY AnswersNotInFlight DEF MovesOn, OthersKept, Refuse, TypeInv, RequestsOK, InFlight

LEMMA FinishMovesOn ==
  ASSUME TypeInv, NEW r \in Requests, NEW answer \in Answers, Finish(r, answer)
  PROVE  MovesOn(r)
BY AnswersNotInFlight DEF MovesOn, OthersKept, Finish, TypeInv, RequestsOK, InFlight

LEMMA ProceedMovesOn ==
  ASSUME TypeInv, NEW r \in Requests, NEW next \in {"audit", "reply"}, Proceed(r, next)
  PROVE  MovesOn(r)
BY DEF MovesOn, OthersKept, Proceed, TypeInv, RequestsOK

LEMMA KnownVersionsAreOld ==
  ASSUME TypeInv, AheadVersions = {}, NEW a \in Approvals, Live(rows[a]),
         NEW v \in KnownVersions(a)
  PROVE  v \in Nat /\ v <= rows[a].version
<1>1. rows[a].version \in Nat /\ rows[a].version > 0
  BY DEF TypeInv, TablesOK, Row, Live
<1>2. v = 1 \/ v \in 1 .. rows[a].version
  BY DEF KnownVersions
<1>. QED
  BY <1>1, <1>2

LEMMA ServeOutcome ==
  ASSUME TypeInv, AheadVersions = {}, NEW r \in Requests, Serve(r)
  PROVE  LoadsChecked(r) \/ MovesOn(r)
<1>1. CASE TurnAway(r)
  BY <1>1, OpsAndAnswers, RefuseMovesOn DEF TurnAway
<1>2. CASE Create(r)
  <2>1. ASSUME NEW in, Insert(r, in)
        PROVE  MovesOn(r)
    BY <2>1 DEF Insert, MovesOn, OthersKept, TypeInv, RequestsOK
  <2>. QED
    BY <1>2, <2>1, OpsAndAnswers, RefuseMovesOn DEF Create
<1>3. CASE UpdateRead(r)
  <2>1. PICK a \in Approvals, role \in Callers : \E v \in KnownVersions(a) :
          \/ Refuse(r, "not_found")
          \/ Refuse(r, "business_rule")
          \/ /\ Live(rows[a])
             /\ Editable(rows[a].status)
             /\ Load(r, [op |-> "update", approval |-> a, role |-> role,
                         version |-> v, target |-> "draft"])
    BY <1>3 DEF UpdateRead
  <2>2. ASSUME NEW v \in KnownVersions(a), Live(rows[a]), Editable(rows[a].status),
               Load(r, [op |-> "update", approval |-> a, role |-> role,
                        version |-> v, target |-> "draft"])
        PROVE  LoadsChecked(r)
    <3> DEFINE in == [op |-> "update", approval |-> a, role |-> role,
                      version |-> v, target |-> "draft"]
    <3>1. v \in Nat /\ v <= rows[a].version
      BY <2>2, KnownVersionsAreOld
    <3>2. in \in Input /\ in.op # "transition" /\ in.approval = a /\ in.version = v
      BY <3>1, StatesLemma, OpsAndAnswers DEF Input
    <3> HIDE DEF in
    <3>. QED
      BY <2>2, <3>1, <3>2 DEF LoadsChecked, in
  <2>. QED
    BY <2>1, <2>2, OpsAndAnswers, RefuseMovesOn
<1>4. CASE TransitionRead(r)
  <2>1. PICK a \in Approvals, role \in Callers, target \in ApprovalStates :
        \E v \in KnownVersions(a) :
          \/ Refuse(r, "not_found")
          \/ Refuse(r, "business_rule")
          \/ /\ Live(rows[a])
             /\ CanTransition(StageApprovalTransitions, rows[a].status, target)
             /\ MayDecide(role, target)
             /\ Load(r, [op |-> "transition", approval |-> a, role |-> role,
                         version |-> v, target |-> target])
    BY <1>4 DEF TransitionRead
  <2>2. ASSUME NEW v \in KnownVersions(a), Live(rows[a]),
               CanTransition(StageApprovalTransitions, rows[a].status, target),
               MayDecide(role, target),
               Load(r, [op |-> "transition", approval |-> a, role |-> role,
                        version |-> v, target |-> target])
        PROVE  LoadsChecked(r)
    <3> DEFINE in == [op |-> "transition", approval |-> a, role |-> role,
                      version |-> v, target |-> target]
    <3>1. v \in Nat /\ v <= rows[a].version
      BY <2>2, KnownVersionsAreOld
    <3>2. /\ in \in Input /\ in.op # "update" /\ in.approval = a /\ in.version = v
          /\ in.role = role /\ in.target = target
      BY <3>1, StatesLemma, OpsAndAnswers DEF Input
    <3> HIDE DEF in
    <3>. QED
      BY <2>2, <3>1, <3>2 DEF LoadsChecked, in
  <2>. QED
    BY <2>1, <2>2, OpsAndAnswers, RefuseMovesOn
<1>5. CASE DeleteRead(r)
  <2>1. PICK a \in Approvals, role \in Callers :
          \/ Refuse(r, "not_found")
          \/ /\ Live(rows[a])
             /\ Load(r, [op |-> "delete", approval |-> a, role |-> role,
                         version |-> rows[a].version, target |-> "draft"])
    BY <1>5 DEF DeleteRead
  <2>2. ASSUME Live(rows[a]),
               Load(r, [op |-> "delete", approval |-> a, role |-> role,
                        version |-> rows[a].version, target |-> "draft"])
        PROVE  LoadsChecked(r)
    <3> DEFINE in == [op |-> "delete", approval |-> a, role |-> role,
                      version |-> rows[a].version, target |-> "draft"]
    <3>1. rows[a].version \in Nat
      BY DEF TypeInv, TablesOK, Row
    <3>2. /\ in \in Input /\ in.op \notin {"update", "transition"}
          /\ in.approval = a /\ in.version = rows[a].version
      BY <3>1, StatesLemma, OpsAndAnswers DEF Input
    <3> HIDE DEF in
    <3>. QED
      BY <2>2, <3>1, <3>2 DEF LoadsChecked, in
  <2>. QED
    BY <2>1, <2>2, OpsAndAnswers, RefuseMovesOn
<1>6. CASE UpdateWrite(r) \/ TransitionWrite(r) \/ DeleteWrite(r)
  BY <1>6, OpsAndAnswers, FinishMovesOn, ProceedMovesOn
     DEF UpdateWrite, TransitionWrite, DeleteWrite, Written
<1>7. CASE Audit(r) \/ Respond(r) \/ DatabaseError(r)
  BY <1>7, OpsAndAnswers, FinishMovesOn, ProceedMovesOn
     DEF Audit, Respond, DatabaseError, AuditFailed, AfterAudit
<1>. QED
  BY <1>1, <1>2, <1>3, <1>4, <1>5, <1>6, <1>7 DEF Serve

----------------------------------------------------------------------------
(* How the rows change *)

\* The one write a step of r can make to the rows, if any.
Inserts(r, a) ==
  rows[a].version = 0 /\ Store(a, LiveRow("draft", 1, r))

Updates(r, a) ==
  /\ phase[r] = "write" /\ input[r].op = "update" /\ a = input[r].approval
  /\ VersionMatches(rows[a], input[r].version)
  /\ Store(a, LiveRow(current[r].status, input[r].version + 1, r))

Transitions(r, a) ==
  /\ phase[r] = "write" /\ input[r].op = "transition" /\ a = input[r].approval
  /\ VersionMatches(rows[a], input[r].version)
  /\ Store(a, LiveRow(input[r].target, input[r].version + 1, current[r].fields))

Deletes(a) ==
  DeleteMatches(rows[a]) /\ Store(a, [rows[a] EXCEPT !.deleted = TRUE])

WritesRow(r, a) == Inserts(r, a) \/ Updates(r, a) \/ Transitions(r, a) \/ Deletes(a)

LEMMA RowsStep ==
  ASSUME TypeInv, [Next]_vars
  PROVE  \/ rows' = rows
         \/ \E r \in Requests, a \in Approvals : WritesRow(r, a)
<1>1. CASE UNCHANGED vars
  BY <1>1 DEF vars
<1>2. CASE Crash
  BY <1>2 DEF Crash, tables
<1>3. ASSUME NEW r \in Requests, Serve(r)
      PROVE  rows' = rows \/ \E a \in Approvals : WritesRow(r, a)
  <2>1. phase[r] = "write" => input[r].approval \in Approvals
    BY OpsAndAnswers DEF TypeInv, RequestsOK, InFlightHasInput, Input
  <2>2. CASE TurnAway(r)
    BY <2>2 DEF TurnAway, Refuse, tables
  <2>3. CASE Create(r)
    <3>1. PICK a \in Approvals, role \in Callers :
            \/ Refuse(r, "business_rule")
            \/ Refuse(r, "internal_error")
            \/ Insert(r, [op |-> "create", approval |-> a, role |-> role,
                          version |-> 1, target |-> "draft"])
      BY <2>3 DEF Create
    <3>2. rows' = rows \/ Inserts(r, a)
      BY <3>1 DEF Refuse, tables, Insert, Inserts
    <3>. QED
      BY <3>2 DEF WritesRow
  <2>4. CASE UpdateRead(r) \/ TransitionRead(r) \/ DeleteRead(r)
    BY <2>4 DEF UpdateRead, TransitionRead, DeleteRead, Refuse, Load, tables
  <2>5. CASE UpdateWrite(r)
    BY <2>1, <2>5 DEF UpdateWrite, WritesRow, Updates, tables
  <2>6. CASE TransitionWrite(r)
    <3>1. rows' = rows \/ Transitions(r, input[r].approval)
      BY <2>6 DEF TransitionWrite, Transitions, tables, LiveRow
    <3>. QED
      BY <2>1, <2>6, <3>1 DEF WritesRow, TransitionWrite
  <2>7. CASE DeleteWrite(r)
    BY <2>1, <2>7 DEF DeleteWrite, WritesRow, Deletes, tables
  <2>8. CASE Audit(r) \/ Respond(r) \/ DatabaseError(r)
    BY <2>8 DEF Audit, Respond, DatabaseError, tables
  <2>. QED
    BY <1>3, <2>2, <2>3, <2>4, <2>5, <2>6, <2>7, <2>8 DEF Serve
<1>. QED
  BY <1>1, <1>2, <1>3 DEF Next

\* Versions grow, and a row that keeps its version keeps its status and fields.
Advances(a) ==
  /\ rows'[a].version >= rows[a].version
  /\ rows'[a].version = rows[a].version =>
       rows'[a].status = rows[a].status /\ rows'[a].fields = rows[a].fields

LEMMA RowsAdvance ==
  ASSUME TypeInv, [Next]_vars, NEW b \in Approvals
  PROVE  Advances(b)
<1>1. rows \in [Approvals -> Row] /\ rows[b].version \in Nat
  BY DEF TypeInv, TablesOK, Row
<1>2. CASE rows' = rows
  BY <1>1, <1>2 DEF Advances
<1>3. ASSUME NEW r \in Requests, NEW a \in Approvals, WritesRow(r, a)
      PROVE  Advances(b)
  <2>1. CASE b # a
    BY <1>1, <1>3, <2>1 DEF WritesRow, Inserts, Updates, Transitions, Deletes, Store, Advances
  <2>2. CASE b = a /\ Inserts(r, a)
    BY <1>1, <2>2 DEF Inserts, Store, LiveRow, Advances
  <2>3. CASE b = a /\ (Updates(r, a) \/ Transitions(r, a))
    <3>1. rows'[b].version = rows[b].version + 1
      BY <1>1, <2>3 DEF Updates, Transitions, Store, LiveRow, VersionMatches
    <3>. QED
      BY <1>1, <3>1 DEF Advances
  <2>4. CASE b = a /\ Deletes(a)
    BY <1>1, <2>4 DEF Deletes, Store, Advances, Row
  <2>. QED
    BY <1>3, <2>1, <2>2, <2>3, <2>4 DEF WritesRow
<1>. QED
  BY <1>2, <1>3, RowsStep

----------------------------------------------------------------------------
(* Clients that name only versions they were shown *)

LEMMA KeptStaysFresh ==
  ASSUME TypeInv, TypeInv', NEW r \in Requests, Fresh(r),
         phase'[r] = phase[r], input'[r] = input[r], current'[r] = current[r],
         \A a \in Approvals : Advances(a)
  PROVE  Fresh(r)'
<1> SUFFICES ASSUME phase[r] = "write" PROVE Fresh(r)'
  BY DEF Fresh
<1> DEFINE a == input[r].approval
<1>1. input[r] \in Input /\ a \in Approvals
  BY DEF Fresh, Input
<1>2. /\ rows[a].version \in Nat /\ rows'[a].version \in Nat
      /\ current[r].version \in Nat /\ input[r].version \in Nat
  BY <1>1 DEF TypeInv, TablesOK, RequestsOK, Row, Input
<1>3. Advances(a)
  BY <1>1
<1>. QED
  BY <1>1, <1>2, <1>3 DEF Fresh, Advances

LEMMA LoadedIsFresh ==
  ASSUME TypeInv, NEW r \in Requests, LoadsChecked(r)
  PROVE  Fresh(r)' /\ OthersKept(r)
<1>1. PICK in \in Input :
        /\ Load(r, in)
        /\ Live(rows[in.approval])
        /\ in.version <= rows[in.approval].version
        /\ in.op = "update" => Editable(rows[in.approval].status)
        /\ in.op = "transition" =>
             /\ CanTransition(StageApprovalTransitions, rows[in.approval].status, in.target)
             /\ MayDecide(in.role, in.target)
  BY DEF LoadsChecked
<1>2. /\ phase'[r] = "write" /\ input'[r] = in /\ current'[r] = rows[in.approval]
      /\ rows' = rows
  BY <1>1 DEF Load, TypeInv, RequestsOK, tables
<1>3. rows[in.approval].version \in Nat
  BY DEF TypeInv, TablesOK, Row, Input
<1>4. Fresh(r)'
  BY <1>1, <1>2, <1>3 DEF Fresh
<1>5. OthersKept(r)
  BY <1>1 DEF OthersKept, Load, TypeInv, RequestsOK
<1>. QED
  BY <1>4, <1>5

LEMMA FreshInit == Init => ReadsAreFresh
BY DEF Init, ReadsAreFresh, Fresh

LEMMA FreshStep ==
  ASSUME AheadVersions = {}, TypeInv, ReadsAreFresh, [Next]_vars
  PROVE  ReadsAreFresh'
<1> SUFFICES ASSUME NEW q \in Requests PROVE Fresh(q)'
  BY DEF ReadsAreFresh
<1>1. TypeInv' /\ Fresh(q) /\ \A a \in Approvals : Advances(a)
  BY TypeStep, RowsAdvance DEF ReadsAreFresh
<1>2. CASE UNCHANGED vars
  BY <1>1, <1>2, KeptStaysFresh DEF vars
<1>3. CASE Crash
  BY <1>3, AnswersNotInFlight, OpsAndAnswers DEF Crash, Fresh
<1>4. ASSUME NEW r \in Requests, Serve(r), q # r
      PROVE  Fresh(q)'
  <2>1. OthersKept(r)
    BY <1>4, ServeOutcome, LoadedIsFresh DEF MovesOn
  <2>. QED
    BY <1>1, <1>4, <2>1, KeptStaysFresh DEF OthersKept
<1>5. CASE Serve(q)
  <2>1. LoadsChecked(q) \/ phase'[q] # "write"
    BY <1>5, ServeOutcome DEF MovesOn
  <2>. QED
    BY <2>1, LoadedIsFresh DEF Fresh
<1>. QED
  BY <1>2, <1>3, <1>4, <1>5 DEF Next

\* When every client sends back a version it was shown, a request that is about
\* to write and whose version still matches has read exactly the row it replaces.
THEOREM FreshReads ==
  ASSUME AheadVersions = {}
  PROVE  Spec => []ReadsAreFresh
<1>1. TypeInv /\ ReadsAreFresh /\ [Next]_vars => (TypeInv /\ ReadsAreFresh)'
  BY TypeStep, FreshStep
<1>2. Init => TypeInv /\ ReadsAreFresh
  BY TypeInit, FreshInit
<1>. QED
  BY <1>1, <1>2, PTL DEF Spec

----------------------------------------------------------------------------
(* Each write is a step of the lifecycle *)

\* A request whose version matches replaces the row it read.
LEMMA MatchMeansCurrent ==
  ASSUME TypeInv, ReadsAreFresh, NEW r \in Requests, phase[r] = "write",
         VersionMatches(rows[input[r].approval], input[r].version)
  PROVE  LET row == rows[input[r].approval] IN
         /\ input[r] \in Input /\ row \in Row
         /\ Live(row) /\ row.deleted = FALSE /\ row.version = input[r].version
         /\ row.status = current[r].status /\ row.fields = current[r].fields
         /\ input[r].op = "update" => Editable(row.status)
         /\ input[r].op = "transition" =>
              /\ CanTransition(StageApprovalTransitions, row.status, input[r].target)
              /\ MayDecide(input[r].role, input[r].target)
<1> DEFINE row == rows[input[r].approval]
<1>1. Fresh(r) /\ input[r] \in Input
  BY DEF ReadsAreFresh, Fresh
<1>2. row \in Row
  BY <1>1 DEF TypeInv, TablesOK, Input
<1>3. row.version \in Nat /\ current[r].version \in Nat /\ input[r].version \in Nat
  BY <1>1, <1>2 DEF TypeInv, RequestsOK, Row, Input
<1>4. Live(row) /\ row.version = input[r].version /\ row.deleted = FALSE
  BY <1>2 DEF VersionMatches, Live, Row
<1>5. current[r].version = row.version
  BY <1>1, <1>3, <1>4 DEF Fresh
<1>. QED
  BY <1>1, <1>2, <1>4, <1>5 DEF Fresh

LEMMA WriteIsLifecycleStep ==
  ASSUME TypeInv, ReadsAreFresh, NEW r \in Requests, NEW a \in Approvals, WritesRow(r, a)
  PROVE  L!LifecycleNext
<1>1. rows[a] \in Row /\ rows \in [Approvals -> Row]
  BY DEF TypeInv, TablesOK
<1>2. CASE Inserts(r, a)
  <2>1. L!Write(a, "draft", r)
    BY <1>2 DEF Inserts, Store, LiveRow, L!Write
  <2>2. [b \in Approvals |-> "draft"][a] = "draft" /\ r \in Contents
    BY DEF Contents
  <2>3. L!Register(a)
    BY <1>2, <2>1, <2>2 DEF Inserts, L!Register
  <2>. QED
    BY <2>3 DEF L!LifecycleNext
<1>3. CASE Updates(r, a)
  <2>1. /\ Live(rows[a]) /\ rows[a].version = input[r].version
        /\ rows[a].status = current[r].status /\ rows[a].status = "draft"
    BY <1>3, MatchMeansCurrent DEF Updates, Editable
  <2>2. L!Write(a, rows[a].status, r)
    BY <1>3, <2>1 DEF Updates, Store, LiveRow, L!Write
  <2>3. rows[a].status \in [b \in Approvals |-> {"draft"}][a] /\ r \in Contents
    BY <2>1 DEF Contents
  <2>4. L!Edit(a)
    BY <2>1, <2>2, <2>3 DEF L!Edit, L!Live, L!Stored, Live
  <2>. QED
    BY <2>4 DEF L!LifecycleNext
<1>4. CASE Transitions(r, a)
  <2>1. /\ Live(rows[a]) /\ rows[a].version = input[r].version
        /\ rows[a].fields = current[r].fields
        /\ CanTransition(StageApprovalTransitions, rows[a].status, input[r].target)
    BY <1>4, MatchMeansCurrent DEF Transitions
  <2>2. L!Write(a, input[r].target, rows[a].fields)
    BY <1>4, <2>1 DEF Transitions, Store, LiveRow, L!Write
  <2>3. input[r].target \in DOMAIN StageApprovalTransitions
    BY <2>1, EdgeLemma, StatesLemma
  <2>4. [b \in Approvals |-> StageApprovalTransitions][a] = StageApprovalTransitions
    OBVIOUS
  <2>5. /\ input[r].target \in DOMAIN [b \in Approvals |-> StageApprovalTransitions][a]
        /\ L!CanTransition([b \in Approvals |-> StageApprovalTransitions][a],
                           rows[a].status, input[r].target)
    BY <2>1, <2>3, <2>4 DEF CanTransition, L!CanTransition
  <2>6. L!Live(rows[a])
    BY <2>1 DEF L!Live, L!Stored, Live
  <2>7. L!Move(a)
    BY <2>2, <2>5, <2>6 DEF L!Move
  <2>. QED
    BY <2>7 DEF L!LifecycleNext
<1>5. CASE Deletes(a)
  <2>1. L!Remove(a)
    BY <1>1, <1>5 DEF Deletes, DeleteMatches, Store, L!Remove, L!Live, L!Stored, Live
  <2>. QED
    BY <2>1 DEF L!LifecycleNext
<1>. QED
  BY <1>2, <1>3, <1>4, <1>5 DEF WritesRow

LEMMA StepIsLifecycleStep ==
  ASSUME TypeInv, ReadsAreFresh, [Next]_vars
  PROVE  [L!LifecycleNext]_rows
BY RowsStep, WriteIsLifecycleStep

LEMMA InitIsLifecycleInit == Init => L!LifecycleInit
<1> SUFFICES ASSUME Init, NEW a \in Approvals
             PROVE  \/ ~L!Stored(rows[a])
                    \/ /\ L!Live(rows[a])
                       /\ rows[a].version = 1
                       /\ rows[a].status \in DOMAIN StageApprovalTransitions
  BY DEF L!LifecycleInit
<1>1. rows[a] \in {NoRow} \union Seeds
  BY DEF Init
<1>. QED
  BY <1>1, StatesLemma DEF Seeds, NoRow, LiveRow, L!Stored, L!Live

\* Whatever the interleaving, the failures and the crashes, the approvals follow
\* the lifecycle: nothing is lost, skipped, edited after review began, or changed
\* once deleted.
THEOREM ApprovalsFollowTheLifecycle ==
  ASSUME AheadVersions = {}
  PROVE  Spec => RefinesLifecycle
<1>1. Spec => [](TypeInv /\ ReadsAreFresh)
  <2>1. TypeInv /\ ReadsAreFresh /\ [Next]_vars => (TypeInv /\ ReadsAreFresh)'
    BY TypeStep, FreshStep
  <2>2. Init => TypeInv /\ ReadsAreFresh
    BY TypeInit, FreshInit
  <2>. QED
    BY <2>1, <2>2, PTL DEF Spec
<1>2. TypeInv /\ ReadsAreFresh /\ [Next]_vars => [L!LifecycleNext]_rows
  BY StepIsLifecycleStep
<1>. QED
  BY <1>1, <1>2, InitIsLifecycleInit, PTL DEF Spec, RefinesLifecycle, L!LifecycleSpec

----------------------------------------------------------------------------
(* An approval that was approved *)

KeepsApproved(a) ==
  Live(rows[a]) /\ rows[a].status = "approved" =>
    rows'[a] \in {rows[a], [rows[a] EXCEPT !.deleted = TRUE]}

LEMMA ApprovedStep ==
  ASSUME TypeInv, ReadsAreFresh, [Next]_vars, NEW b \in Approvals
  PROVE  KeepsApproved(b)
<1>1. rows \in [Approvals -> Row]
  BY DEF TypeInv, TablesOK
<1>2. CASE rows' = rows
  BY <1>2 DEF KeepsApproved
<1>3. ASSUME NEW r \in Requests, NEW a \in Approvals, WritesRow(r, a)
      PROVE  KeepsApproved(b)
  <2>1. CASE a # b
    BY <1>1, <1>3, <2>1
       DEF WritesRow, Inserts, Updates, Transitions, Deletes, Store, KeepsApproved
  <2>2. CASE a = b /\ Inserts(r, a)
    BY <1>1, <2>2 DEF Inserts, KeepsApproved, Live, Row
  <2>3. CASE a = b /\ Updates(r, a)
    BY <2>3, MatchMeansCurrent DEF Updates, Editable, KeepsApproved
  <2>4. CASE a = b /\ Transitions(r, a)
    <3>1. phase[r] = "write" /\ input[r].op = "transition" /\ b = input[r].approval
          /\ VersionMatches(rows[b], input[r].version)
      BY <2>4 DEF Transitions
    <3>2. CanTransition(StageApprovalTransitions, rows[b].status, input[r].target)
      BY <3>1, MatchMeansCurrent
    <3>. QED
      BY <3>2, EdgeLemma DEF KeepsApproved
  <2>5. CASE a = b /\ Deletes(a)
    BY <1>1, <2>5 DEF Deletes, Store, KeepsApproved
  <2>. QED
    BY <1>3, <2>1, <2>2, <2>3, <2>4, <2>5 DEF WritesRow
<1>. QED
  BY <1>2, <1>3, RowsStep

\* No request in flight, however old its read, changes an approval after it was
\* approved, except by deleting it.
THEOREM ApprovedStaysApproved ==
  ASSUME AheadVersions = {}
  PROVE  Spec => ApprovedIsFinal
<1>1. TypeInv /\ ReadsAreFresh /\ [Next]_vars => (TypeInv /\ ReadsAreFresh)'
  BY TypeStep, FreshStep
<1>2. Init => TypeInv /\ ReadsAreFresh
  BY TypeInit, FreshInit
<1>3. TypeInv /\ ReadsAreFresh /\ [Next]_vars =>
        [\A a \in Approvals :
           Live(rows[a]) /\ rows[a].status = "approved" =>
             rows'[a] \in {rows[a], [rows[a] EXCEPT !.deleted = TRUE]}]_vars
  BY ApprovedStep DEF KeepsApproved
<1>. QED
  BY <1>1, <1>2, <1>3, PTL DEF Spec, ApprovedIsFinal
=============================================================================
