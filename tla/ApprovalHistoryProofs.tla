------------------------ MODULE ApprovalHistoryProofs ------------------------
(***************************************************************************)
(* Theorems about what the tables of StageApproval say of the past: when   *)
(* clients name only versions they were shown, who decided, what the audit *)
(* log tells, and that rows and opinions agree (these rest on the          *)
(* freshness of reads proved in StageApprovalProofs); whatever versions    *)
(* clients name, one writer per version, who decides, and what an answer   *)
(* lets the client conclude.                                               *)
(***************************************************************************)
EXTENDS StageApprovalProofs, FiniteSetTheorems

----------------------------------------------------------------------------
(* How the history grows *)

Commits(r, in, from, to, version) ==
  commits' = commits \union
    {[request |-> r, op |-> in.op, approval |-> in.approval, role |-> in.role,
      version |-> version, from |-> from, to |-> to]}

\* What a write of r records, by operation.
CommitsUpdate(r) ==
  LET row == rows[input[r].approval] IN
  /\ phase[r] = "write" /\ input[r].op = "update"
  /\ VersionMatches(row, input[r].version)
  /\ Commits(r, input[r], row.status, current[r].status, input[r].version + 1)

CommitsTransition(r) ==
  LET row == rows[input[r].approval] IN
  /\ phase[r] = "write" /\ input[r].op = "transition"
  /\ VersionMatches(row, input[r].version)
  /\ Commits(r, input[r], row.status, input[r].target, input[r].version + 1)

CommitsDelete(r) ==
  LET row == rows[input[r].approval] IN
  /\ phase[r] = "write" /\ input[r].op = "delete"
  /\ Commits(r, input[r], row.status, "deleted", row.version)

\* The end of a step of r that is not a write.
CommitsNothing(r) == commits' = commits /\ phase'[r] # "audit"

LEMMA NonWritesCommitNothing ==
  ASSUME TypeInv, NEW r \in Requests,
         \/ TurnAway(r) \/ UpdateRead(r) \/ TransitionRead(r) \/ DeleteRead(r)
         \/ Audit(r) \/ Respond(r) \/ DatabaseError(r)
  PROVE  CommitsNothing(r)
<1>1. ASSUME NEW answer \in Answers, Refuse(r, answer) \/ Finish(r, answer)
      PROVE  phase'[r] # "audit"
  BY <1>1, AnswersNotInFlight DEF Refuse, Finish, TypeInv, RequestsOK, InFlight
<1>2. CASE TurnAway(r) \/ UpdateRead(r) \/ TransitionRead(r) \/ DeleteRead(r)
  <2>1. \/ \E answer \in Answers : Refuse(r, answer)
        \/ \E in : Load(r, in)
    BY <1>2, OpsAndAnswers DEF TurnAway, UpdateRead, TransitionRead, DeleteRead
  <2>. QED
    BY <1>1, <2>1 DEF Refuse, Load, tables, CommitsNothing, TypeInv, RequestsOK
<1>3. CASE Audit(r) \/ Respond(r) \/ DatabaseError(r)
  <2>1. \/ \E answer \in Answers : Finish(r, answer)
        \/ Proceed(r, "reply")
    BY <1>3, OpsAndAnswers DEF Audit, Respond, DatabaseError, AuditFailed, AfterAudit
  <2>2. commits' = commits
    BY <1>3 DEF Audit, Respond, DatabaseError, tables
  <2>. QED
    BY <1>1, <2>1, <2>2 DEF Proceed, CommitsNothing, TypeInv, RequestsOK
<1>. QED
  BY <1>2, <1>3

----------------------------------------------------------------------------
(* Audit entries *)

Explains(c, r) ==
  /\ c.request = r /\ c.op = input[r].op /\ c.approval = input[r].approval
  /\ c.to = AuditAfter(r)
  /\ input[r].op # "delete" => c.from = AuditBefore(r)

\* A request about to write its audit entry has made the write it will report.
AuditDue(r) == phase[r] = "audit" => \E c \in commits : Explains(c, r)

AuditsAreDue == \A r \in Requests : AuditDue(r)

LEMMA DueWhenKept ==
  ASSUME NEW r \in Requests, AuditDue(r), commits \subseteq commits',
         phase'[r] = phase[r], input'[r] = input[r], current'[r] = current[r]
  PROVE  AuditDue(r)'
BY DEF AuditDue, Explains, AuditAfter, AuditBefore

LEMMA WrittenGoesOn ==
  ASSUME TypeInv, NEW r \in Requests, Written(r), phase'[r] = "audit"
  PROVE  input'[r] = input[r] /\ current'[r] = current[r]
BY DEF Written, Proceed, Finish, TypeInv, RequestsOK

LEMMA CreateIsDue ==
  ASSUME TypeInv, NEW r \in Requests, Create(r)
  PROVE  AuditDue(r)' /\ commits \subseteq commits'
<1>1. PICK a \in Approvals, role \in Callers :
        \/ Refuse(r, "business_rule")
        \/ Refuse(r, "internal_error")
        \/ Insert(r, [op |-> "create", approval |-> a, role |-> role,
                      version |-> 1, target |-> "draft"])
  BY DEF Create
<1>2. ASSUME NEW answer \in Answers, Refuse(r, answer)
      PROVE  phase'[r] # "audit" /\ commits' = commits
  BY <1>2, AnswersNotInFlight DEF Refuse, tables, TypeInv, RequestsOK, InFlight
<1> DEFINE in == [op |-> "create", approval |-> a, role |-> role,
                  version |-> 1, target |-> "draft"]
<1>3. ASSUME Insert(r, in), phase'[r] = "audit"
      PROVE  \E c \in commits' : Explains(c, r)'
  <2> DEFINE c == [request |-> r, op |-> in.op, approval |-> in.approval,
                   role |-> in.role, version |-> 1, from |-> "", to |-> "draft"]
  <2>1. c \in commits'
    BY <1>3 DEF Insert, Record
  <2>2. input'[r] = in
    BY <1>3 DEF Insert, TypeInv, RequestsOK
  <2>3. AuditAfter(r)' = "draft" /\ AuditBefore(r)' = ""
    BY <2>2 DEF AuditAfter, AuditBefore
  <2>. QED
    BY <2>1, <2>2, <2>3 DEF Explains
<1>4. Insert(r, in) => commits \subseteq commits'
  BY DEF Insert, Record
<1>. QED
  BY <1>1, <1>2, <1>3, <1>4, OpsAndAnswers DEF AuditDue

LEMMA WriteCommits ==
  ASSUME TypeInv, NEW r \in Requests,
         UpdateWrite(r) \/ TransitionWrite(r) \/ DeleteWrite(r)
  PROVE  \/ CommitsNothing(r)
         \/ Written(r) /\ (CommitsUpdate(r) \/ CommitsTransition(r) \/ CommitsDelete(r))
<1>1. ASSUME NEW answer \in Answers, Finish(r, answer), UNCHANGED tables
      PROVE  CommitsNothing(r)
  BY <1>1, AnswersNotInFlight
     DEF Finish, tables, TypeInv, RequestsOK, InFlight, CommitsNothing
<1>2. CASE UpdateWrite(r)
  BY <1>1, <1>2, OpsAndAnswers DEF UpdateWrite, Record, CommitsUpdate, Commits, LiveRow
<1>3. CASE TransitionWrite(r)
  BY <1>1, <1>3, OpsAndAnswers
     DEF TransitionWrite, Record, CommitsTransition, Commits, LiveRow
<1>4. CASE DeleteWrite(r)
  BY <1>1, <1>4, OpsAndAnswers DEF DeleteWrite, Record, CommitsDelete, Commits
<1>. QED
  BY <1>2, <1>3, <1>4

LEMMA WriteIsDue ==
  ASSUME TypeInv, ReadsAreFresh, NEW r \in Requests,
         UpdateWrite(r) \/ TransitionWrite(r) \/ DeleteWrite(r)
  PROVE  AuditDue(r)' /\ commits \subseteq commits'
<1> DEFINE row == rows[input[r].approval]
<1>1. CASE CommitsNothing(r)
  BY <1>1 DEF CommitsNothing, AuditDue
<1>2. ASSUME NEW from, NEW to, NEW version, Written(r), phase'[r] = "audit",
             Commits(r, input[r], from, to, version),
             to = AuditAfter(r), input[r].op # "delete" => from = AuditBefore(r)
      PROVE  \E c \in commits' : Explains(c, r)'
  <2> DEFINE c == [request |-> r, op |-> input[r].op, approval |-> input[r].approval,
                   role |-> input[r].role, version |-> version, from |-> from, to |-> to]
  <2>1. c \in commits'
    BY <1>2 DEF Commits
  <2>2. input'[r] = input[r] /\ current'[r] = current[r]
    BY <1>2, WrittenGoesOn
  <2>3. AuditAfter(r)' = AuditAfter(r) /\ AuditBefore(r)' = AuditBefore(r)
    BY <2>2 DEF AuditAfter, AuditBefore
  <2>. QED
    BY <1>2, <2>1, <2>2, <2>3 DEF Explains
<1>3. ASSUME Written(r), CommitsUpdate(r)
      PROVE  AuditDue(r)' /\ commits \subseteq commits'
  <2>1. row.status = current[r].status
    BY <1>3, MatchMeansCurrent DEF CommitsUpdate
  <2>2. AuditAfter(r) = current[r].status /\ AuditBefore(r) = current[r].status
    BY <1>3 DEF CommitsUpdate, AuditAfter, AuditBefore
  <2>. QED
    BY <1>2, <1>3, <2>1, <2>2 DEF CommitsUpdate, AuditDue, Commits
<1>4. ASSUME Written(r), CommitsTransition(r)
      PROVE  AuditDue(r)' /\ commits \subseteq commits'
  <2>1. row.status = current[r].status
    BY <1>4, MatchMeansCurrent DEF CommitsTransition
  <2>2. AuditAfter(r) = input[r].target /\ AuditBefore(r) = current[r].status
    BY <1>4 DEF CommitsTransition, AuditAfter, AuditBefore
  <2>. QED
    BY <1>2, <1>4, <2>1, <2>2 DEF CommitsTransition, AuditDue, Commits
<1>5. ASSUME Written(r), CommitsDelete(r)
      PROVE  AuditDue(r)' /\ commits \subseteq commits'
  <2>1. AuditAfter(r) = "deleted"
    BY <1>5 DEF CommitsDelete, AuditAfter
  <2>. QED
    BY <1>2, <1>5, <2>1 DEF CommitsDelete, AuditDue, Commits
<1>. QED
  BY <1>1, <1>3, <1>4, <1>5, WriteCommits

LEMMA ServeIsDue ==
  ASSUME TypeInv, ReadsAreFresh, NEW r \in Requests, Serve(r)
  PROVE  AuditDue(r)' /\ commits \subseteq commits'
BY CreateIsDue, WriteIsDue, NonWritesCommitNothing DEF Serve, CommitsNothing, AuditDue

LEMMA CommitsGrow ==
  ASSUME TypeInv, ReadsAreFresh, [Next]_vars
  PROVE  commits \subseteq commits'
BY ServeIsDue DEF Next, vars, Crash, tables

LEMMA DueStep ==
  ASSUME AheadVersions = {}, TypeInv, ReadsAreFresh, AuditsAreDue, [Next]_vars
  PROVE  AuditsAreDue'
<1> SUFFICES ASSUME NEW q \in Requests PROVE AuditDue(q)'
  BY DEF AuditsAreDue
<1>1. AuditDue(q) /\ commits \subseteq commits'
  BY CommitsGrow DEF AuditsAreDue
<1>2. CASE UNCHANGED vars
  BY <1>1, <1>2, DueWhenKept DEF vars
<1>3. CASE Crash
  BY <1>3, OpsAndAnswers DEF Crash, AuditDue
<1>4. ASSUME NEW r \in Requests, Serve(r), q # r
      PROVE  AuditDue(q)'
  <2>1. OthersKept(r)
    BY <1>4, ServeOutcome, LoadedIsFresh DEF MovesOn
  <2>. QED
    BY <1>1, <1>4, <2>1, DueWhenKept DEF OthersKept
<1>5. CASE Serve(q)
  BY <1>5, ServeIsDue
<1>. QED
  BY <1>2, <1>3, <1>4, <1>5 DEF Next

----------------------------------------------------------------------------
(* The two theorems *)

LEMMA AuditsStep ==
  ASSUME TypeInv, ReadsAreFresh, AuditsAreDue, AuditsAreTrue, [Next]_vars
  PROVE  AuditsAreTrue'
<1> SUFFICES ASSUME NEW e \in audits'
             PROVE  \E c \in commits' :
                      /\ c.request = e.request /\ c.op = e.action
                      /\ c.approval = e.approval /\ c.to = e.after
                      /\ e.action # "delete" => c.from = e.before
  BY DEF AuditsAreTrue
<1>1. commits \subseteq commits'
  BY CommitsGrow
<1>2. CASE e \in audits
  BY <1>1, <1>2 DEF AuditsAreTrue
<1>3. ASSUME NEW r \in Requests, Audit(r), e \notin audits
      PROVE  \E c \in commits' :
               /\ c.request = e.request /\ c.op = e.action
               /\ c.approval = e.approval /\ c.to = e.after
               /\ e.action # "delete" => c.from = e.before
  <2>1. e = [request |-> r, action |-> input[r].op, approval |-> input[r].approval,
             before |-> AuditBefore(r), after |-> AuditAfter(r)]
    BY <1>3 DEF Audit
  <2>2. PICK c \in commits : Explains(c, r)
    BY <1>3 DEF Audit, AuditsAreDue, AuditDue
  <2>. QED
    BY <1>1, <2>1, <2>2 DEF Explains
<1>4. ASSUME NEW r \in Requests, Serve(r), ~Audit(r)
      PROVE  audits' = audits
  <2>1. CASE TurnAway(r) \/ Create(r)
    BY <2>1 DEF TurnAway, Create, Refuse, Insert, tables
  <2>2. CASE UpdateRead(r) \/ TransitionRead(r) \/ DeleteRead(r)
    BY <2>2 DEF UpdateRead, TransitionRead, DeleteRead, Refuse, Load, tables
  <2>3. CASE UpdateWrite(r) \/ TransitionWrite(r) \/ DeleteWrite(r)
    BY <2>3 DEF UpdateWrite, TransitionWrite, DeleteWrite, tables
  <2>4. CASE Respond(r) \/ DatabaseError(r)
    BY <2>4 DEF Respond, DatabaseError, tables
  <2>. QED
    BY <1>4, <2>1, <2>2, <2>3, <2>4 DEF Serve
<1>5. CASE UNCHANGED vars \/ Crash
  BY <1>2, <1>5 DEF vars, Crash, tables
<1>. QED
  BY <1>2, <1>3, <1>4, <1>5 DEF Next

\* When every client sends back a version it was shown, whatever fails or overlaps,
\* an entry of the audit log is about a write that happened and names the statuses
\* it moved between (the entry of a delete: the status it moved to).
THEOREM AuditsTellTheTruth ==
  ASSUME AheadVersions = {}
  PROVE  Spec => []AuditsAreTrue
<1> DEFINE Inv == TypeInv /\ ReadsAreFresh /\ AuditsAreDue /\ AuditsAreTrue
<1>1. Init => Inv
  BY TypeInit, FreshInit DEF Init, AuditsAreDue, AuditDue, AuditsAreTrue
<1>2. Inv /\ [Next]_vars => Inv'
  BY TypeStep, FreshStep, DueStep, AuditsStep
<1>. QED
  BY <1>1, <1>2, PTL DEF Spec

LEMMA DecisionsStep ==
  ASSUME TypeInv, ReadsAreFresh, DecisionsAreReviewed, [Next]_vars
  PROVE  DecisionsAreReviewed'
<1> DEFINE Reviewed(c) ==
      c.op = "transition" /\ c.to \in Decisions => c.role \in Reviewers /\ c.from = "review"
<1> SUFFICES ASSUME NEW c \in commits' PROVE Reviewed(c)
  BY DEF DecisionsAreReviewed
<1>1. CASE c \in commits
  BY <1>1 DEF DecisionsAreReviewed
<1>2. ASSUME NEW r \in Requests, CommitsTransition(r), c \notin commits
      PROVE  Reviewed(c)
  <2>1. /\ c.from = rows[input[r].approval].status
        /\ c.to = input[r].target /\ c.role = input[r].role
    BY <1>2 DEF CommitsTransition, Commits
  <2>2. /\ CanTransition(StageApprovalTransitions, c.from, c.to)
        /\ MayDecide(c.role, c.to)
    BY <1>2, <2>1, MatchMeansCurrent DEF CommitsTransition
  <2>. QED
    BY <2>2, EdgeLemma DEF MayDecide, Reviewers
<1>3. ASSUME NEW r \in Requests, CommitsUpdate(r) \/ CommitsDelete(r), c \notin commits
      PROVE  Reviewed(c)
  BY <1>3 DEF CommitsUpdate, CommitsDelete, Commits
<1>4. ASSUME NEW r \in Requests, Create(r), c \notin commits
      PROVE  Reviewed(c)
  <2>1. PICK a \in Approvals, role \in Callers :
          Insert(r, [op |-> "create", approval |-> a, role |-> role,
                     version |-> 1, target |-> "draft"])
    BY <1>4 DEF Create, Refuse, tables
  <2>2. commits' = commits \union
          {[request |-> r, op |-> "create", approval |-> a, role |-> role,
            version |-> 1, from |-> "", to |-> "draft"]}
    BY <2>1 DEF Insert, Record
  <2>3. c = [request |-> r, op |-> "create", approval |-> a, role |-> role,
             version |-> 1, from |-> "", to |-> "draft"]
    BY <1>4, <2>2
  <2>. QED
    BY <2>3
<1>5. ASSUME NEW r \in Requests, Serve(r), c \notin commits
      PROVE  Reviewed(c)
  BY <1>2, <1>3, <1>4, <1>5, WriteCommits, NonWritesCommitNothing DEF Serve, CommitsNothing
<1>. QED
  BY <1>1, <1>5 DEF Next, vars, Crash, tables

\* When every client sends back a version it was shown, an approval is approved or
\* rejected by a reviewer or an administrator only, and only out of review.
THEOREM ReviewersDecide ==
  ASSUME AheadVersions = {}
  PROVE  Spec => []DecisionsAreReviewed
<1> DEFINE Inv == TypeInv /\ ReadsAreFresh /\ DecisionsAreReviewed
<1>1. Init => Inv
  BY TypeInit, FreshInit DEF Init, DecisionsAreReviewed
<1>2. Inv /\ [Next]_vars => Inv'
  BY TypeStep, FreshStep, DecisionsStep
<1>. QED
  BY <1>1, <1>2, PTL DEF Spec

----------------------------------------------------------------------------
(* Rows and commits change together *)

\* One committed write of r.
Stores(r, in, row, from, to) ==
  /\ Store(in.approval, row)
  /\ Commits(r, in, from, to, row.version)

StoresCreate(r, in) ==
  /\ phase[r] = "idle" /\ in.op = "create" /\ rows[in.approval].version = 0
  /\ Stores(r, in, LiveRow("draft", 1, r), "", "draft")

StoresUpdate(r) ==
  LET in == input[r] IN
  /\ phase[r] = "write" /\ in.op = "update"
  /\ VersionMatches(rows[in.approval], in.version)
  /\ Stores(r, in, LiveRow(current[r].status, in.version + 1, r),
            rows[in.approval].status, current[r].status)

StoresTransition(r) ==
  LET in == input[r] IN
  /\ phase[r] = "write" /\ in.op = "transition"
  /\ VersionMatches(rows[in.approval], in.version)
  /\ Stores(r, in, LiveRow(in.target, in.version + 1, current[r].fields),
            rows[in.approval].status, in.target)

StoresDelete(r) ==
  LET in == input[r] IN
  /\ phase[r] = "write" /\ in.op = "delete" /\ DeleteMatches(rows[in.approval])
  /\ Stores(r, in, [rows[in.approval] EXCEPT !.deleted = TRUE],
            rows[in.approval].status, "deleted")

StoresNothing == rows' = rows /\ commits' = commits

LEMMA ServeStores ==
  ASSUME TypeInv, NEW r \in Requests, Serve(r)
  PROVE  \/ StoresNothing
         \/ \E in \in Input : StoresCreate(r, in)
         \/ StoresUpdate(r) \/ StoresTransition(r) \/ StoresDelete(r)
<1>1. CASE TurnAway(r) \/ UpdateRead(r) \/ TransitionRead(r) \/ DeleteRead(r)
  BY <1>1 DEF TurnAway, UpdateRead, TransitionRead, DeleteRead, Refuse, Load, tables,
              StoresNothing
<1>2. CASE Create(r)
  <2>1. PICK a \in Approvals, role \in Callers :
          \/ Refuse(r, "business_rule")
          \/ Refuse(r, "internal_error")
          \/ Insert(r, [op |-> "create", approval |-> a, role |-> role,
                        version |-> 1, target |-> "draft"])
    BY <1>2 DEF Create
  <2> DEFINE in == [op |-> "create", approval |-> a, role |-> role,
                    version |-> 1, target |-> "draft"]
  <2>2. in \in Input /\ in.op = "create"
    BY StatesLemma, OpsAndAnswers DEF Input
  <2> HIDE DEF in
  <2>3. Insert(r, in) => StoresCreate(r, in)
    BY <1>2, <2>2 DEF Create, Insert, StoresCreate, Stores, Record, Commits, LiveRow
  <2>. QED
    BY <2>1, <2>2, <2>3 DEF Refuse, tables, StoresNothing, in
<1>3. CASE UpdateWrite(r)
  BY <1>3 DEF UpdateWrite, Record, StoresUpdate, Stores, Commits, LiveRow, tables, StoresNothing
<1>4. CASE TransitionWrite(r)
  BY <1>4 DEF TransitionWrite, Record, StoresTransition, Stores, Commits, LiveRow, tables,
              StoresNothing
<1>5. CASE DeleteWrite(r)
  <2>1. input[r].approval \in Approvals /\ rows[input[r].approval] \in Row
    BY <1>5, OpsAndAnswers
       DEF DeleteWrite, TypeInv, TablesOK, RequestsOK, InFlightHasInput, Input
  <2>. QED
    BY <1>5, <2>1 DEF DeleteWrite, Record, StoresDelete, Stores, Commits, tables,
                      StoresNothing, Row
<1>6. CASE Audit(r) \/ Respond(r) \/ DatabaseError(r)
  BY <1>6 DEF Audit, Respond, DatabaseError, tables, StoresNothing
<1>. QED
  BY <1>1, <1>2, <1>3, <1>4, <1>5, <1>6 DEF Serve

LEMMA NextStores ==
  ASSUME TypeInv, [Next]_vars
  PROVE  \/ StoresNothing
         \/ \E r \in Requests :
              \/ \E in \in Input : StoresCreate(r, in)
              \/ StoresUpdate(r) \/ StoresTransition(r) \/ StoresDelete(r)
BY ServeStores DEF Next, vars, Crash, tables, StoresNothing

\* Who is about to write has sent a request, about an approval with a stored row.
LEMMA WriterTypes ==
  ASSUME TypeInv, NEW r \in Requests, phase[r] = "write"
  PROVE  /\ input[r] \in Input /\ input[r].approval \in Approvals
         /\ input[r].version \in Nat
         /\ rows[input[r].approval] \in Row /\ rows[input[r].approval].version \in Nat
         /\ current[r] \in Row
BY OpsAndAnswers DEF TypeInv, TablesOK, RequestsOK, InFlightHasInput, Input, Row

----------------------------------------------------------------------------
(* One writer per version *)

\* Versions start at one and have no gap: a commit is of a version the row has had,
\* and each version after the first has one update or transition behind it.
CommitsAreOfThePast ==
  \A c \in commits : c.version \in 1 .. rows[c.approval].version

EachVersionHasAWriter ==
  \A a \in Approvals : \A v \in 2 .. rows[a].version : \E c \in commits : Writers(a, v) = {c}

VersionsInv == CommitsAreOfThePast /\ EachVersionHasAWriter

\* What a write does to the version: the next one, by an update or a transition, or
\* none after the first.
Raises(in, row) ==
  /\ in.op \in {"update", "transition"}
  /\ row.version = rows[in.approval].version + 1

KeepsVersion(in, row) ==
  /\ in.op \in {"create", "delete"}
  /\ \/ rows[in.approval].version = 0 /\ row.version = 1
     \/ rows[in.approval].version > 0 /\ row.version = rows[in.approval].version

LEMMA WritesRaiseOrKeep ==
  ASSUME TypeInv, NEW r \in Requests
  PROVE  /\ \A in \in Input : StoresCreate(r, in) =>
              KeepsVersion(in, LiveRow("draft", 1, r))
         /\ StoresUpdate(r) =>
              Raises(input[r], LiveRow(current[r].status, input[r].version + 1, r))
         /\ StoresTransition(r) =>
              Raises(input[r], LiveRow(input[r].target, input[r].version + 1, current[r].fields))
         /\ StoresDelete(r) =>
              KeepsVersion(input[r], [rows[input[r].approval] EXCEPT !.deleted = TRUE])
<1>1. \A in \in Input : StoresCreate(r, in) => KeepsVersion(in, LiveRow("draft", 1, r))
  BY DEF StoresCreate, KeepsVersion, LiveRow
<1>2. ASSUME StoresDelete(r)
      PROVE  KeepsVersion(input[r], [rows[input[r].approval] EXCEPT !.deleted = TRUE])
  <2>1. rows[input[r].approval] \in Row
    BY <1>2, WriterTypes DEF StoresDelete
  <2>2. [rows[input[r].approval] EXCEPT !.deleted = TRUE].version
          = rows[input[r].approval].version
    BY <2>1 DEF Row
  <2>. QED
    BY <1>2, <2>2 DEF StoresDelete, KeepsVersion, DeleteMatches, Live
<1>3. ASSUME NEW status, NEW fields, phase[r] = "write",
             VersionMatches(rows[input[r].approval], input[r].version)
      PROVE  LiveRow(status, input[r].version + 1, fields).version
               = rows[input[r].approval].version + 1
  BY <1>3 DEF VersionMatches, LiveRow
<1>. QED
  BY <1>1, <1>2, <1>3 DEF StoresUpdate, StoresTransition, Raises

LEMMA RaisingKeepsVersions ==
  ASSUME TypeInv, VersionsInv, NEW r \in Requests, NEW in \in Input, NEW row, NEW from, NEW to,
         Stores(r, in, row, from, to), Raises(in, row)
  PROVE  VersionsInv'
<1> DEFINE a == in.approval
           n == [request |-> r, op |-> in.op, approval |-> a, role |-> in.role,
                 version |-> row.version, from |-> from, to |-> to]
<1>1. /\ a \in Approvals /\ \A b \in Approvals : rows[b].version \in Nat
      /\ \A c \in commits : c.approval \in Approvals /\ c.version \in Nat
  BY DEF TypeInv, TablesOK, Row, Input, Commit
<1>2. /\ rows'[a] = row /\ \A b \in Approvals \ {a} : rows'[b] = rows[b]
      /\ row.version = rows[a].version + 1
  BY <1>1 DEF Stores, Store, Raises, TypeInv, TablesOK
<1>3. commits' = commits \union {n}
  BY DEF Stores, Commits
<1>4. n.approval = a /\ n.version = row.version /\ n.op \in {"update", "transition"}
  BY DEF Raises
<1> HIDE DEF n
<1>5. CommitsAreOfThePast'
  BY <1>1, <1>2, <1>3, <1>4 DEF VersionsInv, CommitsAreOfThePast
<1>6. ASSUME NEW b \in Approvals, NEW v \in 2 .. rows'[b].version
      PROVE  \E c \in commits' : Writers(b, v)' = {c}
  <2>1. CASE b = a /\ v = row.version
    <3>1. Writers(a, v)' = {n}
      BY <1>1, <1>2, <1>3, <1>4, <2>1 DEF Writers, VersionsInv, CommitsAreOfThePast
    <3>. QED
      BY <1>3, <2>1, <3>1
  <2>2. CASE ~(b = a /\ v = row.version)
    <3>1. v \in 2 .. rows[b].version
      BY <1>1, <1>2, <2>2
    <3>2. Writers(b, v)' = Writers(b, v)
      BY <1>3, <1>4, <2>2 DEF Writers
    <3>. QED
      BY <1>3, <3>1, <3>2 DEF VersionsInv, EachVersionHasAWriter
  <2>. QED
    BY <2>1, <2>2
<1>. QED
  BY <1>5, <1>6 DEF VersionsInv, EachVersionHasAWriter

LEMMA KeepingKeepsVersions ==
  ASSUME TypeInv, VersionsInv, NEW r \in Requests, NEW in \in Input, NEW row, NEW from, NEW to,
         Stores(r, in, row, from, to), KeepsVersion(in, row)
  PROVE  VersionsInv'
<1> DEFINE a == in.approval
           n == [request |-> r, op |-> in.op, approval |-> a, role |-> in.role,
                 version |-> row.version, from |-> from, to |-> to]
<1>1. /\ a \in Approvals /\ \A b \in Approvals : rows[b].version \in Nat
      /\ \A c \in commits : c.approval \in Approvals /\ c.version \in Nat
  BY DEF TypeInv, TablesOK, Row, Input, Commit
<1>2. /\ rows'[a] = row /\ \A b \in Approvals \ {a} : rows'[b] = rows[b]
      /\ \/ rows[a].version = 0 /\ row.version = 1
         \/ rows[a].version > 0 /\ row.version = rows[a].version
  BY <1>1 DEF Stores, Store, KeepsVersion, TypeInv, TablesOK
<1>3. commits' = commits \union {n}
  BY DEF Stores, Commits
<1>4. n.approval = a /\ n.version = row.version /\ n.op \in {"create", "delete"}
  BY DEF KeepsVersion
<1> HIDE DEF n
<1>5. CommitsAreOfThePast'
  BY <1>1, <1>2, <1>3, <1>4 DEF VersionsInv, CommitsAreOfThePast
<1>6. ASSUME NEW b \in Approvals, NEW v \in 2 .. rows'[b].version
      PROVE  \E c \in commits' : Writers(b, v)' = {c}
  <2>1. v \in 2 .. rows[b].version
    BY <1>1, <1>2
  <2>2. Writers(b, v)' = Writers(b, v)
    BY <1>3, <1>4 DEF Writers
  <2>. QED
    BY <1>3, <2>1, <2>2 DEF VersionsInv, EachVersionHasAWriter
<1>. QED
  BY <1>5, <1>6 DEF VersionsInv, EachVersionHasAWriter

LEMMA VersionsInit == Init => VersionsInv
<1> SUFFICES ASSUME Init PROVE VersionsInv
  OBVIOUS
<1>1. \A a \in Approvals : rows[a].version \in {0, 1}
  BY DEF Init, Seeds, NoRow, LiveRow
<1>. QED
  BY <1>1 DEF Init, VersionsInv, CommitsAreOfThePast, EachVersionHasAWriter

LEMMA VersionsStep ==
  ASSUME TypeInv, VersionsInv, [Next]_vars
  PROVE  VersionsInv'
<1>1. CASE StoresNothing
  BY <1>1 DEF StoresNothing, VersionsInv, CommitsAreOfThePast, EachVersionHasAWriter, Writers
<1>2. ASSUME NEW r \in Requests, NEW in \in Input, StoresCreate(r, in)
      PROVE  VersionsInv'
  BY <1>2, WritesRaiseOrKeep, KeepingKeepsVersions DEF StoresCreate
<1>3. ASSUME NEW r \in Requests, StoresUpdate(r) \/ StoresTransition(r)
      PROVE  VersionsInv'
  <2>1. input[r] \in Input
    BY <1>3, WriterTypes DEF StoresUpdate, StoresTransition
  <2>. QED
    BY <1>3, <2>1, WritesRaiseOrKeep, RaisingKeepsVersions DEF StoresUpdate, StoresTransition
<1>4. ASSUME NEW r \in Requests, StoresDelete(r)
      PROVE  VersionsInv'
  <2>1. input[r] \in Input
    BY <1>4, WriterTypes DEF StoresDelete
  <2>. QED
    BY <1>4, <2>1, WritesRaiseOrKeep, KeepingKeepsVersions DEF StoresDelete
<1>. QED
  BY <1>1, <1>2, <1>3, <1>4, NextStores

LEMMA OneWriterEach == VersionsInv /\ TypeInv => SerialVersions
<1> SUFFICES ASSUME VersionsInv, TypeInv PROVE SerialVersions
  OBVIOUS
<1>1. ASSUME NEW a \in Approvals, NEW v \in 2 .. rows[a].version
      PROVE  Cardinality(Writers(a, v)) = 1
  <2>1. PICK c \in commits : Writers(a, v) = {c}
    BY DEF VersionsInv, EachVersionHasAWriter
  <2>2. Cardinality({c}) = 1
    BY FS_Singleton
  <2>. QED
    BY <2>1, <2>2
<1>2. ASSUME NEW a \in Approvals, NEW c \in commits, c.approval = a
      PROVE  c.version <= rows[a].version
  BY <1>2 DEF VersionsInv, CommitsAreOfThePast
<1>. QED
  BY <1>1, <1>2 DEF SerialVersions

\* Whatever versions clients name, of all requests that try to make a version exactly
\* one update or transition does, and no version is left out.
THEOREM VersionsAreSerial == Spec => []SerialVersions
<1>1. TypeInv /\ VersionsInv /\ [Next]_vars => (TypeInv /\ VersionsInv)'
  BY TypeStep, VersionsStep
<1>. QED
  BY <1>1, TypeInit, VersionsInit, OneWriterEach, PTL DEF Spec

----------------------------------------------------------------------------
(* What a step leaves alone, whatever versions clients name *)

\* The checks made on the row a request has read, version aside.
Checked(r) ==
  phase[r] = "write" =>
    /\ input[r].op = "update" => Editable(current[r].status)
    /\ input[r].op = "transition" => MayDecide(input[r].role, input[r].target)

LEMMA LoadsAreChecked ==
  ASSUME TypeInv, NEW r \in Requests, UpdateRead(r) \/ TransitionRead(r) \/ DeleteRead(r)
  PROVE  OthersKept(r) /\ Checked(r)'
<1>1. ASSUME NEW answer \in Answers, Refuse(r, answer)
      PROVE  OthersKept(r) /\ Checked(r)'
  BY <1>1, RefuseMovesOn DEF MovesOn, Checked
<1>2. ASSUME NEW in, Load(r, in),
             in.op = "update" => Editable(rows[in.approval].status),
             in.op = "transition" => MayDecide(in.role, in.target)
      PROVE  OthersKept(r) /\ Checked(r)'
  BY <1>2 DEF Load, OthersKept, Checked, TypeInv, RequestsOK
<1>3. CASE UpdateRead(r)
  <2>1. PICK a \in Approvals, role \in Callers : \E v \in KnownVersions(a) :
          \/ Refuse(r, "not_found")
          \/ Refuse(r, "business_rule")
          \/ /\ Editable(rows[a].status)
             /\ Load(r, [op |-> "update", approval |-> a, role |-> role,
                         version |-> v, target |-> "draft"])
    BY <1>3 DEF UpdateRead
  <2>. QED
    BY <1>1, <1>2, <2>1, OpsAndAnswers
<1>4. CASE TransitionRead(r)
  <2>1. PICK a \in Approvals, role \in Callers, target \in ApprovalStates :
        \E v \in KnownVersions(a) :
          \/ Refuse(r, "not_found")
          \/ Refuse(r, "business_rule")
          \/ /\ MayDecide(role, target)
             /\ Load(r, [op |-> "transition", approval |-> a, role |-> role,
                         version |-> v, target |-> target])
    BY <1>4 DEF TransitionRead
  <2>. QED
    BY <1>1, <1>2, <2>1, OpsAndAnswers
<1>5. CASE DeleteRead(r)
  <2>1. PICK a \in Approvals, role \in Callers :
          \/ Refuse(r, "not_found")
          \/ Load(r, [op |-> "delete", approval |-> a, role |-> role,
                      version |-> rows[a].version, target |-> "draft"])
    BY <1>5 DEF DeleteRead
  <2>. QED
    BY <1>1, <1>2, <2>1, OpsAndAnswers
<1>. QED
  BY <1>3, <1>4, <1>5

LEMMA ServeKeepsOthers ==
  ASSUME TypeInv, NEW r \in Requests, Serve(r)
  PROVE  OthersKept(r) /\ Checked(r)'
<1>1. CASE UpdateRead(r) \/ TransitionRead(r) \/ DeleteRead(r)
  BY <1>1, LoadsAreChecked
<1>2. CASE TurnAway(r)
  BY <1>2, OpsAndAnswers, RefuseMovesOn DEF TurnAway, MovesOn, Checked
<1>3. CASE Create(r)
  <2>1. ASSUME NEW in, Insert(r, in)
        PROVE  MovesOn(r)
    BY <2>1 DEF Insert, MovesOn, OthersKept, TypeInv, RequestsOK
  <2>. QED
    BY <1>3, <2>1, OpsAndAnswers, RefuseMovesOn DEF Create, MovesOn, Checked
<1>4. CASE UpdateWrite(r) \/ TransitionWrite(r) \/ DeleteWrite(r)
  BY <1>4, OpsAndAnswers, FinishMovesOn, ProceedMovesOn
     DEF UpdateWrite, TransitionWrite, DeleteWrite, Written, MovesOn, Checked
<1>5. CASE Audit(r) \/ Respond(r) \/ DatabaseError(r)
  BY <1>5, OpsAndAnswers, FinishMovesOn, ProceedMovesOn
     DEF Audit, Respond, DatabaseError, AuditFailed, AfterAudit, MovesOn, Checked
<1>. QED
  BY <1>1, <1>2, <1>3, <1>4, <1>5 DEF Serve

----------------------------------------------------------------------------
(* Who decides *)

AllChecked == \A r \in Requests : Checked(r)

LEMMA CheckedStep ==
  ASSUME TypeInv, AllChecked, [Next]_vars
  PROVE  AllChecked'
<1> SUFFICES ASSUME NEW q \in Requests PROVE Checked(q)'
  BY DEF AllChecked
<1>1. CASE UNCHANGED vars
  BY <1>1 DEF AllChecked, Checked, vars
<1>2. CASE Crash
  BY <1>2, OpsAndAnswers DEF Crash, Checked
<1>3. ASSUME NEW r \in Requests, Serve(r)
      PROVE  Checked(q)'
  BY <1>3, ServeKeepsOthers DEF OthersKept, AllChecked, Checked
<1>. QED
  BY <1>1, <1>2, <1>3 DEF Next

\* A write keeps the decision: the new row is undecided, or is decided by a reviewer.
LEMMA RaisingKeepsDeciders ==
  ASSUME TypeInv, VersionsInv, NobodyElseDecides, NEW r \in Requests, NEW in \in Input,
         NEW row, NEW from, NEW to, Stores(r, in, row, from, to), Raises(in, row),
         row.status \in Decisions => in.op = "transition" /\ in.role \in Reviewers
  PROVE  NobodyElseDecides'
<1> DEFINE a == in.approval
           n == [request |-> r, op |-> in.op, approval |-> a, role |-> in.role,
                 version |-> row.version, from |-> from, to |-> to]
<1>1. /\ a \in Approvals /\ \A b \in Approvals : rows[b].version \in Nat
      /\ \A c \in commits : c.approval \in Approvals /\ c.version \in Nat
  BY DEF TypeInv, TablesOK, Row, Input, Commit
<1>2. /\ rows'[a] = row /\ \A b \in Approvals \ {a} : rows'[b] = rows[b]
      /\ row.version = rows[a].version + 1
  BY <1>1 DEF Stores, Store, Raises, TypeInv, TablesOK
<1>3. commits' = commits \union {n} /\ n.approval = a /\ n.op = in.op /\ n.role = in.role
  BY DEF Stores, Commits
<1> HIDE DEF n
<1> SUFFICES ASSUME NEW b \in Approvals, NEW c \in Writers(b, rows[b].version)',
                    rows'[b].status \in Decisions
             PROVE  c.op = "transition" /\ c.role \in Reviewers
  BY DEF NobodyElseDecides
<1>4. CASE b = a
  <2>1. c = n
    BY <1>1, <1>2, <1>3, <1>4 DEF Writers, VersionsInv, CommitsAreOfThePast
  <2>. QED
    BY <1>2, <1>3, <1>4, <2>1
<1>5. CASE b # a
  <2>1. c \in Writers(b, rows[b].version)
    BY <1>2, <1>3, <1>5 DEF Writers
  <2>. QED
    BY <1>2, <1>5, <2>1 DEF NobodyElseDecides
<1>. QED
  BY <1>4, <1>5

\* Creating leaves the approval a draft; deleting leaves status and version.
LEMMA KeepingKeepsDeciders ==
  ASSUME TypeInv, NobodyElseDecides, NEW r \in Requests, NEW in \in Input,
         NEW row, NEW from, NEW to, Stores(r, in, row, from, to), KeepsVersion(in, row),
         row.status \in Decisions =>
           /\ row.status = rows[in.approval].status
           /\ row.version = rows[in.approval].version
  PROVE  NobodyElseDecides'
<1> DEFINE a == in.approval
           n == [request |-> r, op |-> in.op, approval |-> a, role |-> in.role,
                 version |-> row.version, from |-> from, to |-> to]
<1>1. rows'[a] = row /\ \A b \in Approvals \ {a} : rows'[b] = rows[b]
  BY DEF Stores, Store, TypeInv, TablesOK, Input
<1>2. commits' = commits \union {n} /\ n.op \in {"create", "delete"}
  BY DEF Stores, Commits, KeepsVersion
<1> HIDE DEF n
<1> SUFFICES ASSUME NEW b \in Approvals, NEW c \in Writers(b, rows[b].version)',
                    rows'[b].status \in Decisions
             PROVE  c.op = "transition" /\ c.role \in Reviewers
  BY DEF NobodyElseDecides
<1>3. rows'[b].status = rows[b].status /\ rows'[b].version = rows[b].version
  BY <1>1
<1>4. c \in Writers(b, rows[b].version)
  BY <1>2, <1>3 DEF Writers
<1>. QED
  BY <1>3, <1>4 DEF NobodyElseDecides

LEMMA DecidersStep ==
  ASSUME TypeInv, VersionsInv, AllChecked, NobodyElseDecides, [Next]_vars
  PROVE  NobodyElseDecides'
<1>1. CASE StoresNothing
  BY <1>1 DEF StoresNothing, NobodyElseDecides, Writers
<1>2. ASSUME NEW r \in Requests, NEW in \in Input, StoresCreate(r, in)
      PROVE  NobodyElseDecides'
  <2>1. LiveRow("draft", 1, r).status \notin Decisions
    BY DEF LiveRow, Decisions
  <2>. QED
    BY <1>2, <2>1, WritesRaiseOrKeep, KeepingKeepsDeciders DEF StoresCreate
<1>3. ASSUME NEW r \in Requests, StoresUpdate(r)
      PROVE  NobodyElseDecides'
  <2>1. input[r] \in Input
    BY <1>3, WriterTypes DEF StoresUpdate
  <2>2. LiveRow(current[r].status, input[r].version + 1, r).status \notin Decisions
    BY <1>3 DEF AllChecked, Checked, StoresUpdate, Editable, LiveRow, Decisions
  <2>. QED
    BY <1>3, <2>1, <2>2, WritesRaiseOrKeep, RaisingKeepsDeciders DEF StoresUpdate
<1>4. ASSUME NEW r \in Requests, StoresTransition(r)
      PROVE  NobodyElseDecides'
  <2> DEFINE row == LiveRow(input[r].target, input[r].version + 1, current[r].fields)
  <2>1. input[r] \in Input /\ input[r].op = "transition"
    BY <1>4, WriterTypes DEF StoresTransition
  <2>2. row.status \in Decisions => input[r].role \in Reviewers
    BY <1>4 DEF AllChecked, Checked, StoresTransition, MayDecide, LiveRow, Reviewers
  <2>. QED
    BY <1>4, <2>1, <2>2, WritesRaiseOrKeep, RaisingKeepsDeciders DEF StoresTransition
<1>5. ASSUME NEW r \in Requests, StoresDelete(r)
      PROVE  NobodyElseDecides'
  <2> DEFINE old == rows[input[r].approval]
             row == [old EXCEPT !.deleted = TRUE]
  <2>1. input[r] \in Input /\ old \in Row
    BY <1>5, WriterTypes DEF StoresDelete
  <2>2. row.status = old.status /\ row.version = old.version
    BY <2>1 DEF Row
  <2>. QED
    BY <1>5, <2>1, <2>2, WritesRaiseOrKeep, KeepingKeepsDeciders DEF StoresDelete
<1>. QED
  BY <1>1, <1>2, <1>3, <1>4, <1>5, NextStores

\* Whatever versions clients name, an approval that stands approved or rejected, and was
\* not seeded so, was brought there last by a transition of a reviewer or administrator.
THEOREM ReviewersHaveTheLastWord == Spec => []NobodyElseDecides
<1> DEFINE Inv == TypeInv /\ VersionsInv /\ AllChecked /\ NobodyElseDecides
<1>1. Init => Inv
  BY TypeInit, VersionsInit DEF Init, AllChecked, Checked, NobodyElseDecides, Writers
<1>2. Inv /\ [Next]_vars => Inv'
  BY TypeStep, VersionsStep, CheckedStep, DecidersStep
<1>. QED
  BY <1>1, <1>2, PTL DEF Spec

----------------------------------------------------------------------------
(* What an answer tells *)

\* A request in flight, or answered, and what it has left behind so far.
Outcome(r) ==
  /\ phase[r] \in {"idle", "write"} \union (Refusals \ {"not_found"}) => ~Committed(r)
  /\ phase[r] \in {"audit", "reply"} =>
       /\ \E c \in commits : c.request = r
       /\ \A c \in commits : c.request = r =>
            c.op = input[r].op /\ c.approval = input[r].approval
  /\ phase[r] = "reply" =>
       /\ input[r].op \in {"update", "transition"}
       /\ input[r].op = "transition" => Audited(r)
  /\ phase[r] = "ok" =>
       \E c \in commits :
         c.request = r /\ (c.op \in {"transition", "delete"} => Audited(r))
  /\ phase[r] = "not_found" =>
       \A c \in commits : c.request = r => rows[c.approval].deleted

AllOutcomes == \A r \in Requests : Outcome(r)

\* Nothing brings a deleted approval back.
LEMMA DeletedStaysDeleted ==
  ASSUME TypeInv, [Next]_vars, NEW a \in Approvals, rows[a].deleted, rows[a].version > 0
  PROVE  rows'[a].deleted
<1>1. rows \in [Approvals -> Row]
  BY DEF TypeInv, TablesOK
<1>2. ~Live(rows[a])
  BY DEF Live
<1>3. ASSUME NEW r \in Requests, NEW b \in Approvals, WritesRow(r, b)
      PROVE  rows'[a].deleted
  <2>1. b # a
    BY <1>2, <1>3 DEF WritesRow, Inserts, Updates, Transitions, Deletes, VersionMatches,
                      DeleteMatches
  <2>. QED
    BY <1>1, <1>3, <2>1 DEF WritesRow, Inserts, Updates, Transitions, Deletes, Store
<1>. QED
  BY <1>3, RowsStep

CommitsOf(r) == {c \in commits : c.request = r}

\* The step of another request.
LEMMA KeptOutcome ==
  ASSUME TypeInv, VersionsInv, [Next]_vars, NEW q \in Requests, Outcome(q),
         phase'[q] = phase[q], input'[q] = input[q],
         CommitsOf(q)' = CommitsOf(q), audits \subseteq audits'
  PROVE  Outcome(q)'
<1>1. \A c : c \in commits /\ c.request = q <=> c \in commits' /\ c.request = q
  BY DEF CommitsOf
<1>2. (Committed(q)' <=> Committed(q)) /\ (Audited(q) => Audited(q)')
  BY <1>1 DEF Committed, Audited
<1>3. ASSUME NEW c \in commits, rows[c.approval].deleted
      PROVE  rows'[c.approval].deleted
  <2>1. c.approval \in Approvals
    BY DEF TypeInv, TablesOK, Commit
  <2>2. rows[c.approval].version \in Nat
    BY <2>1 DEF TypeInv, TablesOK, Row
  <2>3. rows[c.approval].version > 0
    BY <2>2 DEF VersionsInv, CommitsAreOfThePast
  <2>. QED
    BY <1>3, <2>1, <2>3, DeletedStaysDeleted
<1>. QED
  BY <1>1, <1>2, <1>3 DEF Outcome

\* Only r leaves commits and audit entries when r is served.
LEMMA OthersLeaveNothing ==
  ASSUME TypeInv, NEW r \in Requests, Serve(r), NEW q \in Requests \ {r}
  PROVE  CommitsOf(q)' = CommitsOf(q) /\ audits \subseteq audits'
<1>1. audits \subseteq audits'
  <2>1. CASE TurnAway(r) \/ Create(r)
    BY <2>1 DEF TurnAway, Create, Refuse, Insert, tables
  <2>2. CASE UpdateRead(r) \/ TransitionRead(r) \/ DeleteRead(r)
    BY <2>2 DEF UpdateRead, TransitionRead, DeleteRead, Refuse, Load, tables
  <2>3. CASE UpdateWrite(r) \/ TransitionWrite(r) \/ DeleteWrite(r)
    BY <2>3 DEF UpdateWrite, TransitionWrite, DeleteWrite, tables
  <2>4. CASE Audit(r) \/ Respond(r) \/ DatabaseError(r)
    BY <2>4 DEF Audit, Respond, DatabaseError, tables
  <2>. QED
    BY <2>1, <2>2, <2>3, <2>4 DEF Serve
<1>2. commits' = commits \/ \E c : c.request = r /\ commits' = commits \union {c}
  <2>1. ASSUME NEW in, NEW row, NEW from, NEW to, Stores(r, in, row, from, to)
        PROVE  \E c : c.request = r /\ commits' = commits \union {c}
    <3> DEFINE n == [request |-> r, op |-> in.op, approval |-> in.approval, role |-> in.role,
                     version |-> row.version, from |-> from, to |-> to]
    <3>1. n.request = r /\ commits' = commits \union {n}
      BY <2>1 DEF Stores, Commits
    <3>. QED
      BY <3>1
  <2>. QED
    BY <2>1, ServeStores
       DEF StoresNothing, StoresCreate, StoresUpdate, StoresTransition, StoresDelete
<1>. QED
  BY <1>1, <1>2 DEF CommitsOf

\* The steps of r itself, before it has committed anything.
LEMMA EarlyOutcome ==
  ASSUME NEW r \in Requests, Outcome(r), phase[r] \in {"idle", "write"}, commits' = commits,
         phase'[r] \in {"write"} \union (Answers \ {"ok"})
  PROVE  Outcome(r)'
<1>1. ~Committed(r)'
  BY DEF Outcome, Committed
<1>2. phase'[r] \notin {"audit", "reply", "ok"}
  BY DEF Answers, Refusals
<1>. QED
  BY <1>1, <1>2 DEF Outcome, Committed

\* When it commits.
LEMMA CommittingOutcome ==
  ASSUME NEW r \in Requests, Outcome(r), phase[r] \in {"idle", "write"}, NEW in, NEW n,
         commits' = commits \union {n},
         n.request = r, n.op = in.op, n.approval = in.approval,
         \/ phase'[r] = "audit" /\ input'[r] = in
         \/ phase'[r] = "internal_error"
  PROVE  Outcome(r)'
<1>1. \A c \in commits' : c.request = r => c = n
  BY DEF Outcome, Committed
<1>. QED
  BY <1>1 DEF Outcome, Refusals

\* And afterwards.
LEMMA LateOutcome ==
  ASSUME TypeInv, VersionsInv, NEW r \in Requests, Outcome(r),
         Audit(r) \/ Respond(r) \/ DatabaseError(r)
  PROVE  Outcome(r)'
<1>1. phase[r] \in InFlight /\ input[r] \in Input /\ commits' = commits /\ rows' = rows
  BY OpsAndAnswers DEF Audit, Respond, DatabaseError, TypeInv, RequestsOK, InFlightHasInput,
                       tables
<1>2. ASSUME Finish(r, "internal_error")
      PROVE  Outcome(r)'
  BY <1>2 DEF Finish, Outcome, Refusals, TypeInv, RequestsOK
<1>3. ASSUME phase[r] = "audit", AfterAudit(r),
             input[r].op \in {"transition", "delete"} => Audited(r)'
      PROVE  Outcome(r)'
  <2>1. CASE input[r].op \in {"create", "delete"}
    <3>1. phase'[r] = "ok"
      BY <1>3, <2>1 DEF AfterAudit, Finish, TypeInv, RequestsOK
    <3>2. PICK c \in commits : c.request = r /\ c.op = input[r].op
      BY <1>3 DEF Outcome
    <3>3. c \in commits' /\ (c.op \in {"transition", "delete"} => Audited(r)')
      BY <1>1, <1>3, <3>2
    <3>. QED
      BY <3>1, <3>2, <3>3 DEF Outcome, Refusals
  <2>2. CASE input[r].op \in {"update", "transition"}
    <3>1. phase'[r] = "reply" /\ input'[r] = input[r]
      BY <1>3, <2>2 DEF AfterAudit, Proceed, TypeInv, RequestsOK
    <3>. QED
      BY <1>1, <1>3, <2>2, <3>1 DEF Outcome, Refusals
  <2>. QED
    BY <1>1, <2>1, <2>2, OpsAndAnswers DEF Input
<1>4. CASE Audit(r)
  <2> DEFINE e == [request |-> r, action |-> input[r].op, approval |-> input[r].approval,
                   before |-> AuditBefore(r), after |-> AuditAfter(r)]
  <2>1. Audited(r)'
    <3>1. e \in audits' /\ e.request = r
      BY <1>4 DEF Audit
    <3>. QED
      BY <3>1 DEF Audited
  <2>. QED
    BY <1>2, <1>3, <1>4, <2>1 DEF Audit, AuditFailed
<1>5. CASE Respond(r)
  <2>1. phase[r] = "reply" /\ audits' = audits
    BY <1>5 DEF Respond, tables
  <2>2. CASE Live(rows[input[r].approval])
    <3>1. phase'[r] = "ok"
      BY <1>5, <2>2 DEF Respond, Finish, TypeInv, RequestsOK
    <3>2. PICK c \in commits : c.request = r /\ c.op = input[r].op
      BY <2>1 DEF Outcome
    <3>3. c.op \in {"transition", "delete"} => Audited(r)'
      BY <2>1, <3>2 DEF Outcome, Audited
    <3>. QED
      BY <1>1, <3>1, <3>2, <3>3 DEF Outcome, Refusals
  <2>3. CASE ~Live(rows[input[r].approval])
    <3>1. phase'[r] = "not_found"
      BY <1>5, <2>3 DEF Respond, Finish, TypeInv, RequestsOK
    <3>2. ASSUME NEW c \in commits, c.request = r
          PROVE  rows[c.approval].deleted
      <4>1. c.approval = input[r].approval /\ c.approval \in Approvals
        BY <1>1, <2>1, <3>2 DEF Outcome, Input
      <4>2. rows[c.approval].version \in Nat
        BY <4>1 DEF TypeInv, TablesOK, Row
      <4>3. rows[c.approval].version > 0
        BY <4>2 DEF VersionsInv, CommitsAreOfThePast
      <4>. QED
        BY <2>3, <4>1, <4>3 DEF Live
    <3>. QED
      BY <1>1, <3>1, <3>2 DEF Outcome
  <2>. QED
    BY <2>2, <2>3
<1>6. CASE DatabaseError(r)
  <2>1. phase[r] = "audit" /\ ~ReportsAuditFailure(input[r].op)
          => input[r].op \notin {"transition", "delete"}
    BY DEF ReportsAuditFailure
  <2>. QED
    BY <1>2, <1>3, <1>6, <2>1 DEF DatabaseError, AuditFailed
<1>. QED
  BY <1>4, <1>5, <1>6

LEMMA ReadOutcome ==
  ASSUME TypeInv, NEW r \in Requests, Outcome(r),
         TurnAway(r) \/ UpdateRead(r) \/ TransitionRead(r) \/ DeleteRead(r)
  PROVE  Outcome(r)'
<1>1. \/ \E answer \in Answers \ {"ok"} : Refuse(r, answer)
      \/ \E in : Load(r, in)
  BY OpsAndAnswers DEF TurnAway, UpdateRead, TransitionRead, DeleteRead
<1>2. phase[r] = "idle"
  BY DEF TurnAway, UpdateRead, TransitionRead, DeleteRead
<1>. QED
  BY <1>1, <1>2, EarlyOutcome DEF Refuse, Load, tables, TypeInv, RequestsOK

LEMMA CreateOutcome ==
  ASSUME TypeInv, NEW r \in Requests, Outcome(r), Create(r)
  PROVE  Outcome(r)'
<1>1. PICK a \in Approvals, role \in Callers :
        \/ Refuse(r, "business_rule")
        \/ Refuse(r, "internal_error")
        \/ Insert(r, [op |-> "create", approval |-> a, role |-> role,
                      version |-> 1, target |-> "draft"])
  BY DEF Create
<1>2. phase[r] = "idle"
  BY DEF Create
<1>3. ASSUME NEW answer \in {"business_rule", "internal_error"}, Refuse(r, answer)
      PROVE  Outcome(r)'
  BY <1>2, <1>3, EarlyOutcome, OpsAndAnswers DEF Refuse, tables, TypeInv, RequestsOK
<1>4. ASSUME NEW in, Insert(r, in)
      PROVE  Outcome(r)'
  <2> DEFINE n == [request |-> r, op |-> in.op, approval |-> in.approval, role |-> in.role,
                   version |-> 1, from |-> "", to |-> "draft"]
  <2>1. n.request = r /\ n.op = in.op /\ n.approval = in.approval /\ commits' = commits \union {n}
    BY <1>4 DEF Insert, Record
  <2>2. \/ phase'[r] = "audit" /\ input'[r] = in
        \/ phase'[r] = "internal_error"
    BY <1>4 DEF Insert, TypeInv, RequestsOK
  <2> HIDE DEF n
  <2>. QED
    BY <1>2, <2>1, <2>2, CommittingOutcome
<1>. QED
  BY <1>1, <1>3, <1>4

LEMMA WriteOutcome ==
  ASSUME TypeInv, NEW r \in Requests, Outcome(r),
         UpdateWrite(r) \/ TransitionWrite(r) \/ DeleteWrite(r)
  PROVE  Outcome(r)'
<1>1. phase[r] = "write"
  BY DEF UpdateWrite, TransitionWrite, DeleteWrite
<1>2. ASSUME NEW answer \in {"version_conflict", "not_found"}, Finish(r, answer), UNCHANGED tables
      PROVE  Outcome(r)'
  BY <1>1, <1>2, EarlyOutcome, OpsAndAnswers DEF Finish, tables, TypeInv, RequestsOK
<1>3. ASSUME NEW from, NEW to, NEW version, Record(r, input[r], from, to, version), Written(r)
      PROVE  Outcome(r)'
  <2> DEFINE n == [request |-> r, op |-> input[r].op, approval |-> input[r].approval,
                   role |-> input[r].role, version |-> version, from |-> from, to |-> to]
  <2>1. /\ n.request = r /\ n.op = input[r].op /\ n.approval = input[r].approval
        /\ commits' = commits \union {n}
    BY <1>3 DEF Record
  <2>2. \/ phase'[r] = "audit" /\ input'[r] = input[r]
        \/ phase'[r] = "internal_error"
    BY <1>3 DEF Written, Proceed, Finish, TypeInv, RequestsOK
  <2> HIDE DEF n
  <2>. QED
    BY <1>1, <2>1, <2>2, CommittingOutcome
<1>. QED
  BY <1>2, <1>3 DEF UpdateWrite, TransitionWrite, DeleteWrite

LEMMA OutcomesStep ==
  ASSUME TypeInv, VersionsInv, AllOutcomes, [Next]_vars
  PROVE  AllOutcomes'
<1> SUFFICES ASSUME NEW q \in Requests PROVE Outcome(q)'
  BY DEF AllOutcomes
<1>1. Outcome(q)
  BY DEF AllOutcomes
<1>2. CASE UNCHANGED vars
  BY <1>1, <1>2 DEF Outcome, Committed, Audited, vars
<1>3. CASE Crash
  <2>1. rows' = rows /\ commits' = commits /\ audits' = audits
    BY <1>3 DEF Crash, tables
  <2>2. \/ phase'[q] = "lost"
        \/ phase'[q] = phase[q] /\ phase[q] \notin InFlight
    BY <1>3 DEF Crash
  <2>. QED
    BY <1>1, <2>1, <2>2, OpsAndAnswers DEF Outcome, Committed, Audited, Refusals
<1>4. ASSUME NEW r \in Requests \ {q}, Serve(r)
      PROVE  Outcome(q)'
  BY <1>1, <1>4, ServeKeepsOthers, OthersLeaveNothing, KeptOutcome DEF OthersKept
<1>5. CASE Serve(q)
  BY <1>1, <1>5, ReadOutcome, CreateOutcome, WriteOutcome, LateOutcome DEF Serve
<1>. QED
  BY <1>2, <1>3, <1>4, <1>5 DEF Next

\* Whatever versions clients name, and whatever fails or overlaps: after a refusal nothing
\* was stored; what was accepted is stored, and audited if it is a transition or a
\* delete; and 404 after a successful write means that the approval was deleted.
THEOREM AnswersAreTrue == Spec => []AnswersTellTheEffect
<1> DEFINE Inv == TypeInv /\ VersionsInv /\ AllOutcomes
<1>1. Init => AllOutcomes
  BY DEF Init, AllOutcomes, Outcome, Committed, Refusals
<1>2. Inv /\ [Next]_vars => Inv'
  BY TypeStep, VersionsStep, OutcomesStep
<1>3. Inv => AnswersTellTheEffect
  BY DEF AllOutcomes, Outcome, AnswersTellTheEffect
<1>. QED
  BY <1>1, <1>2, <1>3, TypeInit, VersionsInit, PTL DEF Spec

----------------------------------------------------------------------------
(* The row and the opinions *)

OpinionsAreOfThePast ==
  \A o \in opinions : o.version \in 1 .. rows[o.approval].version

StoresOpinion(r) ==
  /\ StoresTransition(r)
  /\ opinions' = opinions \union
       {[approval |-> input[r].approval, version |-> input[r].version + 1,
         status |-> input[r].target, request |-> r, role |-> input[r].role]}

LEMMA OpinionsComeWithTransitions ==
  ASSUME TypeInv, [Next]_vars
  PROVE  \/ \E r \in Requests : StoresOpinion(r)
         \/ /\ opinions' = opinions
            /\ \/ StoresNothing
               \/ \E r \in Requests :
                    (\E in \in Input : StoresCreate(r, in)) \/ StoresUpdate(r) \/ StoresDelete(r)
<1>1. CASE UNCHANGED vars \/ Crash
  BY <1>1 DEF vars, Crash, tables, StoresNothing
<1>2. ASSUME NEW r \in Requests, TransitionWrite(r)
      PROVE  StoresOpinion(r) \/ (opinions' = opinions /\ StoresNothing)
  BY <1>2 DEF TransitionWrite, Record, StoresOpinion, StoresTransition, Stores, Commits, LiveRow,
              tables, StoresNothing
<1>3. ASSUME NEW r \in Requests, Serve(r), ~TransitionWrite(r)
      PROVE  opinions' = opinions
  <2>1. CASE TurnAway(r) \/ Create(r)
    BY <2>1 DEF TurnAway, Create, Refuse, Insert, tables
  <2>2. CASE UpdateRead(r) \/ TransitionRead(r) \/ DeleteRead(r)
    BY <2>2 DEF UpdateRead, TransitionRead, DeleteRead, Refuse, Load, tables
  <2>3. CASE UpdateWrite(r) \/ DeleteWrite(r)
    BY <2>3 DEF UpdateWrite, DeleteWrite, tables
  <2>4. CASE Audit(r) \/ Respond(r) \/ DatabaseError(r)
    BY <2>4 DEF Audit, Respond, DatabaseError, tables
  <2>. QED
    BY <1>3, <2>1, <2>2, <2>3, <2>4 DEF Serve
<1>4. ASSUME NEW r \in Requests, Serve(r), ~TransitionWrite(r)
      PROVE  \/ StoresNothing
             \/ \E in \in Input : StoresCreate(r, in)
             \/ StoresUpdate(r) \/ StoresDelete(r)
  <2>1. CASE UpdateWrite(r)
    <3>1. ~StoresTransition(r)
      BY <2>1 DEF UpdateWrite, StoresTransition
    <3>. QED
      BY <1>4, <3>1, ServeStores
  <2>2. CASE phase[r] # "write" \/ input[r].op # "transition"
    BY <1>4, <2>2, ServeStores DEF StoresTransition
  <2>3. CASE DatabaseError(r)
    BY <2>3 DEF DatabaseError, tables, StoresNothing
  <2>. QED
    BY <1>4, <2>1, <2>2, <2>3
       DEF Serve, TurnAway, Create, UpdateRead, TransitionRead, DeleteRead, DeleteWrite,
           Audit, Respond
<1>. QED
  BY <1>1, <1>2, <1>3, <1>4 DEF Next

\* A write without an opinion leaves every status alone, once there is a row.
LEMMA KeptStatusMatches ==
  ASSUME OpinionsAreOfThePast, StatusMatchesLatestOpinion, opinions' = opinions, TypeInv,
         \A a \in Approvals :
           rows[a].version > 0 =>
             rows'[a].version >= rows[a].version /\ rows'[a].status = rows[a].status,
         TypeInv'
  PROVE  OpinionsAreOfThePast' /\ StatusMatchesLatestOpinion'
<1>1. ASSUME NEW o \in opinions
      PROVE  /\ o.approval \in Approvals /\ o.version \in 1 .. rows'[o.approval].version
             /\ rows'[o.approval].status = rows[o.approval].status
  <2>1. o.approval \in Approvals
    BY DEF TypeInv, TablesOK, Opinion
  <2>2. rows[o.approval].version \in Nat /\ rows'[o.approval].version \in Nat
    BY <2>1 DEF TypeInv, TablesOK, Row
  <2>. QED
    BY <2>1, <2>2 DEF OpinionsAreOfThePast
<1>. QED
  BY <1>1 DEF OpinionsAreOfThePast, StatusMatchesLatestOpinion

LEMMA NewOpinionMatches ==
  ASSUME OpinionsAreOfThePast, StatusMatchesLatestOpinion, TypeInv,
         NEW r \in Requests, StoresOpinion(r)
  PROVE  OpinionsAreOfThePast' /\ StatusMatchesLatestOpinion'
<1> DEFINE a == input[r].approval
           n == [approval |-> a, version |-> input[r].version + 1,
                 status |-> input[r].target, request |-> r, role |-> input[r].role]
<1>1. /\ a \in Approvals /\ rows[a].version \in Nat
      /\ input[r].version = rows[a].version
  BY WriterTypes DEF StoresOpinion, StoresTransition, VersionMatches
<1>2. /\ rows'[a].version = rows[a].version + 1 /\ rows'[a].status = input[r].target
      /\ \A b \in Approvals \ {a} : rows'[b] = rows[b]
  BY <1>1 DEF StoresOpinion, StoresTransition, Stores, Store, LiveRow, TypeInv, TablesOK
<1>3. /\ opinions' = opinions \union {n} /\ n.approval = a
      /\ n.version = rows[a].version + 1 /\ n.status = input[r].target
  BY <1>1 DEF StoresOpinion
<1>4. \A o \in opinions : o.approval \in Approvals /\ o.version \in Nat
  BY DEF TypeInv, TablesOK, Opinion
<1> HIDE DEF a, n
<1>5. OpinionsAreOfThePast'
  BY <1>1, <1>2, <1>3, <1>4 DEF OpinionsAreOfThePast
<1>6. ASSUME NEW o \in opinions',
             \A p \in opinions' : p.approval = o.approval => p.version <= o.version
      PROVE  o.status = rows'[o.approval].status
  <2>1. CASE o = n
    BY <1>2, <1>3, <2>1
  <2>2. CASE o \in opinions
    <3>1. o.approval # a
      BY <1>1, <1>3, <1>4, <1>6, <2>2 DEF OpinionsAreOfThePast
    <3>2. o.status = rows[o.approval].status
      BY <1>3, <1>6, <2>2 DEF StatusMatchesLatestOpinion
    <3>. QED
      BY <1>2, <1>4, <2>2, <3>1, <3>2
  <2>. QED
    BY <1>3, <2>1, <2>2
<1>. QED
  BY <1>5, <1>6 DEF StatusMatchesLatestOpinion

LEMMA OpinionsStep ==
  ASSUME TypeInv, ReadsAreFresh, OpinionsAreOfThePast, StatusMatchesLatestOpinion, [Next]_vars
  PROVE  OpinionsAreOfThePast' /\ StatusMatchesLatestOpinion'
<1> DEFINE Kept == \A a \in Approvals :
                     rows[a].version > 0 =>
                       /\ rows'[a].version >= rows[a].version
                       /\ rows'[a].status = rows[a].status
<1>1. TypeInv' /\ \A a \in Approvals : Advances(a)
  BY TypeStep, RowsAdvance
<1>2. \A a \in Approvals : rows[a].version \in Nat
  BY DEF TypeInv, TablesOK, Row
<1>3. StoresNothing => Kept
  BY <1>2 DEF StoresNothing
<1>4. ASSUME NEW r \in Requests, NEW in \in Input, StoresCreate(r, in)
      PROVE  Kept
  <2>1. \A b \in Approvals \ {in.approval} : rows'[b] = rows[b]
    BY <1>4 DEF StoresCreate, Stores, Store, TypeInv, TablesOK
  <2>2. rows[in.approval].version = 0
    BY <1>4 DEF StoresCreate
  <2>. QED
    BY <1>1, <2>1, <2>2 DEF Advances
<1>5. ASSUME NEW r \in Requests, StoresUpdate(r)
      PROVE  Kept
  <2>1. rows[input[r].approval].status = current[r].status
    BY <1>5, MatchMeansCurrent DEF StoresUpdate
  <2>. QED
    BY <1>1, <1>5, <2>1 DEF StoresUpdate, Stores, Store, LiveRow, Advances, TypeInv, TablesOK
<1>6. ASSUME NEW r \in Requests, StoresDelete(r)
      PROVE  Kept
  <2>1. rows[input[r].approval] \in Row
    BY <1>6, WriterTypes DEF StoresDelete
  <2>. QED
    BY <1>1, <1>6, <2>1 DEF StoresDelete, Stores, Store, Advances, TypeInv, TablesOK, Row
<1>7. opinions' = opinions /\ Kept => OpinionsAreOfThePast' /\ StatusMatchesLatestOpinion'
  BY <1>1, KeptStatusMatches
<1>. QED
  BY <1>3, <1>4, <1>5, <1>6, <1>7, NewOpinionMatches, OpinionsComeWithTransitions

\* When every client sends back a version it was shown, the status of an approval is that
\* of its latest opinion, after all conflicts, failures, updates and deletes.
THEOREM OpinionsAgreeWithRows ==
  ASSUME AheadVersions = {}
  PROVE  Spec => []StatusMatchesLatestOpinion
<1> DEFINE Inv == /\ TypeInv /\ ReadsAreFresh
                  /\ OpinionsAreOfThePast /\ StatusMatchesLatestOpinion
<1>1. Init => Inv
  BY TypeInit, FreshInit DEF Init, OpinionsAreOfThePast, StatusMatchesLatestOpinion
<1>2. Inv /\ [Next]_vars => Inv'
  BY TypeStep, FreshStep, OpinionsStep
<1>. QED
  BY <1>1, <1>2, PTL DEF Spec
=============================================================================
