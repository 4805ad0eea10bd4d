------------------------- MODULE ApprovalReadsProofs -------------------------
(***************************************************************************)
(* Theorems about what readers of approvals are shown while others write,  *)
(* for any number of readers and for pages of any size.                    *)
(***************************************************************************)
EXTENDS ApprovalReads, ApprovalHistoryProofs

----------------------------------------------------------------------------
(* Readers write nothing *)

LEMMA ReadersOnlyRead ==
  ASSUME [ReadsNext]_allVars
  PROVE  [Next]_vars
BY DEF ReadsNext, ReadRows, ReadOpinions, allVars, vars

ReadersOK ==
  /\ stage \in [Readers -> {"idle", "rows", "done"}]
  /\ page \in [Readers -> SUBSET Approvals]
  /\ shown \in [Readers -> [Approvals -> Row]]
  /\ DOMAIN slips = Readers

LEMMA ReadersInit == ReadsInit => ReadersOK
BY NoRowIsRow DEF ReadsInit, ReadersOK

LEMMA ReadersStep ==
  ASSUME TypeInv, ReadersOK, [ReadsNext]_allVars
  PROVE  ReadersOK'
<1>1. CASE UNCHANGED readVars
  BY <1>1 DEF readVars, ReadersOK
<1>2. ASSUME NEW q \in Readers, ReadRows(q)
      PROVE  ReadersOK'
  <2>1. PICK wanted \in SUBSET Approvals :
          LET found == {a \in wanted : Live(rows[a])} IN
          /\ page'  = [page EXCEPT ![q] = found]
          /\ shown' = [shown EXCEPT ![q] = [a \in Approvals |->
                         IF a \in found THEN rows[a] ELSE NoRow]]
          /\ stage' = [stage EXCEPT ![q] = IF found = {} THEN "done" ELSE "rows"]
    BY <1>2 DEF ReadRows
  <2> DEFINE found == {a \in wanted : Live(rows[a])}
  <2>2. [a \in Approvals |-> IF a \in found THEN rows[a] ELSE NoRow] \in [Approvals -> Row]
    BY NoRowIsRow DEF TypeInv, TablesOK
  <2>3. found \in SUBSET Approvals
    OBVIOUS
  <2> HIDE DEF found
  <2>. QED
    BY <1>2, <2>1, <2>2, <2>3 DEF ReadersOK, ReadRows, found
<1>3. ASSUME NEW q \in Readers, ReadOpinions(q)
      PROVE  ReadersOK'
  BY <1>3 DEF ReadOpinions, ReadersOK
<1>. QED
  BY <1>1, <1>2, <1>3 DEF ReadsNext, allVars, readVars

----------------------------------------------------------------------------
(* What the writers guarantee *)

\* Every stored transition left its opinion in the same transaction.
EachTransitionHasAnOpinion ==
  \A c \in commits : c.op = "transition" =>
    \E o \in opinions : o.approval = c.approval /\ o.version = c.version /\ o.status = c.to

\* Whatever a step adds is newer than the row was before the step.
OnlyNewer ==
  /\ opinions \subseteq opinions' /\ commits \subseteq commits'
  /\ \A o \in opinions' \ opinions : o.version > rows[o.approval].version
  /\ \A c \in commits' \ commits :
       c.op = "transition" => c.version > rows[c.approval].version
  /\ \A a \in Approvals : rows'[a].version >= rows[a].version

LEMMA WritersOnlyAdd ==
  ASSUME TypeInv, EachTransitionHasAnOpinion, [Next]_vars
  PROVE  OnlyNewer /\ EachTransitionHasAnOpinion'
<1>1. \A a \in Approvals : rows'[a].version >= rows[a].version
  BY RowsAdvance DEF Advances
<1>2. ASSUME opinions' = opinions, NEW n, n.op # "transition",
             commits' \in {commits, commits \union {n}}
      PROVE  OnlyNewer /\ EachTransitionHasAnOpinion'
  BY <1>1, <1>2 DEF OnlyNewer, EachTransitionHasAnOpinion
<1>3. ASSUME NEW r \in Requests, StoresOpinion(r)
      PROVE  OnlyNewer /\ EachTransitionHasAnOpinion'
  <2> DEFINE a == input[r].approval
             o == [approval |-> a, version |-> input[r].version + 1,
                   status |-> input[r].target, request |-> r, role |-> input[r].role]
             c == [request |-> r, op |-> input[r].op, approval |-> a, role |-> input[r].role,
                   version |-> input[r].version + 1, from |-> rows[a].status,
                   to |-> input[r].target]
  <2>1. /\ rows[a].version \in Nat /\ input[r].version = rows[a].version
        /\ opinions' = opinions \union {o} /\ commits' = commits \union {c}
    BY <1>3, WriterTypes
       DEF StoresOpinion, StoresTransition, VersionMatches, Stores, Commits, LiveRow
  <2>2. /\ o.approval = a /\ o.version = rows[a].version + 1 /\ o.status = input[r].target
        /\ c.approval = a /\ c.version = rows[a].version + 1 /\ c.to = input[r].target
    BY <2>1
  <2> HIDE DEF a, o, c
  <2>. QED
    BY <1>1, <2>1, <2>2 DEF OnlyNewer, EachTransitionHasAnOpinion
<1>4. CASE opinions' = opinions /\ StoresNothing
  BY <1>1, <1>4 DEF StoresNothing, OnlyNewer, EachTransitionHasAnOpinion
<1>5. ASSUME opinions' = opinions, NEW r \in Requests,
             (\E in \in Input : StoresCreate(r, in)) \/ StoresUpdate(r) \/ StoresDelete(r)
      PROVE  OnlyNewer /\ EachTransitionHasAnOpinion'
  <2>1. PICK n : n.op # "transition" /\ commits' = commits \union {n}
    BY <1>5 DEF StoresCreate, StoresUpdate, StoresDelete, Stores, Commits
  <2>. QED
    BY <1>2, <1>5, <2>1
<1>. QED
  BY <1>3, <1>4, <1>5, OpinionsComeWithTransitions

----------------------------------------------------------------------------
(* What readers hold *)

\* The rows a reader holds are no newer than the stored ones.
HeldRowsArePast ==
  \A q \in Readers : \A a \in page[q] : shown[q][a].version <= rows[a].version

\* Of the opinions in S, those on approval a up to the version v.
UpTo(S, a, v) == {o \in S : o.approval = a /\ o.version <= v}

LatestExplains(S, a, row) ==
  LET past == UpTo(S, a, row.version) IN
  \A o \in past : (\A p \in past : p.version <= o.version) => o.status = row.status

\* Until the opinions are read, those stored explain the row that is held.
HeldRowsAreExplained ==
  \A q \in Readers : stage[q] = "rows" =>
    \A a \in page[q] : LatestExplains(opinions, a, shown[q][a])

LEMMA VersionsAreNumbers ==
  ASSUME TypeInv, ReadersOK
  PROVE  /\ \A a \in Approvals : rows[a].version \in Nat
         /\ \A q \in Readers : \A a \in page[q] :
              a \in Approvals /\ shown[q][a].version \in Nat
         /\ \A c \in commits : c.approval \in Approvals /\ c.version \in Nat
         /\ \A o \in opinions : o.approval \in Approvals /\ o.version \in Nat
<1>1. \A row \in Row : row.version \in Nat
  BY DEF Row
<1>2. \A a \in Approvals : rows[a].version \in Nat
  BY <1>1 DEF TypeInv, TablesOK
<1>3. \A q \in Readers : \A a \in page[q] : a \in Approvals /\ shown[q][a].version \in Nat
  BY <1>1 DEF ReadersOK
<1>4. /\ \A c \in commits : c.approval \in Approvals /\ c.version \in Nat
      /\ \A o \in opinions : o.approval \in Approvals /\ o.version \in Nat
  BY DEF TypeInv, TablesOK, Commit, Opinion
<1>. QED
  BY <1>2, <1>3, <1>4

\* A reader that has just read the rows.
LEMMA RowsRead ==
  ASSUME TypeInv, ReadersOK, NEW q \in Readers, ReadRows(q)
  PROVE  /\ \A a \in page'[q] : shown'[q][a] = rows[a]
         /\ stage[q] = "idle" /\ (stage'[q] = "done" => page'[q] = {})
         /\ \A x \in Readers \ {q} : /\ page'[x] = page[x] /\ shown'[x] = shown[x]
                                     /\ stage'[x] = stage[x]
         /\ UNCHANGED <<vars, slips>>
<1>1. PICK wanted \in SUBSET Approvals :
        LET found == {a \in wanted : Live(rows[a])} IN
        /\ page'  = [page EXCEPT ![q] = found]
        /\ shown' = [shown EXCEPT ![q] = [a \in Approvals |->
                       IF a \in found THEN rows[a] ELSE NoRow]]
        /\ stage' = [stage EXCEPT ![q] = IF found = {} THEN "done" ELSE "rows"]
  BY DEF ReadRows
<1> DEFINE found == {a \in wanted : Live(rows[a])}
<1>2. page'[q] = found /\ found \subseteq Approvals
  BY <1>1 DEF ReadersOK
<1>3. \A a \in found : shown'[q][a] = rows[a]
  BY <1>1, <1>2 DEF ReadersOK
<1>4. stage'[q] = "done" => found = {}
  BY <1>1 DEF ReadersOK
<1>5. \A x \in Readers \ {q} : /\ page'[x] = page[x] /\ shown'[x] = shown[x]
                              /\ stage'[x] = stage[x]
  BY <1>1 DEF ReadersOK
<1>. QED
  BY <1>2, <1>3, <1>4, <1>5 DEF ReadRows

\* A reader that has just read the opinions: it holds all there are.
LEMMA OpinionsRead ==
  ASSUME TypeInv, ReadersOK, NEW q \in Readers, ReadOpinions(q)
  PROVE  /\ stage[q] = "rows" /\ stage'[q] = "done"
         /\ \A a \in page[q] : Slips(q, a)' = {o \in opinions : o.approval = a}
         /\ \A x \in Readers \ {q} : slips'[x] = slips[x] /\ stage'[x] = stage[x]
         /\ UNCHANGED <<vars, page, shown>>
<1>1. slips'[q] = UNION {OpinionsOf(a) : a \in page[q]}
  BY DEF ReadOpinions, ReadersOK
<1>2. \A a \in page[q] : Slips(q, a)' = {o \in opinions : o.approval = a}
  BY <1>1 DEF Slips, OpinionsOf
<1>. QED
  BY <1>2 DEF ReadOpinions, ReadersOK

LEMMA HeldRowsStep ==
  ASSUME TypeInv, ReadersOK, EachTransitionHasAnOpinion, HeldRowsArePast,
         [ReadsNext]_allVars
  PROVE  HeldRowsArePast'
<1>0. OnlyNewer
  BY ReadersOnlyRead, WritersOnlyAdd
<1>1. CASE UNCHANGED readVars
  BY <1>0, <1>1, VersionsAreNumbers, TypeStep, ReadersOnlyRead, RowsAdvance
     DEF readVars, HeldRowsArePast, OnlyNewer, TypeInv, TablesOK, Row
<1>2. ASSUME NEW q \in Readers, ReadRows(q)
      PROVE  HeldRowsArePast'
  <2>1. rows' = rows
    BY <1>2 DEF ReadRows, vars
  <2>2. \A a \in page'[q] : shown'[q][a] = rows[a] /\ a \in Approvals
    BY <1>2, RowsRead, ReadersStep DEF ReadersOK
  <2>. QED
    BY <1>2, <2>1, <2>2, RowsRead, VersionsAreNumbers DEF HeldRowsArePast
<1>3. ASSUME NEW q \in Readers, ReadOpinions(q)
      PROVE  HeldRowsArePast'
  BY <1>3 DEF ReadOpinions, vars, HeldRowsArePast
<1>. QED
  BY <1>1, <1>2, <1>3 DEF ReadsNext, allVars, readVars

----------------------------------------------------------------------------
(* The timeline of a page *)

LEMMA TimelineStep ==
  ASSUME TypeInv, TypeInv', ReadersOK, EachTransitionHasAnOpinion, HeldRowsArePast,
         TimelineIsComplete, [ReadsNext]_allVars
  PROVE  TimelineIsComplete'
<1> DEFINE Complete(q, a, S) ==
      \A c \in S :
        c.approval = a /\ c.op = "transition" /\ c.version <= shown[q][a].version =>
          \E o \in Slips(q, a) : o.version = c.version /\ o.status = c.to
<1>1. CASE UNCHANGED readVars
  <2>1. ASSUME NEW q \in Readers, stage[q] = "done", NEW a \in page[q]
        PROVE  Complete(q, a, commits')
    <3>1. Complete(q, a, commits)
      BY <2>1 DEF TimelineIsComplete
    <3>2. ASSUME NEW c \in commits' \ commits, c.approval = a, c.op = "transition"
          PROVE  ~(c.version <= shown[q][a].version)
      <4>1. c.version > rows[a].version /\ c.version \in Nat
        BY <3>2, ReadersOnlyRead, WritersOnlyAdd DEF OnlyNewer, TypeInv, TablesOK, Commit
      <4>. QED
        BY <4>1, VersionsAreNumbers DEF HeldRowsArePast
    <3>. QED
      BY <3>1, <3>2
  <2>. QED
    BY <1>1, <2>1 DEF readVars, TimelineIsComplete, Slips
<1>2. ASSUME NEW q \in Readers, ReadRows(q)
      PROVE  TimelineIsComplete'
  BY <1>2, RowsRead DEF TimelineIsComplete, Slips, vars
<1>3. ASSUME NEW q \in Readers, ReadOpinions(q)
      PROVE  TimelineIsComplete'
  <2>1. \A a \in page[q] : \A c \in commits :
          c.approval = a /\ c.op = "transition" =>
            \E o \in Slips(q, a)' : o.version = c.version /\ o.status = c.to
    BY <1>3, OpinionsRead DEF EachTransitionHasAnOpinion
  <2>. QED
    BY <1>3, <2>1, OpinionsRead DEF TimelineIsComplete, Slips, vars
<1>. QED
  BY <1>1, <1>2, <1>3 DEF ReadsNext, allVars, readVars

\* Whatever is stored between the two queries of a page, and whatever versions the
\* writers name, no transition up to the row shown is missing from its timeline
\* (repository/stage_approval.go:31-60).
THEOREM TimelinesAreComplete == ReadsSpec => []TimelineIsComplete
<1> DEFINE Inv == /\ TypeInv /\ ReadersOK /\ EachTransitionHasAnOpinion
                  /\ HeldRowsArePast /\ TimelineIsComplete
<1>1. ReadsInit => Inv
  BY TypeInit, ReadersInit DEF ReadsInit, Init, EachTransitionHasAnOpinion, HeldRowsArePast,
                               TimelineIsComplete
<1>2. Inv /\ [ReadsNext]_allVars => Inv'
  BY ReadersOnlyRead, TypeStep, ReadersStep, WritersOnlyAdd, HeldRowsStep, TimelineStep
<1>. QED
  BY <1>1, <1>2, PTL DEF ReadsSpec

----------------------------------------------------------------------------
(* The status of a page *)

\* Opinions newer than the row explain nothing less.
LEMMA NewerChangesNothing ==
  ASSUME NEW S, NEW T, NEW a, NEW row, S \subseteq T,
         \A o \in T \ S : o.approval = a => ~(o.version <= row.version),
         LatestExplains(S, a, row)
  PROVE  LatestExplains(T, a, row)
<1>1. UpTo(T, a, row.version) = UpTo(S, a, row.version)
  BY DEF UpTo
<1>. QED
  BY <1>1 DEF LatestExplains

\* The stored row is explained by all its opinions.
LEMMA StoredRowIsExplained ==
  ASSUME OpinionsAreOfThePast, StatusMatchesLatestOpinion, TypeInv, NEW a \in Approvals
  PROVE  LatestExplains(opinions, a, rows[a])
<1>1. UpTo(opinions, a, rows[a].version) = {o \in opinions : o.approval = a}
  BY DEF UpTo, OpinionsAreOfThePast
<1>. QED
  BY <1>1 DEF LatestExplains, StatusMatchesLatestOpinion

LEMMA ExplainedStep ==
  ASSUME TypeInv, TypeInv', ReadersOK, ReadersOK', EachTransitionHasAnOpinion, HeldRowsArePast,
         OpinionsAreOfThePast, StatusMatchesLatestOpinion, HeldRowsAreExplained,
         [ReadsNext]_allVars
  PROVE  HeldRowsAreExplained'
<1>1. CASE UNCHANGED readVars
  <2> SUFFICES ASSUME NEW q \in Readers, stage[q] = "rows", NEW a \in page[q]
               PROVE  LatestExplains(opinions', a, shown[q][a])
    BY <1>1 DEF readVars, HeldRowsAreExplained
  <2>1. LatestExplains(opinions, a, shown[q][a])
    BY DEF HeldRowsAreExplained
  <2>2. ASSUME NEW o \in opinions' \ opinions, o.approval = a
        PROVE  ~(o.version <= shown[q][a].version)
    <3>1. o.version > rows[a].version /\ o.version \in Nat
      BY <2>2, ReadersOnlyRead, WritersOnlyAdd DEF OnlyNewer, TypeInv, TablesOK, Opinion
    <3>. QED
      BY <3>1, VersionsAreNumbers DEF HeldRowsArePast
  <2>3. opinions \subseteq opinions'
    BY ReadersOnlyRead, WritersOnlyAdd DEF OnlyNewer
  <2>. QED
    BY <2>1, <2>2, <2>3, NewerChangesNothing
<1>2. ASSUME NEW x \in Readers, ReadRows(x)
      PROVE  HeldRowsAreExplained'
  <2>1. opinions' = opinions
    BY <1>2 DEF ReadRows, vars
  <2>2. ASSUME NEW q \in Readers, stage'[q] = "rows", NEW a \in page'[q]
        PROVE  LatestExplains(opinions', a, shown'[q][a])
    <3>1. CASE q = x
      <4>1. a \in Approvals /\ shown'[q][a] = rows[a]
        BY <1>2, <2>2, <3>1, RowsRead DEF ReadersOK
      <4>. QED
        BY <2>1, <4>1, StoredRowIsExplained
    <3>2. CASE q # x
      BY <1>2, <2>1, <2>2, <3>2, RowsRead DEF HeldRowsAreExplained
    <3>. QED
      BY <3>1, <3>2
  <2>. QED
    BY <2>2 DEF HeldRowsAreExplained
<1>3. ASSUME NEW q \in Readers, ReadOpinions(q)
      PROVE  HeldRowsAreExplained'
  <2>1. opinions' = opinions
    BY <1>3 DEF ReadOpinions, vars
  <2>. QED
    BY <1>3, <2>1, OpinionsRead DEF HeldRowsAreExplained
<1>. QED
  BY <1>1, <1>2, <1>3 DEF ReadsNext, allVars, readVars

LEMMA StatusStep ==
  ASSUME TypeInv, ReadersOK, HeldRowsAreExplained, StatusIsExplained, [ReadsNext]_allVars
  PROVE  StatusIsExplained'
<1>1. CASE UNCHANGED readVars
  BY <1>1 DEF readVars, StatusIsExplained, Slips
<1>2. ASSUME NEW q \in Readers, ReadRows(q)
      PROVE  StatusIsExplained'
  BY <1>2, RowsRead DEF StatusIsExplained, Slips
<1>3. ASSUME NEW x \in Readers, ReadOpinions(x)
      PROVE  StatusIsExplained'
  <2> SUFFICES ASSUME NEW q \in Readers, stage'[q] = "done", NEW a \in page[q]
               PROVE  LET past == {o \in Slips(q, a)' : o.version <= shown[q][a].version} IN
                      \A o \in past : (\A p \in past : p.version <= o.version) =>
                        o.status = shown[q][a].status
    BY <1>3 DEF StatusIsExplained, ReadOpinions
  <2>1. CASE q = x
    <3>1. Slips(q, a)' = {o \in opinions : o.approval = a}
      BY <1>3, <2>1, OpinionsRead
    <3>2. {o \in Slips(q, a)' : o.version <= shown[q][a].version}
            = UpTo(opinions, a, shown[q][a].version)
      BY <3>1 DEF UpTo
    <3>3. LatestExplains(opinions, a, shown[q][a])
      BY <1>3, <2>1, OpinionsRead DEF HeldRowsAreExplained
    <3>. QED
      BY <3>2, <3>3 DEF LatestExplains
  <2>2. CASE q # x
    <3>1. Slips(q, a)' = Slips(q, a) /\ stage[q] = "done"
      BY <1>3, <2>2, OpinionsRead DEF Slips
    <3>. QED
      BY <3>1 DEF StatusIsExplained
  <2>. QED
    BY <2>1, <2>2
<1>. QED
  BY <1>1, <1>2, <1>3 DEF ReadsNext, allVars, readVars

\* When every client sends back a version it was shown, a page never shows a status that
\* its own timeline contradicts: the latest opinion up to the row names it.
THEOREM StatusesAreExplained ==
  ASSUME AheadVersions = {}
  PROVE  ReadsSpec => []StatusIsExplained
<1> DEFINE Stored == /\ TypeInv /\ ReadsAreFresh /\ EachTransitionHasAnOpinion
                     /\ OpinionsAreOfThePast /\ StatusMatchesLatestOpinion
           Inv == /\ Stored /\ ReadersOK /\ HeldRowsArePast
                  /\ HeldRowsAreExplained /\ StatusIsExplained
<1>1. ReadsInit => Inv
  BY TypeInit, FreshInit, ReadersInit
     DEF ReadsInit, Init, EachTransitionHasAnOpinion, OpinionsAreOfThePast,
         StatusMatchesLatestOpinion, HeldRowsArePast, HeldRowsAreExplained, StatusIsExplained
<1>2. Inv /\ [ReadsNext]_allVars => Inv'
  <2> SUFFICES ASSUME Inv, [ReadsNext]_allVars PROVE Inv'
    OBVIOUS
  <2>1. Stored'
    BY ReadersOnlyRead, TypeStep, FreshStep, WritersOnlyAdd, OpinionsStep
  <2>2. ReadersOK' /\ HeldRowsArePast'
    BY ReadersStep, HeldRowsStep
  <2>3. HeldRowsAreExplained' /\ StatusIsExplained'
    BY <2>1, <2>2, ExplainedStep, StatusStep
  <2>. QED
    BY <2>1, <2>2, <2>3
<1>. QED
  BY <1>1, <1>2, PTL DEF ReadsSpec
=============================================================================
