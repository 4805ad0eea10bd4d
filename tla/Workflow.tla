------------------------------ MODULE Workflow ------------------------------
(***************************************************************************)
(* The vocabulary every aggregate shares: the status graphs of             *)
(* backend/internal/constants/status.go and the role ranks of              *)
(* backend/internal/middleware/auth.go.  Constant-level definitions only.  *)
(***************************************************************************)
EXTENDS Naturals

\* A graph maps each status to the set of statuses it may become.
ArtifactTransitions ==
  [ registered |-> {"stable", "treatment"},
    stable     |-> {"treatment", "closed", "registered"},
    treatment  |-> {"closed", "stable"},
    closed     |-> {"treatment"} ]

TreatmentPlanTransitions ==
  [ draft     |-> {"review", "approved"},
    review    |-> {"approved", "completed", "draft"},
    approved  |-> {"completed", "review"},
    completed |-> {"approved"} ]

MaterialTestTransitions ==
  [ planned  |-> {"running", "verified"},
    running  |-> {"verified", "invalid", "planned"},
    verified |-> {"invalid", "running"},
    invalid  |-> {"verified"} ]

StageApprovalTransitions ==
  [ draft    |-> {"review"},
    review   |-> {"approved", "rejected", "draft"},
    approved |-> {},
    rejected |-> {"draft", "review"} ]

\* An unknown source or target status is never allowed.
CanTransition(graph, from, to) ==
  from \in DOMAIN graph /\ to \in graph[from]

Roles == {"viewer", "operator", "reviewer", "admin"}

RoleRank == [viewer |-> 1, operator |-> 2, reviewer |-> 3, admin |-> 4]

\* middleware.RequireMinimumRole
HasMinimumRole(role, minimum) == RoleRank[role] >= RoleRank[minimum]
=============================================================================
