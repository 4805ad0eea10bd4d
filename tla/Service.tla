------------------------------- MODULE Service -------------------------------
(***************************************************************************)
(* What the four business services have in common: the operations and      *)
(* their answers, the route guards, the guarded UPDATE and DELETE of       *)
(* repository/base.go, and which operations report that their audit entry  *)
(* could not be stored.  Constant-level definitions only.                  *)
(***************************************************************************)
EXTENDS Naturals, Workflow

Ops            == {"create", "update", "transition", "delete"}
InFlight       == {"write", "audit", "reply"}
Refusals       == {"forbidden", "invalid_request", "not_found",
                   "version_conflict", "business_rule"}
Answers        == Refusals \union {"ok", "internal_error", "lost"}

----------------------------------------------------------------------------
(* Rows *)

LiveRow(status, version, fields) ==
  [status |-> status, version |-> version, fields |-> fields, deleted |-> FALSE]

\* No row: version 0.
NoRow == LiveRow("draft", 0, "seed")

\* Under gorm's soft-delete scope only such a row is found.
Live(row) == row.version > 0 /\ ~row.deleted

\* Deviation: an UPDATE by id alone.
RowIsLive(row, version) == Live(row) /\ version \in Nat

\* WHERE id = ? AND version = ?, under the soft-delete scope.
VersionMatches(row, version) == Live(row) /\ row.version = version

\* DELETE under the soft-delete scope: RowsAffected is 0 once it is deleted.
DeleteMatches(row) == Live(row)

----------------------------------------------------------------------------
(* Guards and audits *)

\* The route guards: handler Register.
Admits(role, op) ==
  IF op = "delete" THEN role = "admin" ELSE HasMinimumRole(role, "operator")

\* Deviation: no operation reports a failed audit.
NoAuditFailureReported(op) == op \notin Ops

\* Create and Update discard the error of Audit.
ReportsAuditFailure(op) == op \in {"transition", "delete"}
=============================================================================
