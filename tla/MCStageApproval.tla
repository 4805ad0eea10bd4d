--------------------------- MODULE MCStageApproval ---------------------------
(***************************************************************************)
(* StageApproval on small instances.                                       *)
(***************************************************************************)
EXTENDS StageApproval, TLC

RequestSymmetry == Permutations(Requests)
=============================================================================
