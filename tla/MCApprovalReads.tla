--------------------------- MODULE MCApprovalReads ---------------------------
(***************************************************************************)
(* ApprovalReads on small instances.                                       *)
(***************************************************************************)
EXTENDS ApprovalReads, TLC

RequestSymmetry == Permutations(Requests)
=============================================================================
