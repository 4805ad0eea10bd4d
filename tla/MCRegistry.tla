----------------------------- MODULE MCRegistry -----------------------------
(***************************************************************************)
(* Registry on small instances.                                            *)
(***************************************************************************)
EXTENDS Registry, TLC

RequestSymmetry == Permutations(Requests)
=============================================================================
