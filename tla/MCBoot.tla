------------------------------- MODULE MCBoot -------------------------------
(***************************************************************************)
(* Two tables with one seed row each and one client row in the second; the *)
(* order of the tables is the order in which Seed fills them.              *)
(***************************************************************************)
EXTENDS Boot

CONSTANTS users, approvals, u1, s1, s2, c1

TwoTables      == <<users, approvals>>
SeedsOfTwo     == [t \in {users, approvals} |-> IF t = users THEN {u1} ELSE {s1, s2}]
ClientsOfTwo   == [t \in {users, approvals} |-> IF t = users THEN {} ELSE {c1}]
=============================================================================
