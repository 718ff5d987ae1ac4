----------------------------- MODULE MCReceipts -----------------------------
(* Two receipts of two participants; the second receipt's number can be read *)
(* in two ways, one of them the first one's.                                 *)
EXTENDS Receipts, TLC

CONSTANTS r1, r2, q1, q2, p1, p2, w1, w2, j1, j2

TwoOwners == (r1 :> q1) @@ (r2 :> q2)
Reads     == (r1 :> {p1}) @@ (r2 :> {p1, p2})
OneOwner  == r1 :> q1
OneRead   == r1 :> {p1}
JobSymmetry == Permutations(Jobs)
NoPairs   == {}
=============================================================================
