---------------------------- MODULE MCPromotion ----------------------------
(* Instances of Promotion for TLC. *)
EXTENDS Promotion, TLC

CONSTANTS q1, q2, q3, e1, e2, e3, w1, w2, s1, o1, a1

\* One entry each; e3 is the first to be drawn, e1 the last.
MCOwnerOf == [e \in Entries |-> IF e = e1 THEN q1 ELSE IF e = e2 THEN q2 ELSE q3]
MCPeriodOf == [e \in Entries |-> w1]
MCRank == [s \in Seeds |-> [e \in Entries |-> IF e = e1 THEN 3 ELSE IF e = e2 THEN 2 ELSE 1]]

FixedRoles == {[u \in Staff |-> IF u = o1 THEN "draw_officer" ELSE "draw_approver"]}
=============================================================================
