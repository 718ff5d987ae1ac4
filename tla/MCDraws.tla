------------------------------ MODULE MCDraws ------------------------------
(* Instances of Draws for TLC. *)
EXTENDS DrawsImplementPromise, TLC

CONSTANTS q1, q2, e1, e2, e3, w1, s1, s2, o1, a1, o2, a2

\* e1 and e2 belong to one participant, e3 to another; one period.
MCOwnerOf == [e \in Entries |-> IF e = e3 THEN q2 ELSE q1]
MCPeriodOf == [e \in Entries |-> w1]
\* The two seeds disagree on the winner and on which of q1's entries counts.
Forward == (e1 :> 1) @@ (e2 :> 2) @@ (e3 :> 3)
Backward == (e1 :> 3) @@ (e2 :> 2) @@ (e3 :> 1)
MCRank == [s \in Seeds |-> [e \in Entries |-> IF s = s1 THEN Forward[e] ELSE Backward[e]]]

AnyRoles == [Staff -> Role]
\* o1, o2 freeze and execute, a1, a2 approve and void.
FixedRoles ==
  {[u \in Staff |-> IF u \in {o1, o2} THEN "draw_officer" ELSE "draw_approver"]}

StaffSymmetry == Permutations(Staff)
=============================================================================
