----------------------------- MODULE MCIntake -----------------------------
(* Instances of Intake for TLC. *)
EXTENDS Intake, TLC

CONSTANTS p1, p2, k1, k2, e1, e2, s1, s2

\* Eleven branches of nine retailers, one more than a page shows; the first
\* retailer has two towns, and two branches in one of them.
Branches11 == 1..11
MCRetailerOf == [o \in Branches11 |-> IF o < 4 THEN 1 ELSE o]
MCTownOf == [o \in Branches11 |-> IF o = 1 THEN 1 ELSE 2]
MCOrder == [o \in Branches11 |-> o]
MCSearches == {{}, Branches11}

OneBranch == {1}
OneRetailer == [o \in OneBranch |-> 1]
OneTown == [o \in OneBranch |-> 1]
OneOrder == [o \in OneBranch |-> o]

\* Options 3 to 5 of a list lead where 6 and 7 lead, a greeting where BACK leads, and
\* REF is taken for the same answers as ID.
Everything == [e \in Events |->
  Vocabulary \ ({Digit(n) : n \in 3..5} \cup {Word("GREETING", Names), Word("ID", Codes)})]
Mixed == [e \in Events |->
  IF e = e1 THEN {Word("IMAGE", {})} ELSE {Digit(0)}]

\* A number nobody knows, and a participant of an earlier campaign.
Unknown == [session |-> NoRow, person |-> Nobody]
Newcomers == [p \in Phones |->
  {Unknown, [session |-> NoRow, person |-> [status |-> "active", enrolled |-> FALSE]]}]
\* An enrolled participant who has just chosen the branch; other numbers are free.
Entering == [p \in Phones |->
  IF p = p1
  THEN {[session |-> [Fresh EXCEPT !.state = "ENTRY_RECEIPT", !.picked = TRUE],
         person |-> [status |-> "active", enrolled |-> TRUE]]}
  ELSE {Unknown}]
=============================================================================
