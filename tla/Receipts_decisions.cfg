SPECIFICATION Spec
CONSTANTS
  r1 = r1 r2 = r2 q1 = q1 q2 = q2 p1 = p1 p2 = p2
  w1 = w1 w2 = w2 j1 = j1 j2 = j2
  None = None
  Receipts = {r1, r2}
  Workers = {w1}
  Jobs = {j1, j2}
  Participants = {q1, q2}
  OwnerOf <- TwoOwners
  Purchases = {p1, p2}
  ReadsOf <- Reads
  Alike <- NoPairs
  Copies <- NoPairs
  MaxAttempts = 1
  MaxRetries = 0
  MaxAsks = 1
  Cuts = {FALSE}
SYMMETRY JobSymmetry
CHECK_DEADLOCK FALSE
INVARIANTS CreditMatchesEntry ReviewHasOpenTask SecondPresenterIsReviewed
