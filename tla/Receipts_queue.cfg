SPECIFICATION FairReceipts
CONSTANTS
  r1 = r1 r2 = r2 q1 = q1 q2 = q2 p1 = p1 p2 = p2
  w1 = w1 w2 = w2 j1 = j1 j2 = j2
  None = None
  Receipts = {r1}
  Workers = {w1, w2}
  Jobs = {j1, j2}
  Participants = {q1}
  OwnerOf <- OneOwner
  Purchases = {p1}
  ReadsOf <- OneRead
  Alike <- NoPairs
  Copies <- NoPairs
  MaxAttempts = 2
  MaxRetries = 1
  MaxAsks = 0
  Cuts = {FALSE}
CHECK_DEADLOCK FALSE
PROPERTY SubmissionsSettle
