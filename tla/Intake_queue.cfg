SPECIFICATION Spec
CONSTANTS
  p1 = p1 p2 = p2 k1 = k1 k2 = k2 e1 = e1 e2 = e2 s1 = s1 s2 = s2
  Phones = {p1, p2}
  Senders = {p1}
  Numbers = {p2}
  Workers = {k1, k2}
  Operators = {s1}
  Outlets <- OneBranch
  RetailerOf <- OneRetailer
  TownOf <- OneTown
  Order <- OneOrder
  PageSize = 8
  Searches = {}
  Weeks = {0}
  Beginnings <- Entering
  Statuses = {}
  IntakePauses = {}
  IdentityStages = {FALSE}
  Events = {e1, e2}
  Reuse = FALSE
  Speech <- Mixed
  MaxAttempts = 2
  MaxAsks = 1
CHECK_DEADLOCK FALSE
INVARIANTS StoredReceiptIsAcknowledged ErasedStaysGone
PROPERTIES ClaimIsKept
