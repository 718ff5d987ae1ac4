SPECIFICATION Spec
CONSTANTS
  p1 = p1 p2 = p2 k1 = k1 k2 = k2 e1 = e1 e2 = e2 s1 = s1 s2 = s2
  Phones = {p1}
  Senders = {p1}
  Numbers = {}
  Workers = {k1}
  Operators = {s1}
  Outlets <- Branches11
  RetailerOf <- MCRetailerOf
  TownOf <- MCTownOf
  Order <- MCOrder
  PageSize = 8
  Searches <- MCSearches
  Weeks = {0, 9}
  Beginnings <- Newcomers
  Statuses = {"closed"}
  IntakePauses = {TRUE}
  IdentityStages = {TRUE, FALSE}
  Events = {e1}
  Reuse = TRUE
  Speech <- Everything
  MaxAttempts = 1
  MaxAsks = 0
CHECK_DEADLOCK FALSE
INVARIANTS HeldOnlyWhileOwned EveryOptionCanBeChosen
PROPERTIES TermsComeLast
