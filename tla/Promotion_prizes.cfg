SPECIFICATION PromotionSpec
CONSTANTS
  q1 = q1 q2 = q2 q3 = q3 e1 = e1 e2 = e2 e3 = e3
  w1 = w1 w2 = w2 s1 = s1 o1 = o1 a1 = a1
  Nobody = Nobody
  OwnerOf <- MCOwnerOf
  PeriodOf <- MCPeriodOf
  Rank <- MCRank
  StartingRoles <- FixedRoles
  Contested = {e2}
  Clock = FALSE
  Staff = {o1, a1}
  Reassignable = {}
  Editable = {}
  PauseFlags = {}
  Participants = {q1, q2, q3}
  Entries = {e1, e2, e3}
  Periods = {w1}
  Seeds = {s1}
  MaxDraws = 1
  TotalWinners = 1
  TotalAlternates = 2
  OnePrize = TRUE
  CampaignExclusion = FALSE
  Cuts = {FALSE}
CHECK_DEADLOCK FALSE
INVARIANTS AlternatesKeepTheirOrder
PROPERTIES PrizesKeepThePromise
