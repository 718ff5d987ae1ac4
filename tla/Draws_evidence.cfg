SPECIFICATION Spec
CONSTANTS
  q1 = q1 q2 = q2 e1 = e1 e2 = e2 e3 = e3 w1 = w1 s1 = s1 s2 = s2
  o1 = o1 o2 = o2 a1 = a1 a2 = a2
  Nobody = Nobody
  OwnerOf <- MCOwnerOf
  PeriodOf <- MCPeriodOf
  Rank <- MCRank
  Staff = {o1, a1}
  StartingRoles <- FixedRoles
  Reassignable = {}
  Contested = {e1, e3}
  Editable = {}
  PauseFlags = {FALSE, TRUE}
  Participants = {q1, q2}
  Entries = {e1, e3}
  Periods = {w1}
  Seeds = {s1}
  MaxDraws = 2
  TotalWinners = 1
  TotalAlternates = 1
  OnePrize = TRUE
  CampaignExclusion = FALSE
  Cuts = {FALSE, TRUE}
CHECK_DEADLOCK FALSE
INVARIANTS OneLiveDraw AwardedEntriesAreInTheSnapshot FrozenPoolIsLeftUnderTwoNames ResultFollowsFromFreeze
PROPERTIES FrozenEvidenceIsImmutable ImplementsPromise
