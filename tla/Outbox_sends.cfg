SPECIFICATION FairOutbox
CONSTANTS
  m1 = m1 m2 = m2 w1 = w1 w2 = w2
  Messages = {m1}
  Replies = {}
  Support = {m1}
  Workers = {w1, w2}
  MaxAttempts = 2
  MaxAsks = 2
  Drops = FALSE
CHECK_DEADLOCK FALSE
INVARIANTS AcceptedOncePerRequest
PROPERTIES DeliveryStands EveryMessageSettles
