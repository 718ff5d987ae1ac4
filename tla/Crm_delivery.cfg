SPECIFICATION FairCrm
CONSTANTS
  x1 = x1 w1 = w1 w2 = w2
  Entities = {x1}
  Workers = {w1}
  Refused = {}
  MaxAttempts = 2
  MaxRequeues = 1
  ScanLimit = 3
  MaxVersion = 2
  MaxFaults = 3
  MaxAsks = 1
CHECK_DEADLOCK FALSE
INVARIANTS DeliveredIsHeld StampedWasAccepted
PROPERTIES CrmCatchesUp
