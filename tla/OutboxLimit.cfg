CONSTANTS
  Message = {m1}
  BaseDelay = 1
  MaxDelay = 3
  MaxAttempts = 2
  AttemptCap = 3
  MaxFaults = 0
  NoItem = NoItem
SPECIFICATION Spec
INVARIANTS
  OfferedWithinLimit
CHECK_DEADLOCK FALSE
