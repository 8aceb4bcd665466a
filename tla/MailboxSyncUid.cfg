CONSTANTS
  MaxMail = 3
  MaxExpunges = 1
  MaxBodiless = 0
  MaxFaults = 0
SPECIFICATION Spec
INVARIANTS
  CursorIsUidCursor
CHECK_DEADLOCK FALSE
