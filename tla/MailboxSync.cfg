CONSTANTS
  MaxMail = 5
  MaxExpunges = 2
  MaxBodiless = 1
  MaxFaults = 2
SPECIFICATION FairSpec
INVARIANTS
  TypeOK
  NoGapWithoutExpunge
PROPERTIES
  EveryMessageIsHandled
CHECK_DEADLOCK FALSE
