CONSTANTS
  None = None
  Empty = Empty
  Torn = Torn
  MaxProfiles = 3
  MaxFaults = 1
  MaxCrashes = 2
SPECIFICATION Spec
INVARIANTS
  TypeOK
  SettledIsSaved
PROPERTIES
  LoadingKeepsTheCopies
CHECK_DEADLOCK FALSE
