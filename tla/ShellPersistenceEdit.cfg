CONSTANTS
  None = None
  Empty = Empty
  Torn = Torn
  MaxProfiles = 3
  MaxFaults = 1
  MaxCrashes = 0
SPECIFICATION Spec
PROPERTIES
  EditIsSaved
CHECK_DEADLOCK FALSE
