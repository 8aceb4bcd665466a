CONSTANTS
  Message = {m1, m2}
  BaseDelay = 1
  MaxDelay = 3
  MaxAttempts = 2
  AttemptCap = 3
  MaxFaults = 1
  NoItem = NoItem
SPECIFICATION FairSpec
INVARIANTS
  TypeOK
  AcceptedWasMailed
  EveryExtraMailHasLostAnswer
PROPERTIES
  NoEarlyRetry
  ImplementsCarefulMailer
  DeliverySettles
CHECK_DEADLOCK FALSE
