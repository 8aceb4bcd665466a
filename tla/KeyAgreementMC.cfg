CONSTANTS
  Initiator = {i1, i2}
  OneTimeCount = 2
  MaxDevices = 2
  MaxOffers = 2
  MaxAnswers = 2
  MaxRestarts = 1
SPECIFICATION Spec
SYMMETRY InitiatorSymmetry
INVARIANTS
  TypeOK
  RootsAgree
  OneTimeKeyServesOnce
  RefusedOnlyIfTaken
CHECK_DEADLOCK FALSE
