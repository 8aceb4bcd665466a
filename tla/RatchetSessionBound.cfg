CONSTANTS
  Alice = Alice
  Bob = Bob
  NoKey = NoKey
  MaxSkipped = 2
  MaxReplay = 3
  MaxSeals = 4
  MaxRestarts = 0
SPECIFICATION Spec
INVARIANTS
  SkippedBoundIsHonest
CHECK_DEADLOCK FALSE
