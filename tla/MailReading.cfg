CONSTANTS
  Alice = Alice
  Bob = Bob
  NoKey = NoKey
  MaxSkipped = 2
  MaxReplay = 3
  MaxSeals = 4
  MaxRestarts = 1
  MaxMail = 2
SPECIFICATION MailSpec
INVARIANTS
  TypeOK
  ReplayVerdictExact
  NoHonestAbort
  UnreadStaysReadable
  NumberReuseNeedsOrphan
  ForwardSecrecy
  SkippedKeysWait
  MailTypeOK
  CursorPassesOnlyRead
  ArrivedStaysReadable
PROPERTIES
  ImplementsChannel
CHECK_DEADLOCK FALSE
