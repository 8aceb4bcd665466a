CONSTANTS
  Email = {e1}
  InviteLife = 0
  PrekeyLife = 0
  MaxInvites = 1
  MaxIdentities = 2
  MaxTime = 1
  Message = {m1}
  BaseDelay = 1
  MaxDelay = 1
  MaxAttempts = 1
  AttemptCap = 1
  MaxFaults = 0
  NoItem = NoItem
SPECIFICATION AppSpec
INVARIANTS
  TypeOK
  TrustIsFirstUseOrUser
  StoredAnswerHasContact
  AppTypeOK
  MailGoesToTrustedIdentity
PROPERTIES
  OnlyTheUserLiftsABlock
CHECK_DEADLOCK FALSE
