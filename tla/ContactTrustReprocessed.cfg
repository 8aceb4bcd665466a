CONSTANTS
  Email = {e1, e2}
  InviteLife = 1
  PrekeyLife = 1
  MaxInvites = 1
  MaxIdentities = 2
  MaxTime = 2
SPECIFICATION Spec
PROPERTIES
  ReprocessingKeepsContact
CHECK_DEADLOCK FALSE
