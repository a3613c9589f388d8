CONSTANTS
  GroupBits = 2
  WordBits = 5
  KeyLength = 1
  Inputs = {}
  Messages <- MCMessages
  DamageBytes = {0, 1, 5}
  MaxDamage = 1
CHECK_DEADLOCK FALSE
SPECIFICATION Spec
INVARIANTS MessagesAreAccepted AcceptedIsSerialized AccountsAreSolanas
