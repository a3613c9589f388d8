CONSTANTS
  GroupBits = 2
  WordBits = 4
  KeyLength = 2
  Inputs <- CountedMessages
  Messages = {}
  DamageBytes = {}
  MaxDamage = 0
CHECK_DEADLOCK FALSE
SPECIFICATION Spec
INVARIANTS KeysAreInTheInput
