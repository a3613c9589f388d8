CONSTANTS
  NibbleRadix = 2
  KeyLength = 2
  WidthOf <- MCWidthOf
  MaxUsize = 15
  MaxReserve = 7
  NotUtf8 = {3}
  Programs <- CountPrograms
  Inputs <- CountInputs
  Calls = {}
CHECK_DEADLOCK FALSE
SPECIFICATION Spec
INVARIANTS ShortDataIsRefused
