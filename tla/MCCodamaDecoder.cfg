CONSTANTS
  NibbleRadix = 2
  KeyLength = 2
  WidthOf <- MCWidthOf
  MaxUsize = 15
  MaxReserve = 15
  NotUtf8 = {3}
  Programs <- MCPrograms
  Inputs <- MCInputs
  Calls <- MCCalls
CHECK_DEADLOCK FALSE
SPECIFICATION Spec
INVARIANTS EncodedIsDecoded DecodedIsTheData IndexAgreesWithSchema
