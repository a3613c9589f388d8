CONSTANTS
  Texts <- MCTexts
  Messages <- MCMessages
  Idls <- MCIdls
  AttestationLists <- MCAttestationLists
  ProgramIdOf <- MCProgramIdOf
  ChunkSize = 12
  KeyLength = 2
  SignatureLength = 1
  MaxHostIdl = 8
  MaxHostAttestations = 3
  MaxSignPayload = 32
  MaxLoadIdlPayload = 20
  MaxImportedIdl = 7
  MaxAttestations = 2
  MaxRuns = 2
CHECK_DEADLOCK FALSE
SPECIFICATION Spec
INVARIANTS DeviceReadsTheCommand AnswerTellsTheSlot PathMeansItsText
PROPERTIES RefusedForAReason
