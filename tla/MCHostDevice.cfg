CONSTANTS
  p = p  q = q  m1 = m1  m2 = m2  t1 = t1  t2 = t2
  good = good  s1 = s1  sep = sep  prog = prog  token = token
  Paths <- MCPaths
  Bytes <- MCBytes
  Attestations <- MCAttestations
  AttestationOf <- MCAttestationOf
  DomainSeparator = sep
  ProgramOf <- MCProgramOf
  Reviewable <- MCReviewable
  BuiltinPrograms <- MCBuiltin
  Programs <- MCPrograms
  Nano = TRUE
  MaxSignPayload = 4
  MaxLoadIdlPayload = 6
  MaxImportedIdl = 2
  MaxAttestations = 1
  Data <- HostData
  MaxExchanges = 10
  Commands <- MCCommands
  ChunkUnits = 3
  MaxRuns = 3
  MaxRestarts = 1
CHECK_DEADLOCK FALSE
SPECIFICATION HostSpec
INVARIANTS PrintedIsForTheCommand AnswerIsDue
PROPERTIES SignIsNeverOutOfSequence EveryRunEnds
