CONSTANTS
  p = p  m1 = m1  m2 = m2  t1 = t1  t2 = t2
  good = good  bare = bare  other = other  s1 = s1  s2 = s2  sep = sep
  prog = prog  token = token
  Paths <- MCPaths
  Bytes <- MCBytes
  Attestations <- MCAttestations
  AttestationOf <- MCAttestationOf
  DomainSeparator = sep
  ProgramOf <- MCProgramOf
  Reviewable <- MCReviewable
  BuiltinPrograms <- MCBuiltin
  Programs <- MCPrograms
  Nano = FALSE
  MaxSignPayload = 4
  MaxLoadIdlPayload = 6
  MaxImportedIdl = 2
  MaxAttestations = 2
  Data <- SignData
  MaxExchanges = 4
CHECK_DEADLOCK FALSE
SPECIFICATION Spec
INVARIANTS SignedOneUpload RetryIsRefusedOnce AtMostOneUpload OldScreenHasAReason
PROPERTIES SignsOnlyWhatIsShown
