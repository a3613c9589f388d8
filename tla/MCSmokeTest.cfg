CONSTANTS
  Reviews = {}
  VisibleLines = 3
  Selected <- MCSelected
  ReviewOf <- MCReviewOf
  ImportPages <- MCImportPages
  Normal <- MCNormal
  MaxScrolls = 24
  MaxPages = 32
CHECK_DEADLOCK FALSE
SPECIFICATION SmokeSpec
INVARIANTS AppDidWhatWasTested FaultIsFound TestIsPatient
PROPERTIES GoodAppPasses
