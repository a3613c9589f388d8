CONSTANTS
  Reviews <- MCReviews
  VisibleLines = 2
SPECIFICATION FairSpec
INVARIANTS EverySectionOpened PatientUserSawAll
PROPERTIES ReviewEnds
CHECK_DEADLOCK FALSE
