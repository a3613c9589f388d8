CONSTANTS
  FirstCapacity = 2
  NextCapacity = 3
  Lengths = {1, 2, 3, 5, 6}
  MaxAnswers = 3
  MaxFaults = 1
CHECK_DEADLOCK FALSE
SPECIFICATION Spec
INVARIANTS AnswersAreWhole NoFailureWithoutFault
