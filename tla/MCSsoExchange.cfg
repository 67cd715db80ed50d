CONSTANTS
  Calls = {c1, c2}
  Goodbye = Goodbye
  None = None
  MaxServed = 1
  MaxRuns = 2
  MaxFaults = 1
SPECIFICATION Spec
INVARIANTS
  AnswersAreTheCalls
  ExecutedOnceARun
PROPERTIES
  EverythingEnds
CHECK_DEADLOCK FALSE
