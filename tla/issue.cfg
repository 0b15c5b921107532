SPECIFICATION Spec
CONSTANTS
  c1 = c1
  c2 = c2
  Calls <- TwoCalls
  N = 2
  MaxPolls = 1
  Limit = 1
  Scenarios <- MCScenarios
INVARIANTS TypeOK ResponseAvailable IssuedIsComplete CleanedUp ReturnedWithinLimit
PROPERTIES FailureIsNotMasked CallsEnd
CHECK_DEADLOCK FALSE
