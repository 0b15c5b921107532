SPECIFICATION Spec
CONSTANTS
  c1 = c1
  c2 = c2
  Calls <- TwoCalls
  N = 2
  MaxPolls = 1
  Limit = 1
  Scenarios <- ApexAndWildcard
INVARIANT AnnouncedIsAvailable
CHECK_DEADLOCK FALSE
