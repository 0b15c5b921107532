SPECIFICATION Spec
CONSTANTS
  t1 = t1
  t2 = t2
  Threads <- TwoThreads
  Orders <- MCOrders
  LowerCase <- MCLowerCase
  KnownSlds <- MCKnownSlds
  PublicSuffixes <- MCPublicSuffixes
  Limit = 1
  PruneAge = 2
  MaxTime = 3
  Scenarios <- MCScenarios
INVARIANTS TypeOK LimitKept NothingForgotten
PROPERTIES RefusalIsDue
SYMMETRY Symmetry
CHECK_DEADLOCK FALSE
