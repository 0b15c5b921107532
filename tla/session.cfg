SPECIFICATION Spec
CONSTANTS
  t1 = t1
  t2 = t2
  Tasks <- TwoTasks
  MaxKeys = 4
  Scenarios <- MCScenarios
INVARIANTS TypeOK NoncesAreSentOnce NothingIsRefused KeyMatchesServer AccountUrlKeptAlone
PROPERTIES RetryUsesFreshNonce
SYMMETRY Symmetry
CHECK_DEADLOCK FALSE
