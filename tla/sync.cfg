SPECIFICATION Spec
CONSTANTS
  t1 = t1
  t2 = t2
  Threads <- TwoThreads
  Callbacks <- CallbackKinds
  Main = t1
  MaxOps = 2
  Scenarios <- MCScenarios
INVARIANTS TypeOK WaitsForRunningLoop ClosedInOrder EventsDelivered
PROPERTIES CallsReturn
CHECK_DEADLOCK FALSE
