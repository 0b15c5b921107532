SPECIFICATION Spec
CONSTANTS
  MaxSaves = 3
  Domains = {"a", "A"}
  Readers = {"r1"}
  FaultSets <- MCFaultSets
INVARIANTS TypeOK MetaIsOldest OneOwner SettledIsWhole
CHECK_DEADLOCK FALSE
