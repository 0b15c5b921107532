SPECIFICATION AuthoritySpec
CONSTANTS
  p1 = p1
  p2 = p2
  p3 = p3
  Processes <- ThreeProcesses
  MaxRoots = 4
  FirstAlone = TRUE
  RootFaultSets <- MCFaultSets
INVARIANTS LeavesVerify OneAuthorityIfSaved
SYMMETRY Symmetry
CHECK_DEADLOCK FALSE
