SPECIFICATION Spec
CONSTANTS
  k1 = k1
  k2 = k2
  r1 = r1
  r2 = r2
  Keys <- MCKeys
  Requests <- MCRequests
  IdLists <- MCIdLists
  Csrs <- MCCsrs
  Approvals = {"auto", "validator", "none"}
  MaxOrders = 2
  MaxCerts = 3
INVARIANTS TypeOK OneAccountPerKey OneCertificatePerOrder CertificatesMatchOrders
PROPERTIES OrdersMoveForward ImplementsOrderLifecycle
SYMMETRY Symmetry
CHECK_DEADLOCK FALSE
