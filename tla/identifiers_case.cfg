SPECIFICATION Spec
CONSTANTS
    Requests <- MCRequests
    WireOrders <- MCWireOrders
    Requesters <- MCRequesters
    StraySANs <- MCStraySANs
    MaxIssues = 3
INVARIANT StoredUnderItsName
CHECK_DEADLOCK FALSE
