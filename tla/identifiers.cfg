SPECIFICATION Spec
CONSTANTS
    Requests <- MCRequests
    WireOrders <- MCWireOrders
    Requesters <- MCRequesters
    StraySANs <- MCStraySANs
    MaxIssues = 3
INVARIANTS CSRBinding IdentifiersKept RenewalReplaces
CHECK_DEADLOCK FALSE
