------------------------------ MODULE MCIssue ------------------------------
EXTENDS Issue, TLC

CONSTANTS c1, c2

TwoCalls == {c1, c2}

Do(sequential, handler, sharing, faults) ==
    [sequential |-> sequential, handler |-> handler, sharing |-> sharing,
     faults |-> faults]

MCScenarios == {
    Do(FALSE, "cloudflare", {"identifiers", "calls"}, {"early", "refuse", "provision"}),
    Do(TRUE, "route53", {}, {"cancel", "propagation"}),
    Do(TRUE, "hook", {"identifiers"}, {"propagation", "deprovision", "lost"}),
    Do(FALSE, "http", {}, {"save", "record"}),
    Do(TRUE, "http", {}, {"request", "provision"})}

\* An apex and its wildcard in one call, nothing going wrong.
ApexAndWildcard == {Do(TRUE, "route53", {"identifiers"}, {})}
=============================================================================
