-------------------------- MODULE MCACMEResponder --------------------------
EXTENDS ACMEResponder, TLC

CONSTANTS k1, k2, r1, r2

dns == [kind |-> "dns", wildcard |-> FALSE, name |-> "a"]
star == [kind |-> "dns", wildcard |-> TRUE, name |-> "a"]
ip == [kind |-> "ip", wildcard |-> FALSE, name |-> "a"]

MCKeys == {k1, k2}
MCRequests == {r1, r2}
MCIdLists == {<<dns, star>>, <<ip>>}
MCCsrs == {{dns, star}, {dns}, {ip}}
Symmetry == Permutations(MCKeys) \cup Permutations(MCRequests)
=============================================================================
