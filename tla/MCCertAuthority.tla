--------------------------- MODULE MCCertAuthority ---------------------------
EXTENDS CertAuthority, TLC
CONSTANTS p1, p2, p3
ThreeProcesses == {p1, p2, p3}
Symmetry == Permutations(ThreeProcesses)

MCFaultSets == {{"crash"}, {"crash", "save"}}
=============================================================================
