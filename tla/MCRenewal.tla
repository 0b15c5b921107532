----------------------------- MODULE MCRenewal -----------------------------
EXTENDS Renewal, TLC

CONSTANTS d1, d2, c1, c2

TwoDomains == {d1, d2}
OneDomain == {d1}
TwoCallers == {c1, c2}
Symmetry == Permutations(TwoDomains) \cup Permutations(TwoCallers)
=============================================================================
