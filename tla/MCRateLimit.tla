---------------------------- MODULE MCRateLimit ----------------------------
EXTENDS RateLimit, TLC

CONSTANTS t1, t2

TwoThreads == {t1, t2}
Symmetry == Permutations(TwoThreads)

Labels == {"*", "www", "WWW", "a", "A", "b", "org", "co", "uk"}
MCLowerCase == [l \in Labels |-> CASE l = "A" -> "a" [] l = "WWW" -> "www" [] OTHER -> l]
MCKnownSlds == {<<"co", "uk">>}
MCPublicSuffixes == {<<"org">>, <<"uk">>, <<"co", "uk">>}
MCOrders == {{<<"a", "org">>, <<"www", "a", "co", "uk">>},
             {<<"*", "A", "org">>},
             {<<"b", "co", "uk">>}}

Do(window, block, shared, serial, faults, max) ==
    [window |-> window, block |-> block, shared |-> shared, serial |-> serial,
     faults |-> faults, max |-> max]

MCScenarios == {
    Do(2, TRUE, FALSE, TRUE, {}, 4), Do(1, TRUE, FALSE, TRUE, {}, 4),
    Do(2, TRUE, TRUE, FALSE, {"save", "crash"}, 2),
    Do(1, TRUE, FALSE, FALSE, {}, 2), Do(1, FALSE, FALSE, TRUE, {"crash"}, 2),
    Do(2, TRUE, FALSE, TRUE, {"read"}, 3)}
=============================================================================
