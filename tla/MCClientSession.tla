-------------------------- MODULE MCClientSession --------------------------
EXTENDS ClientSession, TLC

CONSTANTS t1, t2

TwoTasks == {t1, t2}
Symmetry == Permutations(TwoTasks)

Basic == {"account", "request", "rollover"}

With(exclusive, store, given, calls, faults, most) ==
    [exclusive |-> exclusive, store |-> store, given |-> given,
     faults |-> faults, ops |-> calls, maxOps |-> most]
Do(exclusive, calls, faults) ==
    With(exclusive, TRUE, FALSE, calls, faults, IF exclusive THEN 4 ELSE 3)

MCScenarios == {
    Do(FALSE, Basic, {"expire", "refuse", "lose", "cancel", "restart"}),
    Do(FALSE, Ops, {"refuse", "lose", "cancel"}),
    Do(TRUE, Basic, {"expire", "refuse", "save", "restart"}),
    Do(TRUE, Basic, {"expire", "refuse", "restart"}),
    Do(TRUE, Basic, {"expire", "save", "restart"}),
    Do(TRUE, Ops, {"expire"}),
    Do(TRUE, Basic, {"expire", "refuse", "lose"}),
    With(TRUE, TRUE, TRUE, Basic, {"save", "restart"}, 4),
    With(TRUE, FALSE, FALSE, Basic, {"restart"}, 4),
    With(FALSE, FALSE, TRUE, Ops, {"lose"}, 2)}
=============================================================================
