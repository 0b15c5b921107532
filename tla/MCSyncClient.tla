----------------------------- MODULE MCSyncClient -----------------------------
EXTENDS SyncClient, TLC

CONSTANTS t1, t2

TwoThreads == {t1, t2}

Use(mode, handler, disciplined, issued, all) ==
    [mode |-> mode, handler |-> handler, disciplined |-> disciplined,
     typed |-> "issued" :> issued @@ "warning" :> <<>>, global |-> all]

MCScenarios == {
    Use("thread", "async", TRUE, <<"metrics", "once">>, <<"adds", "raises">>),
    Use("thread", "stuck", TRUE, <<"metrics">>, <<>>),
    Use("thread", "sync", FALSE, <<"metrics">>, <<"async">>),
    Use("thread", "async", FALSE, <<"calls">>, <<>>),
    Use("runner", "sync", TRUE, <<"metrics", "once">>, <<"adds", "async">>),
    Use("runner", "async", TRUE, <<"calls", "once">>, <<"adds">>),
    Use("runner", "async", TRUE, <<"closes", "calls", "async", "metrics">>, <<>>)}
=============================================================================
