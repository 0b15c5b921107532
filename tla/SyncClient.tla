------------------------------ MODULE SyncClient ------------------------------
(***************************************************************************)
(* SyncClient of lacme/sync.py: threads call blocking methods, each runs a *)
(* coroutine of the async client on the event loop of _AsyncRunner and     *)
(* waits for it; close() closes the HTTP client on that loop, then stops   *)
(* and closes the loop.  The coroutines emit events (EventDispatcher), and *)
(* callbacks run on the loop.                                              *)
(*                                                                         *)
(* Thread mode: the loop runs in a thread of its own and any thread may    *)
(* call.  Runner mode: asyncio.Runner runs the loop inside the call; it    *)
(* belongs to one thread.                                                  *)
(***************************************************************************)
EXTENDS EventDispatcher, FiniteSets

CONSTANTS
    Main,       \* the thread that created the client
    MaxOps,     \* operations per thread
    Scenarios   \* what the application and the environment do: see Scenario

\* What callbacks do: "metrics" counts, "raises" raises, "async" is a
\* coroutine function, "once" unsubscribes itself, "adds" subscribes
\* "listener", "calls" calls a method of the SyncClient, "closes" its close().
CallbackKinds == {"metrics", "raises", "async", "once", "adds", "listener",
                  "calls", "closes"}

\* handler: an async challenge handler, a sync one, or a sync one that never
\* comes back to thread Main.  disciplined: close() is called only while no
\* other thread is inside the client, and nothing begins while it closes.
Scenario == [mode : {"thread", "runner"}, handler : {"async", "sync", "stuck"},
             disciplined : BOOLEAN,
             typed : [Events -> Seq(CallbackKinds)], global : Seq(CallbackKinds)]

ASSUME SyncAssumption ==
    /\ Callbacks \subseteq CallbackKinds /\ ("adds" \in Callbacks => "listener" \in Callbacks)
    /\ IsFiniteSet(Threads) /\ Main \in Threads /\ MaxOps \in Nat
    /\ \A s \in Scenarios :
         /\ s.mode \in {"thread", "runner"} /\ s.handler \in {"async", "sync", "stuck"}
         /\ s.disciplined \in BOOLEAN
         /\ s.typed \in [Events -> Seq(Callbacks)] /\ s.global \in Seq(Callbacks)
         \* Each callback is subscribed once.
         /\ \A e \in Events : IsInjective(s.typed[e] \o s.global)
         \* Who calls the client from a callback, does so on the loop.
         /\ {"calls", "closes"} \cap ToSet(s.typed["warning"] \o s.global) = {}

VARIABLES
    scenario,    \* chosen once, never changed
    isOpen,      \* _AsyncRunner._is_open
    refs,        \* which of _thread, _loop are not None (runner mode: _runner as "_loop")
    loop,        \* the event loop
    stopping,    \* loop.stop was scheduled
    http,        \* the HTTP client
    pc,          \* pc[t]: where thread t is
    op,          \* op[t]: what it does
    result,      \* result[t]: how its last operation ended
    task,        \* task[t]: the coroutine it waits for
    left         \* left[t]: operations it may still begin

runnerVars == <<isOpen, refs, loop, stopping, http>>
threadVars == <<pc, op, result, task, left>>
vars == <<scenario, runnerVars, threadVars, dispatcherVars>>

ThreadMode == scenario.mode = "thread"
AllRefs == IF ThreadMode THEN {"thread", "loop"} ELSE {"loop"}

\* Every variable has its type.
TypeOK ==
    /\ scenario \in Scenarios /\ isOpen \in BOOLEAN
    /\ refs \subseteq {"thread", "loop"}
    /\ loop \in {"running", "blocked", "stopped", "closed"}
    /\ stopping \in BOOLEAN /\ http \in {"open", "closed"}
    /\ pc \in [Threads -> {"idle", "enter", "schedule", "wait", "emit", "stop",
                           "join", "close loop"}]
    /\ op \in [Threads -> {"none", "call", "check", "close"}]
    /\ result \in [Threads -> {"none", "returned", "raised"}]
    /\ task \in [Threads -> {"none", "queued", "handler", "emitting", "cancelled",
                             "returned", "raised"}]
    /\ left \in [Threads -> 0..MaxOps]
    /\ \A e \in Events : typed[e] \in Seq(Callbacks) /\ IsInjective(typed[e])
    /\ global \in Seq(Callbacks)
    /\ \A t \in Threads : at[t] \in 0..Len(snapshot[t]) + 1
    /\ \A e \in Events : counted[e] <= MaxOps * Cardinality(Threads)

\* open: on a running loop (thread mode) or not.
Init ==
    /\ scenario \in Scenarios
    /\ InitDispatcher(scenario.typed, scenario.global)
    /\ isOpen = TRUE
    /\ refs = AllRefs
    /\ loop = "running"
    /\ stopping = FALSE
    /\ http = "open"
    /\ pc = [t \in Threads |-> "idle"]
    /\ op = [t \in Threads |-> "none"]
    /\ result = [t \in Threads |-> "none"]
    /\ task = [t \in Threads |-> "none"]
    /\ left = [t \in Threads |-> MaxOps]

-----------------------------------------------------------------------------
Goto(t, label) == pc' = [pc EXCEPT ![t] = label]
Ends(t, how) == Goto(t, "idle") /\ result' = [result EXCEPT ![t] = how]

\* A thread begins an operation.
Begin(t, o, label, how) ==
    /\ pc[t] = "idle" /\ left[t] > 0
    /\ ThreadMode \/ t = Main
    /\ scenario.disciplined => \A u \in Threads :
           pc[u] # "idle" => o # "close" /\ op[u] # "close"
    /\ Goto(t, label)
    /\ op' = [op EXCEPT ![t] = o]
    /\ result' = [result EXCEPT ![t] = how]
    /\ task' = [task EXCEPT ![t] = "none"]
    /\ left' = [left EXCEPT ![t] = @ - 1]
    /\ UNCHANGED <<scenario, stopping, http, loop, refs>>

\* A method of SyncClient: directory, create_account, issue, revoke, ...
BeginCall(t) ==
    /\ Begin(t, "call", "enter", "none")
    /\ UNCHANGED <<isOpen, dispatcherVars>>

\* check_rate_limits runs in the calling thread and emits there.
BeginCheck(t) ==
    /\ Begin(t, "check", "emit", "none")
    /\ BeginEmission(t, "warning")
    /\ UNCHANGED isOpen

\* Mistake: the client is marked closed before the HTTP client is closed.
BeginCloseMarking(t) ==
    /\ isOpen
    /\ Begin(t, "close", "enter", "none")
    /\ isOpen' = FALSE
    /\ UNCHANGED dispatcherVars

BeginClose(t) ==
    /\ isOpen
    /\ Begin(t, "close", "enter", "none")
    /\ UNCHANGED <<isOpen, dispatcherVars>>

\* close() of a client that is not open returns at once.
CloseAgain(t) ==
    /\ ~isOpen
    /\ Begin(t, "close", "idle", "returned")
    /\ UNCHANGED <<isOpen, dispatcherVars>>

BeginSubscribe(t) ==
    /\ "listener" \in Callbacks \ Subscribed
    /\ Begin(t, "none", "idle", "none")
    /\ \E e \in Events \cup {"any"} : Subscribe("listener", e)
    /\ UNCHANGED <<isOpen, event, snapshot, at, got, counted>>

BeginUnsubscribe(t) ==
    /\ Begin(t, "none", "idle", "none")
    /\ \E cb \in Subscribed \ {"metrics"} : Unsubscribe(cb)
    /\ UNCHANGED <<isOpen, event, snapshot, at, got, counted>>

\* An exception inside run(); close() goes on with its finally block.
Raises(t) ==
    IF op[t] = "close"
    THEN Goto(t, "stop") /\ result' = [result EXCEPT ![t] = "raised"]
    ELSE Ends(t, "raised")

\* run(): is it open?
Enter(t) ==
    /\ pc[t] = "enter"
    /\ IF isOpen THEN Goto(t, "schedule") /\ UNCHANGED result ELSE Raises(t)
    /\ UNCHANGED <<scenario, runnerVars, op, task, left, dispatcherVars>>

\* run(): Runner.run, or run_coroutine_threadsafe, which a stopped loop does
\* not refuse.
Schedule(t) ==
    /\ pc[t] = "schedule"
    /\ \/ /\ refs = AllRefs
          /\ task' = [task EXCEPT ![t] = "queued"]
          /\ Goto(t, "wait")
          /\ UNCHANGED result
       \/ refs # AllRefs /\ Raises(t) /\ UNCHANGED task
    /\ UNCHANGED <<scenario, runnerVars, op, left, dispatcherVars>>

\* future.result()
TakeResult(t) ==
    /\ pc[t] = "wait" /\ task[t] \in {"returned", "raised"}
    /\ result' = [result EXCEPT ![t] = task[t]]
    /\ Goto(t, IF op[t] = "close" THEN "stop" ELSE "idle")
    /\ UNCHANGED <<scenario, runnerVars, op, task, left, dispatcherVars>>

\* _AsyncRunner.close up to the scheduling of loop.stop; Runner.close cancels
\* what is left and closes the loop.
StopLoop(t) ==
    /\ pc[t] = "stop"
    /\ isOpen' = FALSE
    /\ \/ /\ "loop" \notin refs
          /\ Goto(t, "idle") /\ UNCHANGED <<result, refs, loop, stopping>>
       \/ /\ ThreadMode /\ "loop" \in refs
          /\ stopping' = TRUE
          /\ Goto(t, "join") /\ UNCHANGED <<result, refs, loop>>
       \/ /\ ~ThreadMode /\ "loop" \in refs
          /\ refs' = {} /\ loop' = "closed"
          /\ Goto(t, "idle") /\ UNCHANGED <<result, stopping>>
    /\ UNCHANGED <<scenario, http, op, task, left, dispatcherVars>>

\* join(timeout=5.0); the timeout is reached when the loop's thread is busy.
Join(t) ==
    /\ pc[t] = "join"
    /\ "thread" \in refs => loop # "running"
    /\ refs' = refs \ {"thread"}
    /\ Goto(t, "close loop")
    /\ UNCHANGED <<scenario, isOpen, loop, stopping, http, op, result, task, left,
                   dispatcherVars>>

\* loop.close() raises on a running loop, and on None.
CloseLoop(t) ==
    /\ pc[t] = "close loop"
    /\ \/ /\ "loop" \in refs /\ loop = "stopped"
          /\ loop' = "closed"
          /\ refs' = refs \ {"loop"}
          /\ Goto(t, "idle") /\ UNCHANGED result
       \/ /\ "loop" \notin refs \/ loop \in {"running", "blocked"}
          /\ Ends(t, "raised") /\ UNCHANGED <<loop, refs>>
    /\ UNCHANGED <<scenario, isOpen, stopping, http, op, task, left, dispatcherVars>>

-----------------------------------------------------------------------------
(* The event loop *)

SetTask(t, s) == task' = [task EXCEPT ![t] = s]

\* The coroutine goes on to its event, or raises: a request of a closed HTTP
\* client always does.
Proceeds(t) ==
    \/ http = "open" /\ SetTask(t, "emitting") /\ BeginEmission(t, "issued")
    \/ SetTask(t, "raised") /\ UNCHANGED dispatcherVars

\* Mistake: a sync handler is called on the loop.
StartTaskBlocking(t) ==
    /\ loop = "running" /\ task[t] = "queued" /\ op[t] = "call"
    /\ IF scenario.handler = "async"
       THEN Proceeds(t) /\ UNCHANGED loop
       ELSE /\ SetTask(t, "handler") /\ UNCHANGED dispatcherVars
            /\ loop' = "blocked"
    /\ UNCHANGED <<scenario, isOpen, refs, stopping, http, pc, op, result, left>>

\* _SyncToAsyncAdapter: a sync handler runs in an executor thread.
StartTask(t) ==
    /\ loop = "running" /\ task[t] = "queued" /\ op[t] = "call"
    /\ IF scenario.handler = "async"
       THEN Proceeds(t)
       ELSE SetTask(t, "handler") /\ UNCHANGED dispatcherVars
    /\ UNCHANGED <<scenario, runnerVars, pc, op, result, left>>

\* provision returns to the coroutine.
HandlerReturns(t) ==
    /\ loop = "running" /\ task[t] = "handler"
    /\ ~(scenario.handler = "stuck" /\ t = Main)
    /\ Proceeds(t)
    /\ UNCHANGED <<scenario, runnerVars, pc, op, result, left>>

\* _close_client
CloseClient(t) ==
    /\ loop = "running" /\ task[t] = "queued" /\ op[t] = "close"
    /\ http' = "closed"
    /\ \E how \in {"returned", "raised"} : SetTask(t, how)
    /\ UNCHANGED <<scenario, isOpen, refs, loop, stopping, pc, op, result, left,
                   dispatcherVars>>

\* A blocking call on the loop's own thread: in thread mode it waits for a
\* loop that waits for it; Runner.run refuses, but close() then cancels the
\* tasks and leaves the client unusable.
CallsBack(t, cb) ==
    \/ /\ ThreadMode /\ isOpen
       /\ loop' = "blocked" /\ UNCHANGED <<isOpen, task>>
    \/ /\ ~ThreadMode /\ isOpen
       /\ IF cb = "closes" THEN isOpen' = FALSE /\ SetTask(t, "cancelled")
                           ELSE UNCHANGED <<isOpen, task>>
       /\ UNCHANGED loop
    \/ ~isOpen /\ UNCHANGED <<isOpen, loop, task>>

\* One turn of the loop over the callbacks.
CallCallback(t) ==
    /\ Emitting(t) /\ at[t] <= Len(Called(t))
    /\ task[t] \in {"emitting", "cancelled"} => loop = "running"
    /\ CallNext(t)
    /\ LET cb == Called(t)[at[t]] IN
         /\ IF cb \in {"calls", "closes"} THEN CallsBack(t, cb)
                                          ELSE UNCHANGED <<isOpen, loop, task>>
         /\ \/ cb = "once" /\ Unsubscribe("once")
            \/ cb = "adds" /\ "listener" \notin Subscribed /\ Subscribe("listener", "any")
            \/ /\ cb # "once"
               /\ cb = "adds" => "listener" \in Subscribed
               /\ UNCHANGED <<typed, global, kept>>
    /\ UNCHANGED <<scenario, refs, stopping, http, pc, op, result, left>>

\* The coroutine returns; a cancelled one raises, at the latest then.
FinishTask(t) ==
    /\ loop = "running" /\ task[t] \in {"emitting", "cancelled"}
    /\ EndEmission(t) \/ (task[t] = "cancelled" /\ AbandonEmission(t))
    /\ SetTask(t, IF task[t] = "emitting" THEN "returned" ELSE "raised")
    /\ UNCHANGED <<scenario, runnerVars, pc, op, result, left>>

FinishCheck(t) ==
    /\ pc[t] = "emit"
    /\ EndEmission(t)
    /\ Ends(t, "returned")
    /\ UNCHANGED <<scenario, runnerVars, op, task, left>>

LoopStops ==
    /\ ThreadMode /\ stopping /\ loop = "running"
    /\ loop' = "stopped"
    /\ UNCHANGED <<scenario, isOpen, refs, stopping, http, threadVars, dispatcherVars>>

-----------------------------------------------------------------------------
BeginOp(t) ==
    \/ BeginCall(t) \/ BeginCheck(t) \/ BeginClose(t) \/ CloseAgain(t)
    \/ BeginSubscribe(t) \/ BeginUnsubscribe(t)

ThreadStep(t) ==
    \/ Enter(t) \/ Schedule(t) \/ TakeResult(t) \/ StopLoop(t) \/ Join(t)
    \/ CloseLoop(t) \/ FinishCheck(t)

TaskStep(t) ==
    \/ StartTask(t) \/ HandlerReturns(t) \/ CloseClient(t)
    \/ CallCallback(t) \/ FinishTask(t)

Next ==
    \/ \E t \in Threads : BeginOp(t) \/ ThreadStep(t) \/ TaskStep(t)
    \/ LoopStops

\* Threads run, the loop is fair to its tasks (it is FIFO), every request and
\* callback ends; whether an operation is begun is the application's choice.
Fairness ==
    /\ \A t \in Threads : WF_vars(ThreadStep(t)) /\ WF_vars(TaskStep(t))
    /\ WF_vars(LoopStops)

Spec == Init /\ [][Next]_vars /\ Fairness

-----------------------------------------------------------------------------
(* Properties *)

CallsBackOnLoop ==
    \E cb \in {"calls", "closes"} :
        cb \in ToSet(scenario.global) \cup ToSet(scenario.typed["issued"])

\* "ownership transfers to SyncClient, which closes the HTTP client before
\* shutting down its event loop": the loop never stops before the HTTP client
\* is closed; a close() that returns leaves it closed unless a callback calls
\* the client on its own loop, and, when nothing overtakes it, without a loop
\* or a thread left behind.
ClosedInOrder ==
    /\ loop \in {"stopped", "closed"} => http = "closed"
    /\ \A t \in Threads :
         op[t] = "close" /\ pc[t] = "idle" /\ result[t] = "returned" /\ ~CallsBackOnLoop =>
             /\ http = "closed"
             /\ scenario.disciplined => refs = {} /\ loop = "closed"

\* A thread that waits for a coroutine, waits for a loop that runs: it is
\* never stopped, closed or blocked under a call by another thread's close(),
\* handler or callback.  With the same conditions as CallsReturn below, of
\* which it is what no step may break.
WaitsForRunningLoop ==
    ~CallsBackOnLoop /\ scenario.disciplined =>
        \A t \in Threads : pc[t] = "wait" => isOpen /\ loop = "running"

\* Every operation that was begun ends: a blocking call gets its result even
\* while another thread's challenge handler is stuck.  Not if a callback of
\* an event calls the client on its own loop, nor if close() overtakes other
\* calls, nor for the call of the stuck handler.
CallsReturn ==
    ~CallsBackOnLoop /\ scenario.disciplined =>
        \A t \in Threads :
            pc[t] # "idle" /\ ~(t = Main /\ scenario.handler = "stuck") ~> pc[t] = "idle"
=============================================================================
