---------------------------- MODULE EventDispatcher ----------------------------
(***************************************************************************)
(* EventDispatcher of lacme/events.py and the metrics of lacme/metrics.py, *)
(* which are callbacks like any other.  The dispatcher belongs to several  *)
(* threads: they subscribe, unsubscribe and emit under one lock, but the   *)
(* callbacks are called after it was released, one by one.                 *)
(*                                                                         *)
(* A callback is subscribed at most once here (the code allows more); its  *)
(* name says what it does: see SyncClient, which composes this module.     *)
(***************************************************************************)
EXTENDS Naturals, Sequences, SequencesExt

CONSTANTS Callbacks, Threads

Events == {"issued", "warning"}   \* CertificateIssued (emit), RateLimitWarning (emit_sync)

VARIABLES
    typed,      \* typed[e]: the callbacks for events of type e
    global,     \* the callbacks for all events
    event,      \* event[t]: what thread t, or the call it waits for, emits
    snapshot,   \* snapshot[t]: the callbacks as they were when the emission began
    at,         \* at[t]: the one to call next, 0 outside an emission
    got,        \* got[t]: the callbacks called in this emission
    kept,       \* history: those subscribed since it began, in kept[t] ...
    counted     \* counted[e]: the counter of the metrics for events of type e

emissionVars == <<event, snapshot, at, got, kept>>
dispatcherVars == <<typed, global, emissionVars, counted>>

InitDispatcher(initialTyped, initialGlobal) ==
    /\ typed = initialTyped
    /\ global = initialGlobal
    /\ event = [t \in Threads |-> "issued"]
    /\ snapshot = [t \in Threads |-> <<>>]
    /\ at = [t \in Threads |-> 0]
    /\ got = [t \in Threads |-> <<>>]
    /\ kept = [t \in Threads |-> {}]
    /\ counted = [e \in Events |-> 0]

\* list(self._typed.get(type(event))) extended with self._global
Matching(e) == typed[e] \o global

Subscribed == UNION {ToSet(Matching(e)) : e \in Events}

-----------------------------------------------------------------------------
\* subscribe: typed (e) or for all events ("any").
Subscribe(cb, e) ==
    /\ \/ e = "any" /\ global' = Append(global, cb) /\ UNCHANGED typed
       \/ e \in Events /\ typed' = [typed EXCEPT ![e] = Append(@, cb)] /\ UNCHANGED global
    /\ UNCHANGED kept

\* [cb for cb in callbacks if cb != callback]: what is left of the first i.
Filtered(callbacks, cb) ==
    LET left[i \in 0..Len(callbacks)] ==
            IF i = 0 THEN <<>>
            ELSE IF callbacks[i] = cb THEN left[i - 1] ELSE Append(left[i - 1], callbacks[i])
    IN  left
Without(callbacks, cb) == Filtered(callbacks, cb)[Len(callbacks)]

Unsubscribe(cb) ==
    /\ global' = Without(global, cb)
    /\ typed' = [e \in Events |-> Without(typed[e], cb)]
    /\ kept' = [t \in Threads |-> kept[t] \ {cb}]

\* emit, emit_sync: the list is copied under the lock.
BeginEmission(t, e) ==
    /\ event' = [event EXCEPT ![t] = e]
    /\ snapshot' = [snapshot EXCEPT ![t] = Matching(e)]
    /\ at' = [at EXCEPT ![t] = 1]
    /\ got' = [got EXCEPT ![t] = <<>>]
    /\ kept' = [kept EXCEPT ![t] = ToSet(Matching(e))]
    /\ UNCHANGED <<typed, global, counted>>

\* Mistake: the live list is iterated instead of a copy.
CalledLive(t) == Matching(event[t])

Called(t) == snapshot[t]

Emitting(t) == at[t] # 0
Over(t) == Emitting(t) /\ at[t] > Len(Called(t))

\* The callback is called; what it raises is logged.  emit_sync skips a
\* coroutine function.
Skipped(t, cb) == event[t] = "warning" /\ cb = "async"

\* metrics.subscribe: the counter of the event's type goes up.
Counted(cb, e) ==
    IF cb = "metrics" THEN [counted EXCEPT ![e] = @ + 1] ELSE counted

\* Mistake: a skipped callback takes the next one with it.
CallNextSkipping(t) ==
    LET cb == Called(t)[at[t]] IN
    /\ at' = [at EXCEPT ![t] = IF Skipped(t, cb) THEN @ + 2 ELSE @ + 1]
    /\ got' = IF Skipped(t, cb) THEN got ELSE [got EXCEPT ![t] = Append(@, cb)]
    /\ counted' = Counted(cb, event[t])
    /\ UNCHANGED <<event, snapshot>>

CallNext(t) ==
    LET cb == Called(t)[at[t]] IN
    /\ at' = [at EXCEPT ![t] = @ + 1]
    /\ got' = IF Skipped(t, cb) THEN got ELSE [got EXCEPT ![t] = Append(@, cb)]
    /\ counted' = Counted(cb, event[t])
    /\ UNCHANGED <<event, snapshot>>

LeaveEmission(t) ==
    /\ at' = [at EXCEPT ![t] = 0]
    /\ UNCHANGED <<typed, global, event, snapshot, got, kept, counted>>

EndEmission(t) == Over(t) /\ LeaveEmission(t)

\* A cancelled emission may end where a callback awaits: CancelledError is
\* not an Exception.
AbandonEmission(t) ==
    /\ at[t] > 1 /\ Called(t)[at[t] - 1] = "async"
    /\ LeaveEmission(t)

-----------------------------------------------------------------------------
\* When an emission is over every callback that stayed subscribed throughout
\* it was called exactly once, whatever other callbacks and threads did; none
\* was called twice, also in an emission that is abandoned.
DeliveredBy(t) ==
    /\ IsInjective(got[t])
    /\ Over(t) => {cb \in kept[t] : ~Skipped(t, cb)} \subseteq ToSet(got[t])

EventsDelivered == \A t \in Threads : DeliveredBy(t)
=============================================================================
