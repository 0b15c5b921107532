------------------------------ MODULE Renewal ------------------------------
(***************************************************************************)
(* RenewalManager of lacme/renewal.py: the background loop, its sweeps     *)
(* over the stored certificates, and start() and stop() called by several  *)
(* tasks of the application.                                               *)
(*                                                                         *)
(* Time is counted in units in which Interval, Jitter and Days are whole;  *)
(* a loop runs on when it is due, and a sweep takes SweepTime at most.     *)
(***************************************************************************)
EXTENDS Naturals, FiniteSets

CONSTANTS
    Domains,     \* domains with a certificate in the store
    Callers,     \* tasks of the application that call start() and stop()
    Interval,    \* interval_hours
    Jitter,      \* max_jitter_seconds
    Days,        \* days_before_expiry
    Lifetime,    \* lifetime of a renewed certificate
    SweepTime,   \* time the renewals of one sweep take together
    MaxTime,     \* bound on the time that passes
    MaxLoops,    \* bound on the loops started
    Alone        \* values of alone: is start() called only while no stop() waits?

ASSUME RenewalAssumption ==
    /\ {Interval, Jitter, Days, Lifetime, SweepTime, MaxTime, MaxLoops} \subseteq Nat
    /\ Alone \subseteq BOOLEAN

VARIABLES
    alone,    \* chosen once, never changed
    now,      \* the clock
    expiry,   \* expiry[d]: when the certificate in the store expires
    failed,   \* history: the last attempt to list or renew d has failed
    task,     \* RenewalManager._task, 0 for None
    loops,    \* loops started
    loop,     \* loop[k]: the k-th loop
    waiting   \* waiting[c]: the loop whose end the stop() of c awaits, 0 if none

vars == <<alone, now, expiry, failed, task, loops, loop, waiting>>

Loop == 1..MaxLoops
NotStarted == [pc |-> "none", cancelled |-> FALSE, due |-> 0, todo |-> {}, swept |-> FALSE]

Running(k) == loop[k].pc \in {"begin", "sweep", "sleep"}
Active(k) == Running(k) /\ ~loop[k].cancelled

\* Every variable has its type; what is to be done in a sweep is nothing
\* outside of one.
TypeOK ==
    /\ alone \in Alone
    /\ now \in 0..MaxTime
    /\ expiry \in [Domains -> Nat]
    /\ failed \in [Domains -> BOOLEAN]
    /\ loops \in 0..MaxLoops /\ task \in 0..loops
    /\ loop \in [Loop -> [pc : {"none", "begin", "sweep", "sleep", "done"},
                          cancelled : BOOLEAN, due : Nat, todo : SUBSET Domains,
                          swept : BOOLEAN]]
    /\ \A k \in Loop : loop[k].pc = "none" <=> k > loops
    /\ \A k \in Loop : loop[k].pc \in {"none", "begin", "sleep"} => loop[k].todo = {}
    /\ waiting \in [Callers -> 0..loops]

Init ==
    /\ alone \in Alone
    /\ now = 0
    /\ expiry \in [Domains -> 0..Lifetime]
    /\ failed = [d \in Domains |-> FALSE]
    /\ task = 0
    /\ loops = 0
    /\ loop = [k \in Loop |-> NotStarted]
    /\ waiting = [c \in Callers |-> 0]

-----------------------------------------------------------------------------
\* Time passes until an active loop is due or has to be done with a sweep.
Tick ==
    /\ now < MaxTime
    /\ \A k \in Loop : Active(k) => now < loop[k].due
    /\ now' = now + 1
    /\ UNCHANGED <<alone, expiry, failed, task, loops, loop, waiting>>

\* Mistake: a loop that was asked to stop counts as stopped.
StartOverCancelled(c) ==
    /\ waiting[c] = 0
    /\ alone => \A b \in Callers : waiting[b] = 0
    /\ task # 0 => ~Active(task)
    /\ loops < MaxLoops
    /\ loops' = loops + 1
    /\ task' = loops + 1
    /\ loop' = [loop EXCEPT ![loops + 1].pc = "begin", ![loops + 1].due = now]
    /\ UNCHANGED <<alone, now, expiry, failed, waiting>>

\* start: raises (no step) while the task it knows of is not done.
Start(c) ==
    /\ waiting[c] = 0
    /\ alone => \A b \in Callers : waiting[b] = 0
    /\ task # 0 => ~Running(task)
    /\ loops < MaxLoops
    /\ loops' = loops + 1
    /\ task' = loops + 1
    /\ loop' = [loop EXCEPT ![loops + 1].pc = "begin", ![loops + 1].due = now]
    /\ UNCHANGED <<alone, now, expiry, failed, waiting>>

\* stop: forget a task that is done, or cancel it and wait for its end.
Stop(c) ==
    /\ waiting[c] = 0
    /\ task # 0
    /\ \/ /\ Running(task)
          /\ loop' = [loop EXCEPT ![task].cancelled = TRUE]
          /\ waiting' = [waiting EXCEPT ![c] = task]
          /\ UNCHANGED task
       \/ /\ ~Running(task)
          /\ task' = 0
          /\ UNCHANGED <<loop, waiting>>
    /\ UNCHANGED <<alone, now, expiry, failed, loops>>

\* The awaited task has ended: stop forgets the task it finds by now.
StopReturns(c) ==
    /\ waiting[c] # 0
    /\ ~Running(waiting[c])
    /\ task' = 0
    /\ waiting' = [waiting EXCEPT ![c] = 0]
    /\ UNCHANGED <<alone, now, expiry, failed, loops, loop>>

\* The application cancels the task that start or auto_renew returned.
CancelTask(k) ==
    /\ Active(k)
    /\ loop' = [loop EXCEPT ![k].cancelled = TRUE]
    /\ UNCHANGED <<alone, now, expiry, failed, task, loops, waiting>>

\* CancelledError passes through run, after the cleanup of what it awaited.
CancelledLoopEnds(k) ==
    /\ Running(k) /\ loop[k].cancelled
    /\ loop' = [loop EXCEPT ![k].pc = "done"]
    /\ UNCHANGED <<alone, now, expiry, failed, task, loops, waiting>>

\* _needs_renewal for the bundle read at the beginning of a sweep.
NeedsRenewal(d) == expiry[d] <= now + Days

\* check_and_renew up to its first await: list_certs may raise, which ends
\* the sweep; the loop then sleeps until the next.
BeginSweep(k) ==
    /\ Active(k)
    /\ loop[k].pc = "begin" \/ (loop[k].pc = "sleep" /\ now = loop[k].due)
    /\ \/ /\ loop' = [loop EXCEPT ![k].pc = "sweep", ![k].due = now + SweepTime,
                         ![k].todo = {d \in Domains : NeedsRenewal(d)}]
          /\ failed' = [d \in Domains |-> failed[d] /\ NeedsRenewal(d)]
       \/ /\ \E j \in 0..Jitter :
                loop' = [loop EXCEPT ![k].pc = "sleep", ![k].due = now + Interval + j]
          /\ failed' = [d \in Domains |-> TRUE]
    /\ UNCHANGED <<alone, now, expiry, task, loops, waiting>>

\* Mistake: a failing renewal ends the sweep.
RenewOrGiveUp(k, d) ==
    /\ Active(k)
    /\ d \in loop[k].todo
    /\ \/ /\ expiry' = [expiry EXCEPT ![d] = now + Lifetime]
          /\ failed' = [failed EXCEPT ![d] = FALSE]
          /\ loop' = [loop EXCEPT ![k].todo = @ \ {d}]
       \/ /\ failed' = [failed EXCEPT ![d] = TRUE]
          /\ loop' = [loop EXCEPT ![k].todo = {}]
          /\ UNCHANGED expiry
    /\ UNCHANGED <<alone, now, task, loops, waiting>>

\* One renewal of the sweep, by the client or by the CA, saved and announced.
\* When it fails the next one follows.
Renew(k, d) ==
    /\ Active(k)
    /\ d \in loop[k].todo
    /\ \/ /\ expiry' = [expiry EXCEPT ![d] = now + Lifetime]
          /\ failed' = [failed EXCEPT ![d] = FALSE]
       \/ /\ failed' = [failed EXCEPT ![d] = TRUE]
          /\ UNCHANGED expiry
    /\ loop' = [loop EXCEPT ![k].todo = @ \ {d}]
    /\ UNCHANGED <<alone, now, task, loops, waiting>>

\* Mistake: the loop sleeps while renewals are left.
EndSweepEarly(k) ==
    /\ Active(k)
    /\ loop[k].pc = "sweep"
    /\ \E j \in 0..Jitter :
          loop' = [loop EXCEPT ![k].pc = "sleep", ![k].due = now + Interval + j,
                               ![k].swept = TRUE]
    /\ UNCHANGED <<alone, now, expiry, failed, task, loops, waiting>>

\* The sweep is over: sleep for the interval and some jitter.
EndSweep(k) ==
    /\ Active(k)
    /\ loop[k].pc = "sweep" /\ loop[k].todo = {}
    /\ \E j \in 0..Jitter :
          loop' = [loop EXCEPT ![k].pc = "sleep", ![k].due = now + Interval + j,
                               ![k].swept = TRUE]
    /\ UNCHANGED <<alone, now, expiry, failed, task, loops, waiting>>

Next ==
    \/ Tick
    \/ \E c \in Callers : Start(c) \/ Stop(c) \/ StopReturns(c)
    \/ \E k \in Loop :
         \/ CancelTask(k) \/ CancelledLoopEnds(k)
         \/ BeginSweep(k) \/ EndSweep(k)
         \/ \E d \in Domains : Renew(k, d)

Spec == Init /\ [][Next]_vars

-----------------------------------------------------------------------------
(* Properties *)

\* Two loops never run at the same time: start() refuses "if a renewal task
\* is already running".
OneLoop == \A j, k \in Loop : Running(j) /\ Running(k) => j = k

\* If nobody calls start() while a stop() waits, the loop that runs is always
\* the one the manager knows, so that stop() can end it.
Stoppable == alone => \A k \in Loop : Running(k) => task = k

\* days_before_expiry covers an interval with its jitter and the two sweeps
\* around it, and so does the lifetime of certificates.
Provident ==
    /\ Days >= Interval + Jitter + 2 * SweepTime
    /\ Lifetime > Interval + Jitter + 2 * SweepTime

\* Under a loop that has finished its first sweep no certificate expires,
\* except one whose own last renewal, or the last listing of the store, has
\* failed: failures for other domains, failures that are over and the times
\* of the sweeps do not delay it beyond its expiry.
NoneExpires ==
    Provident =>
        \A k \in Loop : Active(k) /\ loop[k].swept =>
            \A d \in Domains : failed[d] \/ expiry[d] > now
=============================================================================
