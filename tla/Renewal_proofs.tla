--------------------------- MODULE Renewal_proofs ---------------------------
(***************************************************************************)
(* Theorems about Renewal, for any domains, callers and loops, any         *)
(* interval, jitter, lifetime and duration of sweeps.                      *)
(***************************************************************************)
EXTENDS Renewal, TLAPS

-----------------------------------------------------------------------------
(* Inductive invariants *)

\* A stop() that waits while nobody calls start() waits for the loop the
\* manager knows, unless another stop() has forgotten it already.
WaitsForKnown ==
    alone => \A c \in Callers : waiting[c] # 0 => task \in {0, waiting[c]}

StopInv == Stoppable /\ WaitsForKnown

\* A loop that runs is not late, and is not due in the distant future.
OnTime(k) ==
    /\ now <= loop[k].due
    /\ loop[k].pc = "sleep" => loop[k].due <= now + Interval + Jitter
    /\ loop[k].pc = "sweep" => loop[k].due <= now + SweepTime

\* The certificate of d lasts until loop k has come to it again: past the
\* sweep it is in, or past the next one; if it was renewed in this sweep or
\* did not need it, past the sweep after this one.
Lasts(k, d) ==
    /\ loop[k].pc = "sleep" /\ loop[k].swept => expiry[d] > loop[k].due + SweepTime
    /\ loop[k].pc = "sweep" /\ loop[k].swept => expiry[d] > loop[k].due
    /\ loop[k].pc = "sweep" /\ d \notin loop[k].todo =>
          expiry[d] > loop[k].due + SweepTime + Interval + Jitter

\* A loop that has not begun has swept nothing.
NotSweptYet == \A k \in Loop : loop[k].pc \in {"none", "begin"} => ~loop[k].swept

RenewalInv ==
    /\ NotSweptYet
    /\ \A k \in Loop : Active(k) => OnTime(k)
    /\ Provident =>
          \A k \in Loop, d \in Domains : Active(k) => failed[d] \/ Lasts(k, d)
-----------------------------------------------------------------------------
(* Loops *)

LoopState == [pc : {"none", "begin", "sweep", "sleep", "done"}, cancelled : BOOLEAN,
              due : Nat, todo : SUBSET Domains, swept : BOOLEAN]

\* The other loops stay as they are when loop k goes on as w.
Goes(k, w) ==
    /\ loop' \in [Loop -> LoopState]
    /\ loop'[k] = w
    /\ \A j \in Loop \ {k} : loop'[j] = loop[j]

\* What the type says of single variables, with less to unfold.
LEMMA TypeFacts ==
    ASSUME TypeOK
    PROVE  /\ alone \in Alone /\ alone \in BOOLEAN
           /\ now \in 0..MaxTime /\ now \in Nat /\ MaxTime \in Nat /\ MaxLoops \in Nat
           /\ expiry \in [Domains -> Nat] /\ failed \in [Domains -> BOOLEAN]
           /\ loops \in 0..MaxLoops /\ loops \in Nat
           /\ task \in 0..loops /\ task \in Nat
           /\ loop \in [Loop -> LoopState]
           /\ \A k \in Loop : loop[k] \in LoopState /\ loop[k].due \in Nat
           /\ \A k \in Loop : loop[k].pc = "none" <=> k > loops
           /\ \A k \in Loop : loop[k].pc \in {"none", "begin", "sleep"} => loop[k].todo = {}
           /\ waiting \in [Callers -> 0..loops]
<1>1. MaxTime \in Nat /\ MaxLoops \in Nat /\ Alone \subseteq BOOLEAN
  BY RenewalAssumption
<1>2. now \in 0..MaxTime /\ loops \in 0..MaxLoops /\ task \in 0..loops
  BY DEF TypeOK
<1>3. now \in Nat /\ loops \in Nat /\ task \in Nat
  BY <1>1, <1>2
<1>4. loop \in [Loop -> LoopState]
  BY DEF TypeOK, LoopState
<1>5. \A k \in Loop : loop[k] \in LoopState /\ loop[k].due \in Nat
  BY <1>4 DEF LoopState
<1> QED
  BY <1>1, <1>2, <1>3, <1>4, <1>5 DEF TypeOK

\* An assignment to one loop moves that loop.
LEMMA OneLoopGoes ==
    ASSUME loop \in [Loop -> LoopState], NEW k \in Loop, NEW w \in LoopState,
           loop' = [loop EXCEPT ![k] = w]
    PROVE  Goes(k, w)
  BY DEF Goes

\* A loop that is active runs, and one that runs was started.
LEMMA RunningFacts ==
    ASSUME TypeOK, NEW k \in Loop, Running(k)
    PROVE  k \in 1..loops /\ loop[k].pc \in {"begin", "sweep", "sleep"}
<1>1. ~(k > loops) /\ k \in Nat /\ k >= 1 /\ loops \in Nat
  BY TypeFacts DEF Running, Loop
<1> QED
  BY <1>1 DEF Running

\* What the step of an action does to the loop it is about.
LEMMA StartEffect ==
    ASSUME TypeOK, NEW c \in Callers, Start(c)
    PROVE  /\ loops + 1 \in Loop /\ loops' = loops + 1 /\ task' = loops + 1
           /\ loop[loops + 1].pc = "none"
           /\ Goes(loops + 1, [loop[loops + 1] EXCEPT !.pc = "begin", !.due = now])
           /\ [loop[loops + 1] EXCEPT !.pc = "begin", !.due = now] \in LoopState
           /\ UNCHANGED <<alone, now, expiry, failed, waiting>>
<1>1. /\ loops < MaxLoops /\ loops' = loops + 1 /\ task' = loops + 1
      /\ loop' = [loop EXCEPT ![loops + 1].pc = "begin", ![loops + 1].due = now]
      /\ UNCHANGED <<alone, now, expiry, failed, waiting>>
  BY DEF Start
<1>2. loops \in Nat /\ MaxLoops \in Nat /\ now \in Nat /\ loop \in [Loop -> LoopState]
  BY TypeFacts
<1> DEFINE k == loops + 1
<1>3. k \in Loop /\ k > loops
  BY <1>1, <1>2 DEF Loop
<1>4. loop[k].pc = "none"
  BY <1>3, TypeFacts
<1> HIDE DEF k
<1> DEFINE w == [loop[k] EXCEPT !.pc = "begin", !.due = now]
<1>5. w \in LoopState
  BY <1>2, <1>3 DEF LoopState
<1>6. loop' = [loop EXCEPT ![k] = w]
  BY <1>1, <1>2, <1>3 DEF LoopState, k
<1> HIDE DEF w
<1>7. Goes(k, w)
  BY <1>2, <1>3, <1>5, <1>6, OneLoopGoes
<1> QED
  BY <1>1, <1>3, <1>4, <1>5, <1>7 DEF k, w

\* A loop that is cancelled stays where it is until it notices.
LEMMA CancelEffect ==
    ASSUME TypeOK, NEW k \in Loop, loop' = [loop EXCEPT ![k].cancelled = TRUE]
    PROVE  /\ Goes(k, [loop[k] EXCEPT !.cancelled = TRUE])
           /\ [loop[k] EXCEPT !.cancelled = TRUE] \in LoopState
<1> DEFINE w == [loop[k] EXCEPT !.cancelled = TRUE]
<1>1. loop \in [Loop -> LoopState]
  BY TypeFacts
<1>2. w \in LoopState
  BY <1>1 DEF LoopState
<1>3. loop' = [loop EXCEPT ![k] = w]
  BY <1>1 DEF LoopState
<1> HIDE DEF w
<1> QED
  BY <1>1, <1>2, <1>3, OneLoopGoes DEF w

\* A cancelled loop ends.
LEMMA EndEffect ==
    ASSUME TypeOK, NEW k \in Loop, CancelledLoopEnds(k)
    PROVE  /\ Goes(k, [loop[k] EXCEPT !.pc = "done"])
           /\ [loop[k] EXCEPT !.pc = "done"] \in LoopState
<1> DEFINE w == [loop[k] EXCEPT !.pc = "done"]
<1>1. loop \in [Loop -> LoopState]
  BY TypeFacts
<1>2. w \in LoopState
  BY <1>1 DEF LoopState
<1>3. loop' = [loop EXCEPT ![k] = w]
  BY <1>1 DEF LoopState, CancelledLoopEnds
<1> HIDE DEF w
<1> QED
  BY <1>1, <1>2, <1>3, OneLoopGoes DEF w

\* A sweep begins: with what needs renewal, or not at all.
Swept(k) == [loop[k] EXCEPT !.pc = "sweep", !.due = now + SweepTime,
                            !.todo = {d \in Domains : NeedsRenewal(d)}]
Slept(k, j) == [loop[k] EXCEPT !.pc = "sleep", !.due = now + Interval + j]
Rested(k, j) == [loop[k] EXCEPT !.pc = "sleep", !.due = now + Interval + j,
                                !.swept = TRUE]
Renewed(k, d) == [loop[k] EXCEPT !.todo = @ \ {d}]

\* A loop lists what needs renewal, or cannot read the store and sleeps.
LEMMA BeginEffect ==
    ASSUME TypeOK, NEW k \in Loop, BeginSweep(k)
    PROVE  \/ /\ Goes(k, Swept(k)) /\ Swept(k) \in LoopState
              /\ failed' = [d \in Domains |-> failed[d] /\ NeedsRenewal(d)]
           \/ /\ \E j \in 0..Jitter : Goes(k, Slept(k, j)) /\ Slept(k, j) \in LoopState
              /\ failed' = [d \in Domains |-> TRUE]
<1>1. loop \in [Loop -> LoopState] /\ now \in Nat
  BY TypeFacts
<1>2. CASE /\ loop' = [loop EXCEPT ![k].pc = "sweep", ![k].due = now + SweepTime,
                          ![k].todo = {d \in Domains : NeedsRenewal(d)}]
           /\ failed' = [d \in Domains |-> failed[d] /\ NeedsRenewal(d)]
  <2>1. now + SweepTime \in Nat
    BY <1>1, RenewalAssumption
  <2>2. Swept(k) \in LoopState
    BY <1>1, <2>1 DEF LoopState, Swept
  <2>3. loop' = [loop EXCEPT ![k] = Swept(k)]
    BY <1>1, <1>2 DEF LoopState, Swept
  <2> QED
    BY <1>1, <1>2, <2>2, <2>3, OneLoopGoes
<1>3. ASSUME NEW j \in 0..Jitter,
             loop' = [loop EXCEPT ![k].pc = "sleep", ![k].due = now + Interval + j],
             failed' = [d \in Domains |-> TRUE]
      PROVE  Goes(k, Slept(k, j)) /\ Slept(k, j) \in LoopState
  <2>1. now + Interval + j \in Nat
    BY <1>1, RenewalAssumption
  <2>2. Slept(k, j) \in LoopState
    BY <1>1, <2>1 DEF LoopState, Slept
  <2>3. loop' = [loop EXCEPT ![k] = Slept(k, j)]
    BY <1>1, <1>3 DEF LoopState, Slept
  <2> QED
    BY <1>1, <2>2, <2>3, OneLoopGoes
<1> QED
  BY <1>2, <1>3 DEF BeginSweep

\* A renewal takes one certificate off the list of its sweep.
LEMMA RenewEffect ==
    ASSUME TypeOK, NEW k \in Loop, NEW d \in Domains, Renew(k, d)
    PROVE  Goes(k, Renewed(k, d)) /\ Renewed(k, d) \in LoopState
<1>1. loop \in [Loop -> LoopState]
  BY TypeFacts
<1>2. Renewed(k, d) \in LoopState
  BY <1>1 DEF LoopState, Renewed
<1>3. loop' = [loop EXCEPT ![k] = Renewed(k, d)]
  BY <1>1 DEF LoopState, Renewed, Renew
<1> QED
  BY <1>1, <1>2, <1>3, OneLoopGoes

\* A loop that has done its sweep goes to sleep.
LEMMA EndSweepEffect ==
    ASSUME TypeOK, NEW k \in Loop, EndSweep(k)
    PROVE  \E j \in 0..Jitter : Goes(k, Rested(k, j)) /\ Rested(k, j) \in LoopState
<1>1. loop \in [Loop -> LoopState] /\ now \in Nat
  BY TypeFacts
<1>2. PICK j \in 0..Jitter :
         loop' = [loop EXCEPT ![k].pc = "sleep", ![k].due = now + Interval + j,
                              ![k].swept = TRUE]
  BY DEF EndSweep
<1>3. now + Interval + j \in Nat
  BY <1>1, RenewalAssumption
<1>4. Rested(k, j) \in LoopState
  BY <1>1, <1>3 DEF LoopState, Rested
<1>5. loop' = [loop EXCEPT ![k] = Rested(k, j)]
  BY <1>1, <1>2 DEF LoopState, Rested
<1> QED
  BY <1>1, <1>4, <1>5, OneLoopGoes
-----------------------------------------------------------------------------
(* Types *)

\* The initial state has the right type.
LEMMA TypeInit == Init => TypeOK
<1> SUFFICES ASSUME Init PROVE TypeOK
  OBVIOUS
<1>1. /\ alone \in Alone /\ now \in 0..MaxTime /\ loops \in 0..MaxLoops
      /\ task \in 0..loops /\ waiting \in [Callers -> 0..loops]
      /\ failed \in [Domains -> BOOLEAN] /\ loops = 0
  BY RenewalAssumption DEF Init
<1>2. expiry \in [Domains -> Nat]
  BY DEF Init
<1>3. NotStarted \in LoopState /\ NotStarted.pc = "none" /\ NotStarted.todo = {}
  BY DEF NotStarted, LoopState
<1>4. loop = [k \in Loop |-> NotStarted]
  BY DEF Init
<1>5. \A k \in Loop : k > loops
  BY <1>1, RenewalAssumption DEF Loop
<1> QED
  BY <1>1, <1>2, <1>3, <1>4, <1>5 DEF TypeOK, LoopState

\* One loop goes on, and nothing is started.
LEMMA GoesOn ==
    ASSUME TypeOK, NEW k \in Loop, NEW w \in LoopState, Goes(k, w),
           loops' = loops, loop[k].pc # "none", w.pc # "none",
           w.pc \in {"begin", "sleep"} => w.todo = {}
    PROVE  /\ loop' \in [Loop -> LoopState]
           /\ \A j \in Loop : loop'[j].pc = "none" <=> j > loops'
           /\ \A j \in Loop : loop'[j].pc \in {"none", "begin", "sleep"} => loop'[j].todo = {}
  BY TypeFacts DEF Goes

\* Every step keeps the type.
LEMMA TypeStep == TypeOK /\ [Next]_vars => TypeOK'
<1> SUFFICES ASSUME TypeOK, [Next]_vars PROVE TypeOK'
  OBVIOUS
<1>0. /\ alone \in Alone /\ now \in 0..MaxTime /\ now \in Nat
      /\ MaxTime \in Nat /\ MaxLoops \in Nat
      /\ expiry \in [Domains -> Nat] /\ failed \in [Domains -> BOOLEAN]
      /\ loops \in 0..MaxLoops /\ loops \in Nat /\ task \in 0..loops
      /\ \A k \in Loop : loop[k] \in LoopState
      /\ \A k \in Loop : loop[k].pc = "none" <=> k > loops
      /\ \A k \in Loop : loop[k].pc \in {"none", "begin", "sleep"} => loop[k].todo = {}
      /\ waiting \in [Callers -> 0..loops]
  BY TypeFacts
<1>1. CASE Tick
  <2>1. now' \in 0..MaxTime
    BY <1>0, <1>1 DEF Tick
  <2> QED
    BY <1>1, <2>1 DEF Tick, TypeOK
<1>2. ASSUME NEW c \in Callers, Start(c) PROVE TypeOK'
  <2> DEFINE k == loops + 1
             w == [loop[k] EXCEPT !.pc = "begin", !.due = now]
  <2>1. /\ k \in Loop /\ loops' = k /\ task' = k /\ loop[k].pc = "none"
        /\ Goes(k, w) /\ w \in LoopState
        /\ UNCHANGED <<alone, now, expiry, failed, waiting>>
    BY <1>2, StartEffect
  <2>2. w.pc = "begin" /\ w.todo = {}
    BY <1>0, <2>1 DEF LoopState
  <2>3. k \in 0..MaxLoops /\ k \in Nat /\ 0..loops \subseteq 0..k /\ k \in 0..k
    BY <1>0, <2>1 DEF Loop
  <2>4. \A j \in Loop \ {k} : j > loops <=> j > k
    BY <1>0 DEF Loop
  <2>5. waiting' \in [Callers -> 0..k]
    BY <1>0, <2>1, <2>3
  <2>6. ~(k > k)
    BY <2>3
  <2> HIDE DEF k, w
  <2>7. \A j \in Loop : loop'[j].pc = "none" <=> j > k
    BY <1>0, <2>1, <2>2, <2>4, <2>6 DEF Goes
  <2>8. \A j \in Loop : loop'[j].pc \in {"none", "begin", "sleep"} => loop'[j].todo = {}
    BY <1>0, <2>1, <2>2 DEF Goes
  <2> QED
    BY <1>0, <2>1, <2>3, <2>5, <2>7, <2>8 DEF TypeOK, Goes, LoopState
<1>3. ASSUME NEW c \in Callers, Stop(c) PROVE TypeOK'
  <2>1. CASE ~Running(task) /\ task' = 0 /\ UNCHANGED <<loop, waiting>>
    <3>1. task' \in 0..loops
      BY <1>0, <2>1
    <3> QED
      BY <1>3, <2>1, <3>1 DEF Stop, TypeOK
  <2>2. CASE Running(task) /\ loop' = [loop EXCEPT ![task].cancelled = TRUE]
             /\ waiting' = [waiting EXCEPT ![c] = task] /\ UNCHANGED task
    <3>1. task \in Loop
      BY <1>0, <1>3 DEF Stop, Loop
    <3> DEFINE w == [loop[task] EXCEPT !.cancelled = TRUE]
    <3>2. Goes(task, w) /\ w \in LoopState
      BY <2>2, <3>1, CancelEffect
    <3>3. w.pc = loop[task].pc /\ w.todo = loop[task].todo
      BY <1>0, <3>1 DEF LoopState
    <3>4. loop[task].pc # "none"
      BY <2>2 DEF Running
    <3>5. waiting' \in [Callers -> 0..loops]
      BY <1>0, <2>2
    <3>6. UNCHANGED <<alone, now, expiry, failed, loops, task>>
      BY <1>3, <2>2 DEF Stop
    <3> HIDE DEF w
    <3>7. /\ loop' \in [Loop -> LoopState]
          /\ \A j \in Loop : loop'[j].pc = "none" <=> j > loops'
          /\ \A j \in Loop : loop'[j].pc \in {"none", "begin", "sleep"} => loop'[j].todo = {}
      BY <1>0, <3>1, <3>2, <3>3, <3>4, <3>6, GoesOn
    <3> QED
      BY <1>0, <3>5, <3>6, <3>7 DEF TypeOK, LoopState
  <2> QED
    BY <1>3, <2>1, <2>2 DEF Stop
<1>4. ASSUME NEW c \in Callers, StopReturns(c) PROVE TypeOK'
  <2>1. 0 \in 0..loops
    BY <1>0
  <2>2. task' \in 0..loops /\ waiting' \in [Callers -> 0..loops]
    BY <1>0, <1>4, <2>1 DEF StopReturns
  <2> QED
    BY <1>4, <2>2 DEF StopReturns, TypeOK
<1>5. ASSUME NEW k \in Loop,
             \/ CancelTask(k) \/ CancelledLoopEnds(k) \/ BeginSweep(k) \/ EndSweep(k)
             \/ \E d \in Domains : Renew(k, d)
      PROVE  TypeOK'
  <2>1. /\ UNCHANGED <<alone, now, task, loops, waiting>>
        /\ expiry' \in [Domains -> Nat] /\ failed' \in [Domains -> BOOLEAN]
        /\ Running(k)
    <3>1. now + Lifetime \in Nat
      BY <1>0, RenewalAssumption
    <3>2. CASE CancelTask(k) \/ CancelledLoopEnds(k) \/ EndSweep(k)
      BY <1>0, <3>2 DEF CancelTask, CancelledLoopEnds, EndSweep, Active
    <3>3. CASE BeginSweep(k)
      <4>1. \A d \in Domains : NeedsRenewal(d) \in BOOLEAN
        BY DEF NeedsRenewal
      <4>2. failed' \in [Domains -> BOOLEAN]
        BY <1>0, <3>3, <4>1 DEF BeginSweep
      <4> QED
        BY <1>0, <3>3, <4>2 DEF BeginSweep, Active
    <3>4. ASSUME NEW d \in Domains, Renew(k, d)
          PROVE  /\ UNCHANGED <<alone, now, task, loops, waiting>>
                 /\ expiry' \in [Domains -> Nat] /\ failed' \in [Domains -> BOOLEAN]
                 /\ Running(k)
      BY <1>0, <3>1, <3>4 DEF Renew, Active
    <3> QED
      BY <1>5, <3>2, <3>3, <3>4
  <2>2. loop[k].pc # "none" /\ loop[k] \in LoopState
    BY <1>0, <2>1 DEF Running
  <2>3. \E w \in LoopState : /\ Goes(k, w) /\ w.pc # "none"
                             /\ w.pc \in {"begin", "sleep"} => w.todo = {}
    <3>1. CASE CancelTask(k)
      BY <1>0, <2>2, <3>1, CancelEffect DEF CancelTask, LoopState
    <3>2. CASE CancelledLoopEnds(k)
      BY <2>2, <3>2, EndEffect DEF LoopState
    <3>3. CASE BeginSweep(k)
      <4>1. loop[k].todo = {}
        BY <1>0, <3>3 DEF BeginSweep
      <4>2. Swept(k).pc = "sweep"
        BY <2>2 DEF Swept, LoopState
      <4>3. \A j : Slept(k, j).pc = "sleep" /\ Slept(k, j).todo = {}
        BY <2>2, <4>1 DEF Slept, LoopState
      <4> QED
        BY <3>3, <4>2, <4>3, BeginEffect
    <3>4. CASE EndSweep(k)
      <4>1. loop[k].todo = {}
        BY <3>4 DEF EndSweep
      <4>2. \A j : Rested(k, j).pc = "sleep" /\ Rested(k, j).todo = {}
        BY <2>2, <4>1 DEF Rested, LoopState
      <4> QED
        BY <3>4, <4>2, EndSweepEffect
    <3>5. ASSUME NEW d \in Domains, Renew(k, d)
          PROVE  \E w \in LoopState : /\ Goes(k, w) /\ w.pc # "none"
                                      /\ w.pc \in {"begin", "sleep"} => w.todo = {}
      <4>1. loop[k].todo # {}
        BY <3>5 DEF Renew
      <4>2. Renewed(k, d).pc = loop[k].pc
        BY <2>2 DEF Renewed, LoopState
      <4> QED
        BY <1>0, <2>2, <3>5, <4>1, <4>2, RenewEffect
    <3> QED
      BY <1>5, <3>1, <3>2, <3>3, <3>4, <3>5
  <2>4. /\ loop' \in [Loop -> LoopState]
        /\ \A j \in Loop : loop'[j].pc = "none" <=> j > loops'
        /\ \A j \in Loop : loop'[j].pc \in {"none", "begin", "sleep"} => loop'[j].todo = {}
    BY <2>1, <2>2, <2>3, GoesOn
  <2> QED
    BY <1>0, <2>1, <2>4 DEF TypeOK, LoopState
<1>6. CASE UNCHANGED vars
  BY <1>6 DEF vars, TypeOK
<1> QED
  BY <1>1, <1>2, <1>3, <1>4, <1>5, <1>6 DEF Next

\* Every state of the manager has the right type.
THEOREM TypeCorrect == Spec => []TypeOK
  BY TypeInit, TypeStep, PTL DEF Spec
-----------------------------------------------------------------------------
(* stop() *)

\* No loop runs before start() is called.
LEMMA StopInit == Init => StopInv
  BY DEF Init, StopInv, Stoppable, WaitsForKnown, Running, NotStarted

\* A step of one loop that starts none keeps the loop known that runs.
LEMMA OneLoopStops ==
    ASSUME StopInv, NEW k \in Loop, NEW w, Goes(k, w), Running(k),
           UNCHANGED <<alone, task, waiting>>
    PROVE  StopInv'
<1>1. \A j \in Loop : Running(j)' => Running(j)
  BY DEF Goes, Running
<1> QED
  BY <1>1 DEF StopInv, Stoppable, WaitsForKnown

\* Every step keeps the loop that runs known to the manager.
LEMMA StopStep == TypeOK /\ StopInv /\ [Next]_vars => StopInv'
<1> SUFFICES ASSUME TypeOK, StopInv, [Next]_vars PROVE StopInv'
  OBVIOUS
<1>1. CASE Tick \/ UNCHANGED vars
  BY <1>1 DEF Tick, vars, StopInv, Stoppable, WaitsForKnown, Running
<1>2. ASSUME NEW c \in Callers, Start(c), alone PROVE StopInv'
  <2> DEFINE k == loops + 1
             w == [loop[k] EXCEPT !.pc = "begin", !.due = now]
  <2>1. Goes(k, w) /\ task' = k /\ UNCHANGED <<alone, waiting>>
    BY <1>2, StartEffect
  <2>2. \A b \in Callers : waiting[b] = 0
    BY <1>2 DEF Start
  <2>3. \A j \in Loop : ~Running(j)
    <3> SUFFICES ASSUME NEW j \in Loop, Running(j) PROVE FALSE
      OBVIOUS
    <3>1. task = j
      BY <1>2 DEF StopInv, Stoppable
    <3>2. j # 0
      BY DEF Loop
    <3> QED
      BY <1>2, <3>1, <3>2 DEF Start
  <2> HIDE DEF k, w
  <2>4. \A j \in Loop : Running(j)' => j = k
    BY <2>1, <2>3 DEF Goes, Running
  <2> QED
    BY <2>1, <2>2, <2>4 DEF StopInv, Stoppable, WaitsForKnown
<1>3. ASSUME NEW c \in Callers, Start(c), ~alone PROVE StopInv'
  BY <1>3 DEF Start, StopInv, Stoppable, WaitsForKnown
<1>4. ASSUME NEW c \in Callers, Stop(c) PROVE StopInv'
  <2>1. CASE ~Running(task) /\ task' = 0 /\ UNCHANGED <<loop, waiting>>
    BY <1>4, <2>1 DEF Stop, StopInv, Stoppable, WaitsForKnown, Running
  <2>2. CASE Running(task) /\ loop' = [loop EXCEPT ![task].cancelled = TRUE]
             /\ waiting' = [waiting EXCEPT ![c] = task] /\ UNCHANGED task
    <3>1. task \in Loop
      <4>1. task \in 0..loops /\ loops \in 0..MaxLoops /\ MaxLoops \in Nat /\ task # 0
        BY <1>4, TypeFacts DEF Stop
      <4> QED
        BY <4>1 DEF Loop
    <3>2. Goes(task, [loop[task] EXCEPT !.cancelled = TRUE]) /\ loop[task] \in LoopState
      BY <2>2, <3>1, CancelEffect, TypeFacts
    <3>3. \A j \in Loop : Running(j)' => Running(j)
      BY <2>2, <3>1, <3>2 DEF Goes, Running
    <3>4. UNCHANGED alone /\ waiting \in [Callers -> 0..loops]
      BY <1>4, TypeFacts DEF Stop
    <3> QED
      BY <2>2, <3>3, <3>4 DEF StopInv, Stoppable, WaitsForKnown
  <2> QED
    BY <1>4, <2>1, <2>2 DEF Stop
<1>5. ASSUME NEW c \in Callers, StopReturns(c) PROVE StopInv'
  <2>1. /\ waiting[c] # 0 /\ ~Running(waiting[c]) /\ task' = 0
        /\ waiting' = [waiting EXCEPT ![c] = 0] /\ UNCHANGED <<alone, loop>>
        /\ waiting \in [Callers -> 0..loops]
    BY <1>5, TypeFacts DEF StopReturns
  <2>2. ASSUME alone PROVE \A k \in Loop : ~Running(k)
    <3> SUFFICES ASSUME NEW k \in Loop, Running(k) PROVE FALSE
      OBVIOUS
    <3>1. task = k /\ task \in {0, waiting[c]}
      BY <2>1, <2>2 DEF StopInv, Stoppable, WaitsForKnown
    <3>2. k # 0
      BY DEF Loop
    <3> QED
      BY <2>1, <3>1, <3>2
  <2> QED
    BY <2>1, <2>2 DEF StopInv, Stoppable, WaitsForKnown, Running
<1>6. ASSUME NEW k \in Loop,
             \/ CancelTask(k) \/ CancelledLoopEnds(k) \/ BeginSweep(k) \/ EndSweep(k)
             \/ \E d \in Domains : Renew(k, d)
      PROVE  StopInv'
  <2>1. \E w : Goes(k, w)
    BY <1>6, CancelEffect, EndEffect, BeginEffect, EndSweepEffect, RenewEffect DEF CancelTask
  <2>2. Running(k) /\ UNCHANGED <<alone, task, waiting>>
    BY <1>6 DEF CancelTask, CancelledLoopEnds, BeginSweep, EndSweep, Renew, Active
  <2> QED
    BY <2>1, <2>2, OneLoopStops
<1> QED
  BY <1>1, <1>2, <1>3, <1>4, <1>5, <1>6 DEF Next

\* As long as nobody calls start() while a stop() waits, stop() can end the
\* loop that runs: it is the one the manager knows.
THEOREM RunningLoopIsKnown == Spec => []Stoppable
<1>1. Init => TypeOK /\ StopInv
  BY TypeInit, StopInit
<1>2. TypeOK /\ StopInv /\ [Next]_vars => TypeOK' /\ StopInv'
  BY TypeStep, StopStep
<1>3. StopInv => Stoppable
  BY DEF StopInv
<1> QED
  BY <1>1, <1>2, <1>3, PTL DEF Spec
-----------------------------------------------------------------------------
(* Sweeps in time *)

\* What Provident says of the two spans of time that matter, in terms of how
\* far ahead a loop looks.
LEMMA Ahead ==
    ASSUME Provident, NEW t \in Nat, NEW due \in Nat, NEW e \in Nat, NEW j \in 0..Jitter
    PROVE  /\ e > t + Days => e > t + Interval + Jitter + SweepTime + SweepTime
           /\ e = t + Lifetime => e > t + Interval + Jitter + SweepTime + SweepTime
           /\ e > t + Interval + Jitter + SweepTime + SweepTime /\ due <= t + SweepTime
                => e > due /\ e > due + SweepTime + Interval + Jitter
           /\ e > t + Interval + Jitter + SweepTime + SweepTime /\ due <= t + Interval + Jitter
                => e > due + SweepTime
           /\ e > due + SweepTime + Interval + Jitter /\ t <= due
                => e > t + Interval + j + SweepTime
           /\ e > due /\ t <= due => e > t
           /\ e > due + SweepTime /\ t <= due => e > t
<1>1. {Interval, Jitter, Days, Lifetime, SweepTime} \subseteq Nat
  BY RenewalAssumption
<1>2. /\ Interval \in Nat /\ Jitter \in Nat /\ Days \in Nat /\ Lifetime \in Nat
      /\ SweepTime \in Nat
  BY <1>1
<1>3. /\ Days >= Interval + Jitter + SweepTime + SweepTime
      /\ Lifetime > Interval + Jitter + SweepTime + SweepTime
  BY <1>2 DEF Provident
<1> QED
  BY <1>2, <1>3

\* A certificate that expires later than that lasts, for every loop.
LEMMA LongLasting ==
    ASSUME TypeOK, Provident, NEW k \in Loop, Active(k), OnTime(k), NEW d \in Domains,
           expiry[d] > now + Interval + Jitter + SweepTime + SweepTime
    PROVE  Lasts(k, d)
<1>1. now \in Nat /\ loop[k].due \in Nat /\ expiry[d] \in Nat /\ 0 \in 0..Jitter
  BY TypeFacts, RenewalAssumption
<1> QED
  BY <1>1, Ahead DEF OnTime, Lasts

\* The initial state has no loops.
LEMMA RenewalInit == Init => RenewalInv
  BY DEF Init, RenewalInv, NotSweptYet, Active, Running, NotStarted

\* Time goes on, and no active loop is late.
LEMMA TickStep == TypeOK /\ RenewalInv /\ Tick => RenewalInv'
<1> SUFFICES ASSUME TypeOK, RenewalInv, Tick PROVE RenewalInv'
  OBVIOUS
<1>1. now' = now + 1 /\ UNCHANGED <<loop, expiry, failed>>
  BY DEF Tick
<1>2. \A k \in Loop : (Active(k)' <=> Active(k)) /\ \A d : (Lasts(k, d)' <=> Lasts(k, d))
  BY <1>1 DEF Active, Running, Lasts
<1>3. NotSweptYet'
  BY <1>1 DEF RenewalInv, NotSweptYet
<1>4. ASSUME NEW k \in Loop, Active(k) PROVE OnTime(k)'
  <2>1. OnTime(k) /\ now < loop[k].due
    BY <1>4 DEF RenewalInv, Tick
  <2>2. /\ now \in Nat /\ loop[k].due \in Nat
        /\ Interval \in Nat /\ Jitter \in Nat /\ SweepTime \in Nat
    BY TypeFacts, RenewalAssumption
  <2>3. /\ now + 1 <= loop[k].due
        /\ loop[k].due <= now + Interval + Jitter => loop[k].due <= now + 1 + Interval + Jitter
        /\ loop[k].due <= now + SweepTime => loop[k].due <= now + 1 + SweepTime
    BY <2>1, <2>2
  <2> QED
    BY <1>1, <2>1, <2>3 DEF OnTime
<1> QED
  BY <1>1, <1>2, <1>3, <1>4 DEF RenewalInv

\* One loop goes on as w: what remains to be shown of it.
LEMMA OneLoopRenews ==
    ASSUME TypeOK, RenewalInv, NEW k \in Loop, NEW w, Goes(k, w), now' = now,
           w.pc \in {"none", "begin"} => ~w.swept,
           Active(k)' => OnTime(k)',
           \A j \in Loop \ {k}, d \in Domains :
              Provident /\ Active(j) /\ OnTime(j) =>
                  \/ failed'[d] = failed[d] /\ expiry'[d] = expiry[d]
                  \/ failed'[d]
                  \/ Lasts(j, d)',
           \A d \in Domains : Provident /\ Active(k)' => failed'[d] \/ Lasts(k, d)'
    PROVE  RenewalInv'
<1>1. \A j \in Loop \ {k} : /\ loop'[j] = loop[j]
                            /\ Active(j)' <=> Active(j)
                            /\ OnTime(j)' <=> OnTime(j)
  BY DEF Goes, Active, Running, OnTime
<1>2. loop'[k] = w
  BY DEF Goes
<1>3. NotSweptYet'
  BY <1>1, <1>2 DEF RenewalInv, NotSweptYet
<1>4. \A j \in Loop : Active(j)' => OnTime(j)'
  BY <1>1 DEF RenewalInv
<1>5. ASSUME Provident, NEW j \in Loop \ {k}, NEW d \in Domains, Active(j)
      PROVE  failed'[d] \/ Lasts(j, d)'
  <2>1. OnTime(j) /\ (failed[d] \/ Lasts(j, d))
    BY <1>5 DEF RenewalInv
  <2>2. expiry'[d] = expiry[d] => (Lasts(j, d)' <=> Lasts(j, d))
    BY <1>1 DEF Lasts
  <2>3. CASE failed'[d] = failed[d] /\ expiry'[d] = expiry[d]
    BY <2>1, <2>2, <2>3
  <2> QED
    BY <1>5, <2>1, <2>3
<1> QED
  BY <1>1, <1>3, <1>4, <1>5 DEF RenewalInv
\* start, stop and cancellations: a new loop has swept nothing, and one that
\* is cancelled or done is not active.
LEMMA ControlStep ==
    ASSUME TypeOK, RenewalInv,
           \/ \E c \in Callers : Start(c) \/ Stop(c) \/ StopReturns(c)
           \/ \E k \in Loop : CancelTask(k) \/ CancelledLoopEnds(k)
    PROVE  RenewalInv'
<1>0. UNCHANGED <<now, expiry, failed>>
  BY DEF Start, Stop, StopReturns, CancelTask, CancelledLoopEnds
<1>1. ASSUME NEW c \in Callers, Start(c) PROVE RenewalInv'
  <2>0. loops + 1 \in Loop
    BY <1>1, StartEffect
  <2> DEFINE first(j) == [loop[j] EXCEPT !.pc = "begin", !.due = now]
  <2>1a. PICK k \in Loop : /\ k = loops + 1 /\ loop[k].pc = "none"
                          /\ Goes(k, first(k))
    BY <1>1, <2>0, StartEffect
  <2> DEFINE w == first(k)
  <2>1. loop[k].pc = "none" /\ Goes(k, w) /\ loop[k] \in LoopState
    BY <2>1a, TypeFacts
  <2>2. w.pc = "begin" /\ w.due = now /\ w.swept = loop[k].swept
    BY <2>1 DEF LoopState
  <2> HIDE DEF w
  <2>3. ~w.swept
    BY <2>1, <2>2 DEF RenewalInv, NotSweptYet
  <2>4. loop'[k].pc = "begin" /\ loop'[k].due = now' /\ now' <= now'
    BY <1>0, <2>1, <2>2, TypeFacts DEF Goes
  <2>5. OnTime(k)' /\ \A d \in Domains : Lasts(k, d)'
    BY <2>4 DEF OnTime, Lasts
  <2>6. \A d \in Domains : failed'[d] = failed[d] /\ expiry'[d] = expiry[d]
    BY <1>0
  <2> QED
    BY <1>0, <2>1, <2>3, <2>5, <2>6, OneLoopRenews
<1>2. ASSUME NEW k \in Loop, loop' = [loop EXCEPT ![k].cancelled = TRUE] PROVE RenewalInv'
  <2> DEFINE w == [loop[k] EXCEPT !.cancelled = TRUE]
  <2>1. Goes(k, w) /\ loop[k] \in LoopState
    BY <1>2, CancelEffect, TypeFacts
  <2>2. w.cancelled /\ w.pc = loop[k].pc /\ w.swept = loop[k].swept
    BY <2>1 DEF LoopState
  <2> HIDE DEF w
  <2>3. ~Active(k)' /\ (w.pc \in {"none", "begin"} => ~w.swept)
    BY <2>1, <2>2 DEF Goes, Active, RenewalInv, NotSweptYet
  <2>4. \A d \in Domains : failed'[d] = failed[d] /\ expiry'[d] = expiry[d]
    BY <1>0
  <2> QED
    BY <1>0, <2>1, <2>3, <2>4, OneLoopRenews
<1>3. ASSUME NEW k \in Loop, CancelledLoopEnds(k) PROVE RenewalInv'
  <2> DEFINE w == [loop[k] EXCEPT !.pc = "done"]
  <2>1. Goes(k, w) /\ w.pc = "done"
    BY <1>3, EndEffect, TypeFacts DEF LoopState
  <2> HIDE DEF w
  <2>3. ~Active(k)'
    BY <2>1 DEF Goes, Active, Running
  <2>4. \A d \in Domains : failed'[d] = failed[d] /\ expiry'[d] = expiry[d]
    BY <1>0
  <2> QED
    BY <1>0, <2>1, <2>3, <2>4, OneLoopRenews
<1>4. ASSUME UNCHANGED loop PROVE RenewalInv'
  BY <1>0, <1>4 DEF RenewalInv, NotSweptYet, Active, Running, OnTime, Lasts
<1>5. ASSUME NEW c \in Callers, Stop(c)
      PROVE  UNCHANGED loop \/ \E k \in Loop : loop' = [loop EXCEPT ![k].cancelled = TRUE]
  <2>1. task \in 0..loops /\ loops \in 0..MaxLoops /\ MaxLoops \in Nat /\ task # 0
    BY <1>5, TypeFacts DEF Stop
  <2>2. task \in Loop
    BY <2>1 DEF Loop
  <2> QED
    BY <1>5, <2>2 DEF Stop
<1> QED
  BY <1>1, <1>2, <1>3, <1>4, <1>5 DEF StopReturns, CancelTask

\* A sweep begins: what does not need renewal lasts until the sweep after the
\* next, for every loop; what was due is still good for this one.
LEMMA BeginSweepStep ==
    ASSUME TypeOK, RenewalInv, NEW k \in Loop, BeginSweep(k)
    PROVE  RenewalInv'
<1>0. /\ Active(k) /\ UNCHANGED <<now, expiry>> /\ now \in Nat
      /\ loop[k] \in LoopState /\ loop[k].due \in Nat /\ OnTime(k)
      /\ loop[k].pc = "begin" \/ (loop[k].pc = "sleep" /\ now = loop[k].due)
      /\ SweepTime \in Nat /\ Interval \in Nat /\ Jitter \in Nat
      /\ expiry \in [Domains -> Nat] /\ failed \in [Domains -> BOOLEAN]
  BY TypeFacts, RenewalAssumption DEF BeginSweep, RenewalInv
<1>1. CASE Goes(k, Swept(k)) /\ failed' = [d \in Domains |-> failed[d] /\ NeedsRenewal(d)]
  <2> DEFINE w == Swept(k)
  <2>1. /\ w.pc = "sweep" /\ w.due = now + SweepTime /\ w.swept = loop[k].swept
        /\ w.todo = {d \in Domains : NeedsRenewal(d)}
    BY <1>0 DEF LoopState, Swept
  <2> HIDE DEF w
  <2>2. loop'[k] = w
    BY <1>1 DEF Goes, w
  <2>3. now <= now + SweepTime /\ now + SweepTime <= now + SweepTime
    BY <1>0
  <2>4. OnTime(k)'
    BY <1>0, <2>1, <2>2, <2>3 DEF OnTime
  <2>5. ASSUME Provident, NEW d \in Domains, ~NeedsRenewal(d)
        PROVE  expiry[d] > now + Interval + Jitter + SweepTime + SweepTime
    <3>1. expiry[d] \in Nat /\ now + Days \in Nat /\ 0 \in 0..Jitter
      BY <1>0, RenewalAssumption
    <3>2. expiry[d] > now + Days
      BY <2>5, <3>1 DEF NeedsRenewal
    <3> QED
      BY <1>0, <2>5, <3>1, <3>2, Ahead
  <2>6. ASSUME Provident, NEW d \in Domains PROVE failed'[d] \/ Lasts(k, d)'
    <3>1. CASE NeedsRenewal(d)
      <4>1. d \in w.todo
        BY <2>1, <3>1
      <4>2. ASSUME loop[k].swept, ~failed[d] PROVE expiry[d] > now + SweepTime
        <5>1. loop[k].pc = "sleep" /\ now = loop[k].due
          BY <1>0, <4>2 DEF RenewalInv, NotSweptYet
        <5>2. Lasts(k, d)
          BY <1>0, <2>6, <4>2 DEF RenewalInv
        <5> QED
          BY <4>2, <5>1, <5>2 DEF Lasts
      <4>3. failed'[d] <=> failed[d]
        BY <1>1, <3>1
      <4> QED
        BY <1>0, <2>1, <2>2, <4>1, <4>2, <4>3 DEF Lasts
    <3>2. CASE ~NeedsRenewal(d)
      <4>1. expiry[d] > now + Interval + Jitter + SweepTime + SweepTime
        BY <2>5, <2>6, <3>2
      <4>2. expiry[d] \in Nat /\ now + SweepTime \in Nat /\ 0 \in 0..Jitter
        BY <1>0
      <4>3. expiry[d] > w.due /\ expiry[d] > w.due + SweepTime + Interval + Jitter
        BY <1>0, <2>1, <2>3, <2>6, <4>1, <4>2, Ahead
      <4> QED
        BY <1>0, <2>1, <2>2, <4>3 DEF Lasts
    <3> QED
      BY <3>1, <3>2
  <2>7. ASSUME Provident, NEW j \in Loop \ {k}, NEW d \in Domains, Active(j), OnTime(j)
        PROVE  \/ failed'[d] = failed[d] /\ expiry'[d] = expiry[d]
               \/ Lasts(j, d)'
    <3>1. CASE NeedsRenewal(d)
      BY <1>0, <1>1, <2>7, <3>1
    <3>2. CASE ~NeedsRenewal(d)
      <4>1. Lasts(j, d)
        BY <2>5, <2>7, <3>2, LongLasting
      <4>2. loop'[j] = loop[j]
        BY <1>1 DEF Goes
      <4> QED
        BY <1>0, <4>1, <4>2 DEF Lasts
    <3> QED
      BY <3>1, <3>2
  <2> QED
    BY <1>0, <1>1, <2>1, <2>4, <2>6, <2>7, OneLoopRenews DEF w
<1>2. CASE /\ \E j \in 0..Jitter : Goes(k, Slept(k, j))
           /\ failed' = [d \in Domains |-> TRUE]
  <2>1. PICK j \in 0..Jitter : Goes(k, Slept(k, j))
    BY <1>2
  <2> DEFINE w == Slept(k, j)
  <2>2. w.pc = "sleep" /\ w.due = now + Interval + j
    BY <1>0 DEF LoopState, Slept
  <2> HIDE DEF w
  <2>3. loop'[k] = w
    BY <2>1 DEF Goes, w
  <2>4. now <= now + Interval + j /\ now + Interval + j <= now + Interval + Jitter
    BY <1>0
  <2>5. OnTime(k)'
    BY <1>0, <2>2, <2>3, <2>4 DEF OnTime
  <2>6. \A d \in Domains : failed'[d]
    BY <1>2
  <2> QED
    BY <1>0, <2>1, <2>2, <2>5, <2>6, OneLoopRenews DEF w
<1> QED
  BY <1>1, <1>2, BeginEffect

\* A renewed certificate lasts for every loop, and one that is not was asked
\* for in vain.
LEMMA RenewStep ==
    ASSUME TypeOK, RenewalInv, NEW k \in Loop, NEW d \in Domains, Renew(k, d)
    PROVE  RenewalInv'
<1>0. /\ Active(k) /\ now' = now /\ now \in Nat /\ d \in loop[k].todo
      /\ loop[k] \in LoopState /\ OnTime(k) /\ Goes(k, Renewed(k, d))
      /\ expiry \in [Domains -> Nat] /\ failed \in [Domains -> BOOLEAN]
  BY TypeFacts, RenewEffect DEF Renew, RenewalInv
<1> DEFINE w == Renewed(k, d)
<1>1. /\ w.pc = loop[k].pc /\ w.due = loop[k].due /\ w.swept = loop[k].swept
      /\ w.cancelled = loop[k].cancelled /\ w.todo = loop[k].todo \ {d}
  BY <1>0 DEF LoopState, Renewed
<1> HIDE DEF w
<1>2. loop'[k] = w
  BY <1>0 DEF Goes, w
<1>3. OnTime(k)' /\ (w.pc \in {"none", "begin"} => ~w.swept)
  BY <1>0, <1>1, <1>2 DEF OnTime, RenewalInv, NotSweptYet
<1>4. \/ expiry' = [expiry EXCEPT ![d] = now + Lifetime] /\ failed' = [failed EXCEPT ![d] = FALSE]
      \/ failed' = [failed EXCEPT ![d] = TRUE] /\ UNCHANGED expiry
  BY DEF Renew
<1>5. now + Lifetime \in Nat /\ 0 \in 0..Jitter
  BY <1>0, RenewalAssumption
<1>6. \A e \in Domains \ {d} : expiry'[e] = expiry[e] /\ failed'[e] = failed[e]
  BY <1>0, <1>4
<1>7. failed'[d] \/ expiry'[d] = now + Lifetime
  BY <1>0, <1>4
<1>8. ASSUME Provident, NEW j \in Loop, Active(j), OnTime(j), expiry'[d] = now + Lifetime
      PROVE  Lasts(j, d)'
  <2>1. loop'[j].pc = loop[j].pc /\ loop'[j].due = loop[j].due /\ loop[j].due \in Nat
    BY <1>0, <1>1, <1>2, TypeFacts DEF Goes
  <2>2. expiry'[d] > now + Interval + Jitter + SweepTime + SweepTime
    BY <1>0, <1>5, <1>8, Ahead
  <2>3. expiry'[d] \in Nat
    BY <1>5, <1>8
  <2>4. /\ loop[j].due <= now + SweepTime =>
              expiry'[d] > loop[j].due
              /\ expiry'[d] > loop[j].due + SweepTime + Interval + Jitter
        /\ loop[j].due <= now + Interval + Jitter => expiry'[d] > loop[j].due + SweepTime
    BY <1>0, <1>5, <1>8, <2>1, <2>2, <2>3, Ahead
  <2> QED
    BY <1>8, <2>1, <2>4 DEF OnTime, Lasts
<1>9. ASSUME Provident, NEW j \in Loop \ {k}, NEW e \in Domains,
             Active(j), OnTime(j)
      PROVE  \/ failed'[e] = failed[e] /\ expiry'[e] = expiry[e]
             \/ failed'[e]
             \/ Lasts(j, e)'
  BY <1>6, <1>7, <1>8, <1>9
<1>10. ASSUME Provident, NEW e \in Domains PROVE failed'[e] \/ Lasts(k, e)'
  <2>1. CASE e = d
    BY <1>0, <1>7, <1>8, <1>10, <2>1
  <2>2. CASE e # d
    <3>1. failed[e] \/ Lasts(k, e)
      BY <1>0, <1>10 DEF RenewalInv
    <3>2. Lasts(k, e) => Lasts(k, e)'
      BY <1>1, <1>2, <1>6, <2>2 DEF Lasts
    <3> QED
      BY <1>6, <2>2, <3>1, <3>2
  <2> QED
    BY <2>1, <2>2
<1> QED
  BY <1>0, <1>3, <1>9, <1>10, OneLoopRenews DEF w

\* After a sweep every certificate lasts past the next one.
LEMMA EndSweepStep ==
    ASSUME TypeOK, RenewalInv, NEW k \in Loop, EndSweep(k)
    PROVE  RenewalInv'
<1>0. /\ Active(k) /\ UNCHANGED <<now, expiry, failed>> /\ now \in Nat
      /\ loop[k].pc = "sweep" /\ loop[k].todo = {}
      /\ loop[k] \in LoopState /\ loop[k].due \in Nat /\ OnTime(k)
      /\ SweepTime \in Nat /\ Interval \in Nat /\ Jitter \in Nat
      /\ expiry \in [Domains -> Nat]
  BY TypeFacts, RenewalAssumption DEF EndSweep, RenewalInv
<1>1. PICK j \in 0..Jitter : Goes(k, Rested(k, j))
  BY EndSweepEffect
<1> DEFINE w == Rested(k, j)
<1>2. w.pc = "sleep" /\ w.due = now + Interval + j
  BY <1>0 DEF LoopState, Rested
<1> HIDE DEF w
<1>3. loop'[k] = w
  BY <1>1 DEF Goes, w
<1>4. now <= now + Interval + j /\ now + Interval + j <= now + Interval + Jitter
  BY <1>0
<1>5. OnTime(k)'
  BY <1>0, <1>2, <1>3, <1>4 DEF OnTime
<1>6. ASSUME Provident, NEW d \in Domains PROVE failed'[d] \/ Lasts(k, d)'
  <2>1. failed[d] \/ Lasts(k, d)
    BY <1>0, <1>6 DEF RenewalInv
  <2>2. ASSUME Lasts(k, d) PROVE expiry[d] > now + Interval + j + SweepTime
    <3>1. expiry[d] > loop[k].due + SweepTime + Interval + Jitter /\ now <= loop[k].due
      BY <1>0, <2>2 DEF Lasts, OnTime
    <3> QED
      BY <1>0, <1>6, <3>1, Ahead
  <2> QED
    BY <1>0, <1>2, <1>3, <2>1, <2>2 DEF Lasts
<1>7. \A d \in Domains : failed'[d] = failed[d] /\ expiry'[d] = expiry[d]
  BY <1>0
<1> QED
  BY <1>0, <1>1, <1>2, <1>5, <1>6, <1>7, OneLoopRenews DEF w

\* Under a loop that has finished a sweep no certificate expires unnoticed,
\* whatever the interval, jitter, lifetime and duration of sweeps, if they
\* are Provident, and however many loops run.
THEOREM NothingExpires == Spec => []NoneExpires
<1>1. Init => TypeOK /\ RenewalInv
  BY TypeInit, RenewalInit
<1>2. TypeOK /\ RenewalInv /\ [Next]_vars => TypeOK' /\ RenewalInv'
  <2>1. TypeOK /\ RenewalInv /\ UNCHANGED vars => RenewalInv'
    BY DEF vars, RenewalInv, NotSweptYet, Active, Running, OnTime, Lasts
  <2> QED
    BY <2>1, TypeStep, TickStep, ControlStep, BeginSweepStep, RenewStep, EndSweepStep DEF Next
<1>3. TypeOK /\ RenewalInv => NoneExpires
  <2> SUFFICES ASSUME TypeOK, RenewalInv, Provident, NEW k \in Loop, Active(k), loop[k].swept,
                      NEW d \in Domains, ~failed[d]
               PROVE  expiry[d] > now
    BY DEF NoneExpires
  <2>1. OnTime(k) /\ Lasts(k, d)
    BY DEF RenewalInv
  <2>2. now \in Nat /\ loop[k].due \in Nat /\ expiry[d] \in Nat /\ 0 \in 0..Jitter
    BY TypeFacts, RenewalAssumption
  <2>3. loop[k].pc \in {"sweep", "sleep"}
    BY DEF Active, Running, RenewalInv, NotSweptYet
  <2> QED
    BY <2>1, <2>2, <2>3, Ahead DEF OnTime, Lasts
<1> QED
  BY <1>1, <1>2, <1>3, PTL DEF Spec
=============================================================================
