-------------------------- MODULE SyncClient_proofs --------------------------
(***************************************************************************)
(* Theorems about SyncClient and the EventDispatcher it composes, for any  *)
(* finite set of threads, any number of operations and any callbacks.      *)
(***************************************************************************)
EXTENDS SyncClient, FiniteSetTheorems, SequenceTheorems, WellFoundedInduction, TLAPS

-----------------------------------------------------------------------------
(* Inductive invariants *)

\* The variables of the runner and of the threads have their types.
RunnerTypes ==
    /\ scenario \in Scenarios /\ isOpen \in BOOLEAN
    /\ refs \subseteq {"thread", "loop"}
    /\ loop \in {"running", "blocked", "stopped", "closed"}
    /\ stopping \in BOOLEAN /\ http \in {"open", "closed"}
    /\ pc \in [Threads -> {"idle", "enter", "schedule", "wait", "emit", "stop",
                           "join", "close loop"}]
    /\ op \in [Threads -> {"none", "call", "check", "close"}]
    /\ result \in [Threads -> {"none", "returned", "raised"}]
    /\ task \in [Threads -> {"none", "queued", "handler", "emitting", "cancelled",
                             "returned", "raised"}]
    /\ left \in [Threads -> 0..MaxOps]

\* So have those of an emission.
EmissionTypes ==
    /\ event \in [Threads -> Events]
    /\ snapshot \in [Threads -> Seq(Callbacks)]
    /\ at \in [Threads -> Nat]
    /\ got \in [Threads -> Seq(Callbacks)]
    /\ kept \in [Threads -> SUBSET Callbacks]
    /\ counted \in [Events -> Nat]

Closing == {"stop", "join", "close loop"}
Emits(t) == task[t] \in {"emitting", "cancelled"}
InTask(t) == task[t] \in {"queued", "handler"} \/ Emits(t)

\* Where a thread is tells what it does, and what it waits for.
Phase(t) ==
    /\ pc[t] \in {"enter", "schedule"} => op[t] \in {"call", "close"} /\ task[t] = "none"
    /\ pc[t] = "wait" => op[t] \in {"call", "close"} /\ task[t] # "none"
    /\ pc[t] = "emit" => op[t] = "check" /\ task[t] = "none" /\ event[t] = "warning"
    /\ pc[t] \in Closing => op[t] = "close"
    /\ InTask(t) => pc[t] = "wait"
    /\ task[t] = "handler" \/ Emits(t) => op[t] = "call"
    /\ Emits(t) => event[t] = "issued"
    /\ at[t] # 0 <=> pc[t] = "emit" \/ Emits(t)
Phases == \A t \in Threads : Phase(t)

\* asyncio.Runner belongs to one thread.
RunnerIsMains == ~ThreadMode => \A t \in Threads \ {Main} : pc[t] = "idle"

\* Each callback is subscribed once, and was so at first, or is "listener".
Origins(e) == ToSet(scenario.typed[e]) \cup ToSet(scenario.global) \cup {"listener"}
Lists ==
    /\ typed \in [Events -> Seq(Callbacks)] /\ global \in Seq(Callbacks)
    /\ IsInjective(global)
    /\ \A e \in Events :
          /\ IsInjective(typed[e]) /\ ToSet(typed[e]) \cap ToSet(global) = {}
          /\ ToSet(typed[e]) \cup ToSet(global) \subseteq Origins(e)

\* What an emission has called is the part of its snapshot it has gone
\* through, and what stayed subscribed is in the snapshot.
Gone(t) == {i \in 1..(at[t] - 1) : ~Skipped(t, snapshot[t][i])}
Sound(t) ==
    /\ IsInjective(snapshot[t]) /\ IsInjective(got[t])
    /\ at[t] # 0 =>
          /\ at[t] <= Len(snapshot[t]) + 1
          /\ ToSet(got[t]) = {snapshot[t][i] : i \in Gone(t)}
          /\ kept[t] \subseteq ToSet(snapshot[t])
          /\ ToSet(snapshot[t]) \subseteq Origins(event[t])
Emissions == \A t \in Threads : Sound(t)

\* An operation that was begun and not counted can be counted once.
CanCount(t) ==
    \/ op[t] = "call" /\ (pc[t] \in {"enter", "schedule"} \/ task[t] \in {"queued", "handler"})
    \/ at[t] # 0 /\ \A i \in 1..(at[t] - 1) : snapshot[t][i] # "metrics"
Begun == {b \in Threads \X (1..MaxOps) : b[2] > left[b[1]]}
Counting == {t \in Threads : CanCount(t)}
CountedOnce == \A e \in Events : counted[e] + Cardinality(Counting) <= Cardinality(Begun)

\* In runner mode nothing overtakes a close() that has begun.
EnteredOpen ==
    ~ThreadMode => \A t \in Threads : op[t] = "close" /\ pc[t] = "enter" => isOpen

\* Nothing of the runner is taken down while the HTTP client is open.
HttpFirst ==
    /\ \A t \in Threads : pc[t] \in Closing => http = "closed"
    /\ refs # AllRefs => http = "closed"
    /\ stopping \/ loop \in {"stopped", "closed"} => http = "closed"
    /\ ~isOpen => http = "closed" \/ (~ThreadMode /\ CallsBackOnLoop)
    /\ \A t \in Threads : op[t] = "close" =>
          /\ pc[t] = "wait" /\ task[t] \in {"returned", "raised"} => http = "closed"
          /\ pc[t] = "idle" /\ result[t] = "returned" /\ ~CallsBackOnLoop => http = "closed"

\* A disciplined close() is alone.
CloserIsAlone ==
    scenario.disciplined =>
        \A t \in Threads : pc[t] # "idle" /\ op[t] = "close" =>
            \A u \in Threads \ {t} : pc[u] = "idle"

\* It takes the open runner down step by step, until nothing is left.
Shut == ~isOpen /\ refs = {} /\ loop = "closed"
Orderly ==
    scenario.disciplined /\ ~CallsBackOnLoop =>
        /\ isOpen => refs = AllRefs /\ loop = "running" /\ ~stopping
        /\ ~isOpen => Shut \/ \E t \in Threads : pc[t] \in {"join", "close loop"}
        /\ \A t \in Threads : op[t] = "close" =>
              /\ pc[t] \in {"enter", "schedule", "wait", "stop"} => isOpen
              /\ pc[t] = "join" => /\ ThreadMode /\ ~isOpen /\ refs = AllRefs
                                   /\ loop \in {"running", "stopped"}
              /\ pc[t] = "close loop" => ~isOpen /\ refs = {"loop"} /\ loop = "stopped"
              /\ pc[t] = "idle" /\ result[t] = "returned" => Shut

\* Nobody waits for the loop of a closed runner.
Served ==
    scenario.disciplined /\ ~CallsBackOnLoop =>
        \A t \in Threads : pc[t] \in {"schedule", "wait"} => isOpen

-----------------------------------------------------------------------------
(* Sequences *)

\* A set of numbers up to n that has 0 and with every number the next, has
\* all of them.
LEMMA AllUpTo ==
    ASSUME NEW n \in Nat, NEW T, 0 \in T, \A i \in 1..n : i - 1 \in T => i \in T
    PROVE  \A i \in 0..n : i \in T
<1> DEFINE D == {i \in 0..n : i \notin T}
<1> SUFFICES ASSUME D # {} PROVE FALSE
  OBVIOUS
<1>1. D \subseteq Nat
  OBVIOUS
<1>2. PICK x \in D : \A y \in D : ~ (<<y, x>> \in OpToRel(<, Nat))
  BY <1>1, WFMin, NatLessThanWellFounded
<1>3. x \in 1..n /\ x - 1 \in 0..n
  OBVIOUS
<1>4. x - 1 \notin D
  <2>1. <<x - 1, x>> \in OpToRel(<, Nat)
    BY <1>1, <1>3 DEF OpToRel
  <2> QED
    BY <1>2, <2>1
<1> QED
  BY <1>3, <1>4

\* The elements of a sequence.
LEMMA Elements ==
    ASSUME NEW S, NEW s \in Seq(S)
    PROVE  /\ Len(s) \in Nat /\ DOMAIN s = 1..Len(s)
           /\ \A i \in 1..Len(s) : s[i] \in S
           /\ ToSet(s) = {s[i] : i \in 1..Len(s)} /\ ToSet(s) \subseteq S
           /\ IsInjective(s) <=> \A i, j \in 1..Len(s) : s[i] = s[j] => i = j
<1>1. Len(s) \in Nat /\ DOMAIN s = 1..Len(s) /\ \A i \in 1..Len(s) : s[i] \in S
  BY LenProperties, ElementOfSeq
<1>2. ToSet(s) = {s[i] : i \in 1..Len(s)}
  BY <1>1 DEF ToSet
<1> QED
  BY <1>1, <1>2 DEF IsInjective

\* The empty sequence.
LEMMA Nothing == ASSUME NEW S
                 PROVE  <<>> \in Seq(S) /\ Len(<<>>) = 0 /\ ToSet(<<>>) = {} /\ IsInjective(<<>>)
<1>1. <<>> \in Seq(S) /\ Len(<<>>) = 0
  OBVIOUS
<1>2. DOMAIN <<>> = {}
  OBVIOUS
<1> QED
  BY <1>1, <1>2 DEF ToSet, IsInjective

\* Appending an element, perhaps a new one.
LEMMA AppendedFacts ==
    ASSUME NEW S, NEW s \in Seq(S), NEW e \in S
    PROVE  /\ Append(s, e) \in Seq(S) /\ Len(Append(s, e)) = Len(s) + 1
           /\ \A j \in 1..Len(s) : Append(s, e)[j] = s[j]
           /\ Append(s, e)[Len(s) + 1] = e
           /\ ToSet(Append(s, e)) = ToSet(s) \cup {e}
           /\ IsInjective(s) /\ e \notin ToSet(s) => IsInjective(Append(s, e))
<1> DEFINE n == Len(s)
           a == Append(s, e)
<1>1. n \in Nat /\ ToSet(s) = {s[i] : i \in 1..n}
  BY Elements
<1>2. /\ a \in Seq(S) /\ Len(a) = n + 1
      /\ \A j \in 1..n : a[j] = s[j]
      /\ a[n + 1] = e
  BY AppendProperties
<1> HIDE DEF a
<1>3. ToSet(a) = {a[i] : i \in 1..(n + 1)}
  BY <1>2, Elements
<1>4. \A i \in 1..(n + 1) : i \in 1..n \/ i = n + 1
  BY <1>1
<1>5. 1..n \subseteq 1..(n + 1) /\ n + 1 \in 1..(n + 1)
  BY <1>1
<1> HIDE DEF n
<1>6. ToSet(a) = ToSet(s) \cup {e}
  BY <1>1, <1>2, <1>3, <1>4, <1>5
<1>7. ASSUME IsInjective(s), e \notin ToSet(s) PROVE IsInjective(a)
  <2>1. \A i, j \in 1..n : s[i] = s[j] => i = j
    BY <1>7, Elements DEF n
  <2>2. \A i \in 1..n : s[i] # e
    BY <1>1, <1>7
  <2>3. \A i, j \in 1..(n + 1) : a[i] = a[j] => i = j
    BY <1>2, <1>4, <2>1, <2>2
  <2> QED
    BY <1>2, <2>3, Elements
<1> QED
  BY <1>2, <1>6, <1>7 DEF a, n

\* Two sequences, one after the other.
LEMMA JoinedFacts ==
    ASSUME NEW S, NEW s \in Seq(S), NEW t \in Seq(S)
    PROVE  /\ s \o t \in Seq(S)
           /\ ToSet(s \o t) = ToSet(s) \cup ToSet(t)
           /\ IsInjective(s \o t) <=>
                 IsInjective(s) /\ IsInjective(t) /\ ToSet(s) \cap ToSet(t) = {}
<1> DEFINE m == Len(s)
           n == Len(t)
           c == s \o t
<1>1. /\ m \in Nat /\ ToSet(s) = {s[i] : i \in 1..m}
      /\ n \in Nat /\ ToSet(t) = {t[i] : i \in 1..n}
      /\ IsInjective(s) <=> \A i, j \in 1..m : s[i] = s[j] => i = j
      /\ IsInjective(t) <=> \A i, j \in 1..n : t[i] = t[j] => i = j
  BY Elements
<1>2. /\ c \in Seq(S) /\ Len(c) = m + n
      /\ \A i \in 1..(m + n) : c[i] = IF i <= m THEN s[i] ELSE t[i - m]
  BY ConcatProperties
<1> HIDE DEF c
<1>3. /\ ToSet(c) = {c[i] : i \in 1..(m + n)}
      /\ IsInjective(c) <=> \A i, j \in 1..(m + n) : c[i] = c[j] => i = j
  BY <1>2, Elements
<1> HIDE DEF m, n
<1>4. \A i \in 1..m : i \in 1..(m + n) /\ i <= m
  BY <1>1
<1>5. \A i \in 1..n : m + i \in 1..(m + n) /\ ~ (m + i <= m) /\ (m + i) - m = i
  BY <1>1
<1>6. \A i \in 1..(m + n) : IF i <= m THEN i \in 1..m
                            ELSE i - m \in 1..n /\ m + (i - m) = i
  BY <1>1
<1>7. (\A i \in 1..m : c[i] = s[i]) /\ (\A i \in 1..n : c[m + i] = t[i])
  BY <1>2, <1>4, <1>5
<1>8. ToSet(c) = ToSet(s) \cup ToSet(t)
  <2>1. \A i \in 1..(m + n) : c[i] \in ToSet(s) \cup ToSet(t)
    BY <1>1, <1>2, <1>6, SMTT(30)
  <2>2. \A i \in 1..m : s[i] \in ToSet(c)
    BY <1>3, <1>4, <1>7
  <2>3. \A i \in 1..n : t[i] \in ToSet(c)
    BY <1>3, <1>5, <1>7
  <2>4. ToSet(c) \subseteq ToSet(s) \cup ToSet(t)
    BY <1>3, <2>1
  <2>5. ToSet(s) \subseteq ToSet(c) /\ ToSet(t) \subseteq ToSet(c)
    BY <1>1, <2>2, <2>3
  <2> QED
    BY <2>4, <2>5
<1>9. ASSUME IsInjective(c)
      PROVE  IsInjective(s) /\ IsInjective(t) /\ ToSet(s) \cap ToSet(t) = {}
  <2>1. \A i, j \in 1..m : s[i] = s[j] => i = j
    BY <1>3, <1>4, <1>7, <1>9
  <2>2. \A i, j \in 1..n : t[i] = t[j] => i = j
    <3>1. \A i, j \in 1..n : t[i] = t[j] => m + i = m + j
      BY <1>3, <1>5, <1>7, <1>9
    <3> QED
      BY <1>1, <3>1
  <2>3. \A i \in 1..m, j \in 1..n : s[i] # t[j]
    <3>1. \A i \in 1..m, j \in 1..n : s[i] = t[j] => i = m + j
      BY <1>3, <1>4, <1>5, <1>7, <1>9
    <3>2. \A i \in 1..m, j \in 1..n : i # m + j
      BY <1>1
    <3> QED
      BY <3>1, <3>2
  <2> QED
    BY <1>1, <2>1, <2>2, <2>3
<1>10. ASSUME IsInjective(s), IsInjective(t), ToSet(s) \cap ToSet(t) = {}
       PROVE  IsInjective(c)
  <2>1. \A i \in 1..m, j \in 1..n : s[i] # t[j]
    BY <1>1, <1>10
  <2>2. ASSUME NEW i \in 1..(m + n), NEW j \in 1..(m + n), c[i] = c[j] PROVE i = j
    <3>1. CASE i <= m /\ j <= m
      BY <1>1, <1>2, <1>6, <1>10, <2>2, <3>1
    <3>2. CASE ~ (i <= m) /\ ~ (j <= m)
      <4>1. i - m \in 1..n /\ j - m \in 1..n /\ t[i - m] = t[j - m]
        BY <1>2, <1>6, <2>2, <3>2
      <4>2. i - m = j - m
        BY <1>1, <1>10, <4>1
      <4> QED
        BY <1>1, <4>2
    <3>3. CASE i <= m /\ ~ (j <= m)
      BY <1>2, <1>6, <2>1, <2>2, <3>3
    <3>4. CASE ~ (i <= m) /\ j <= m
      BY <1>2, <1>6, <2>1, <2>2, <3>4
    <3> QED
      BY <3>1, <3>2, <3>3, <3>4
  <2> QED
    BY <1>3, <2>2
<1> QED
  BY <1>2, <1>8, <1>9, <1>10 DEF c

\* Filtered is what its definition says: the recursion has a solution.
LEMMA FilteredDef ==
    ASSUME NEW callbacks, Len(callbacks) \in Nat, NEW cb
    PROVE  /\ Filtered(callbacks, cb)[0] = <<>>
           /\ \A i \in 1..Len(callbacks) :
                 Filtered(callbacks, cb)[i] =
                     IF callbacks[i] = cb THEN Filtered(callbacks, cb)[i - 1]
                     ELSE Append(Filtered(callbacks, cb)[i - 1], callbacks[i])
<1> DEFINE n == Len(callbacks)
           Chosen(rest, i) == IF callbacks[i] = cb THEN rest ELSE Append(rest, callbacks[i])
           Chain(g, m) == g = [i \in 0..m |-> IF i = 0 THEN <<>>
                                              ELSE IF callbacks[i] = cb THEN g[i - 1]
                                              ELSE Append(g[i - 1], callbacks[i])]
           T == {m \in 0..n : \E g : Chain(g, m)}
<1>0. n \in Nat
  OBVIOUS
<1> HIDE DEF n
<1>1. 0 \in T
  <2>1. Chain([i \in 0..0 |-> <<>>], 0)
    OBVIOUS
  <2> HIDE DEF Chain
  <2>2. \E g : Chain(g, 0)
    BY <2>1
  <2> QED
    BY <1>0, <2>2
<1>2. ASSUME NEW m \in 1..n, m - 1 \in T PROVE m \in T
  <2>1. PICK g : Chain(g, m - 1)
    BY <1>2
  <2> DEFINE h == [i \in 0..m |-> IF i = m THEN Chosen(g[m - 1], m) ELSE g[i]]
  <2>2. \A i \in 0..(m - 1) : g[i] = IF i = 0 THEN <<>> ELSE Chosen(g[i - 1], i)
    BY <2>1
  <2> HIDE DEF Chosen
  <2>3. \A i \in 0..m : h[i] = IF i = 0 THEN <<>> ELSE Chosen(h[i - 1], i)
    <3>1. ASSUME NEW i \in 0..m
          PROVE  h[i] = IF i = 0 THEN <<>> ELSE Chosen(h[i - 1], i)
      <4>1. CASE i = m
        <5>1. m - 1 \in 0..m /\ m - 1 # m /\ m # 0
          BY <1>0
        <5> QED
          BY <4>1, <5>1
      <4>2. CASE i # m
        <5>1. i \in 0..(m - 1) /\ (i # 0 => i - 1 \in 0..m /\ i - 1 # m)
          BY <1>0, <4>2
        <5> QED
          BY <2>2, <4>2, <5>1
      <4> QED
        BY <4>1, <4>2
    <3> QED
      BY <3>1
  <2>4. h = [i \in 0..m |-> IF i = 0 THEN <<>> ELSE Chosen(h[i - 1], i)]
    BY <2>3
  <2>5. Chain(h, m)
    BY <2>4 DEF Chosen
  <2> HIDE DEF Chain, h
  <2>6. \E f : Chain(f, m)
    BY <2>5
  <2> QED
    BY <1>0, <2>6
<1> HIDE DEF T
<1>3. n \in T
  <2>1. \A m \in 1..n : m - 1 \in T => m \in T
    BY <1>2
  <2>2. \A i \in 0..n : i \in T
    BY <1>0, <1>1, <2>1, AllUpTo
  <2> QED
    BY <1>0, <2>2
<1> HIDE DEF Chain
<1>4. \E g : Chain(g, n)
  BY <1>3 DEF T
<1>5. Filtered(callbacks, cb) = CHOOSE g : Chain(g, n)
  BY DEF Filtered, Chain, n
<1>6. Chain(Filtered(callbacks, cb), n)
  BY <1>4, <1>5
<1> DEFINE f == Filtered(callbacks, cb)
<1> HIDE DEF f
<1>7. f = [i \in 0..n |-> IF i = 0 THEN <<>>
                          ELSE IF callbacks[i] = cb THEN f[i - 1]
                          ELSE Append(f[i - 1], callbacks[i])]
  BY <1>6 DEF Chain, f
<1>8. f[0] = <<>>
  BY <1>0, <1>7
<1>9. ASSUME NEW i \in 1..n
      PROVE  f[i] = IF callbacks[i] = cb THEN f[i - 1] ELSE Append(f[i - 1], callbacks[i])
  <2>1. i \in 0..n /\ i # 0
    BY <1>0
  <2>2. f[i] = IF i = 0 THEN <<>>
               ELSE IF callbacks[i] = cb THEN f[i - 1]
               ELSE Append(f[i - 1], callbacks[i])
    BY <1>7, <2>1
  <2> QED
    BY <2>1, <2>2
<1> QED
  BY <1>8, <1>9 DEF n, f

\* Without leaves out the one callback, and nothing else.
LEMMA WithoutFacts ==
    ASSUME NEW S, NEW s \in Seq(S), NEW cb
    PROVE  /\ Without(s, cb) \in Seq(S)
           /\ ToSet(Without(s, cb)) = ToSet(s) \ {cb}
           /\ IsInjective(s) => IsInjective(Without(s, cb))
<1> DEFINE n == Len(s)
           f == Filtered(s, cb)
           Good(i) == /\ f[i] \in Seq(S)
                      /\ ToSet(f[i]) = {s[j] : j \in 1..i} \ {cb}
                      /\ IsInjective(s) => IsInjective(f[i])
           T == {i \in 0..n : Good(i)}
<1>1. /\ n \in Nat /\ \A i \in 1..n : s[i] \in S
      /\ ToSet(s) = {s[i] : i \in 1..n}
      /\ IsInjective(s) <=> \A i, j \in 1..n : s[i] = s[j] => i = j
  BY Elements
<1>2. /\ f[0] = <<>>
      /\ \A i \in 1..n : f[i] = IF s[i] = cb THEN f[i - 1] ELSE Append(f[i - 1], s[i])
  BY <1>1, FilteredDef
<1> HIDE DEF n, f
<1>3. 0 \in T
  <2>1. {s[j] : j \in 1..0} = {}
    OBVIOUS
  <2>2. Good(0)
    BY <1>2, <2>1, Nothing
  <2> QED
    BY <1>1, <2>2
<1>4. ASSUME NEW i \in 1..n, i - 1 \in T PROVE i \in T
  <2>1. Good(i - 1) /\ i \in 0..n
    BY <1>1, <1>4
  <2>2. {s[j] : j \in 1..i} = {s[j] : j \in 1..(i - 1)} \cup {s[i]}
    <3>1. \A j \in 1..i : j \in 1..(i - 1) \/ j = i
      OBVIOUS
    <3>2. 1..(i - 1) \subseteq 1..i /\ i \in 1..i
      OBVIOUS
    <3> QED
      BY <3>1, <3>2
  <2>3. CASE s[i] = cb
    <3>1. f[i] = f[i - 1]
      BY <1>2, <2>3
    <3>2. Good(i)
      BY <2>1, <2>2, <2>3, <3>1
    <3> QED
      BY <2>1, <3>2
  <2>4. CASE s[i] # cb
    <3>1. f[i] = Append(f[i - 1], s[i]) /\ s[i] \in S
      BY <1>1, <1>2, <2>4
    <3>2. IsInjective(s) => s[i] \notin ToSet(f[i - 1])
      <4>1. \A j \in 1..(i - 1) : j \in 1..n /\ j # i
        BY <1>1
      <4> QED
        BY <1>1, <2>1, <4>1
    <3>3. /\ f[i] \in Seq(S) /\ ToSet(f[i]) = ToSet(f[i - 1]) \cup {s[i]}
          /\ IsInjective(f[i - 1]) /\ s[i] \notin ToSet(f[i - 1]) => IsInjective(f[i])
      BY <2>1, <3>1, AppendedFacts
    <3>4. Good(i)
      BY <2>1, <2>2, <2>4, <3>2, <3>3
    <3> QED
      BY <2>1, <3>4
  <2> QED
    BY <2>3, <2>4
<1> HIDE DEF T
<1>5. n \in T
  <2>1. \A i \in 1..n : i - 1 \in T => i \in T
    BY <1>4
  <2>2. \A i \in 0..n : i \in T
    BY <1>1, <1>3, <2>1, AllUpTo
  <2> QED
    BY <1>1, <2>2
<1>6. Good(n)
  BY <1>5 DEF T
<1>7. Without(s, cb) = f[n]
  BY DEF Without, f, n
<1> QED
  BY <1>1, <1>6, <1>7

-----------------------------------------------------------------------------
(* Types *)

\* What the assumption says of one scenario.
LEMMA ScenarioFacts ==
    ASSUME RunnerTypes
    PROVE  /\ scenario.mode \in {"thread", "runner"} /\ scenario.disciplined \in BOOLEAN
           /\ scenario.typed \in [Events -> Seq(Callbacks)] /\ scenario.global \in Seq(Callbacks)
           /\ \A e \in Events : IsInjective(scenario.typed[e] \o scenario.global)
           /\ {"calls", "closes"} \cap ToSet(scenario.typed["warning"] \o scenario.global) = {}
  BY SyncAssumption DEF RunnerTypes

\* The initial state has the right type.
LEMMA RunnerTypesInit == Init => RunnerTypes
<1> SUFFICES ASSUME Init PROVE RunnerTypes
  OBVIOUS
<1>1. MaxOps \in 0..MaxOps
  BY SyncAssumption
<1>2. AllRefs \subseteq {"thread", "loop"}
  BY DEF AllRefs
<1>3. /\ scenario \in Scenarios /\ isOpen \in BOOLEAN /\ refs \subseteq {"thread", "loop"}
      /\ loop = "running" /\ stopping \in BOOLEAN /\ http = "open"
  BY <1>2 DEF Init
<1>4. /\ pc = [t \in Threads |-> "idle"] /\ op = [t \in Threads |-> "none"]
      /\ result = [t \in Threads |-> "none"] /\ task = [t \in Threads |-> "none"]
      /\ left = [t \in Threads |-> MaxOps]
  BY DEF Init
<1> QED
  BY <1>1, <1>3, <1>4 DEF RunnerTypes

\* A thread that may begin an operation has one less left.
LEMMA OneLess == ASSUME NEW n \in 0..MaxOps, n > 0 PROVE n - 1 \in 0..MaxOps
<1>1. MaxOps \in Nat
  BY SyncAssumption
<1> QED
  BY <1>1

\* Every step of a thread or of the loop keeps the types of the runner.
LEMMA RunnerTypesStep == RunnerTypes /\ [Next]_vars => RunnerTypes'
<1> SUFFICES ASSUME RunnerTypes, [Next]_vars PROVE RunnerTypes'
  OBVIOUS
<1> USE DEF RunnerTypes, Goto, Ends, SetTask, Raises, runnerVars, threadVars
<1>1. ASSUME NEW t \in Threads, BeginOp(t) PROVE RunnerTypes'
  <2>1. ASSUME NEW o \in {"none", "call", "check", "close"},
               NEW label \in {"idle", "enter", "emit"}, NEW how \in {"none", "returned"},
               Begin(t, o, label, how), isOpen' \in BOOLEAN
        PROVE  RunnerTypes'
    <3>1. left[t] - 1 \in 0..MaxOps
      <4>1. left[t] \in 0..MaxOps /\ left[t] > 0
        BY <2>1 DEF Begin
      <4> QED
        BY <4>1, OneLess
    <3>2. left' = [left EXCEPT ![t] = left[t] - 1]
      BY <2>1 DEF Begin
    <3>3. left' \in [Threads -> 0..MaxOps]
      BY <3>1, <3>2
    <3>4. /\ pc' = [pc EXCEPT ![t] = label] /\ op' = [op EXCEPT ![t] = o]
          /\ result' = [result EXCEPT ![t] = how] /\ task' = [task EXCEPT ![t] = "none"]
          /\ UNCHANGED <<scenario, stopping, http, loop, refs>>
      BY <2>1 DEF Begin
    <3> QED
      BY <2>1, <3>3, <3>4
  <2> QED
    BY <1>1, <2>1 DEF BeginOp, BeginCall, BeginCheck, BeginClose, CloseAgain, BeginSubscribe,
                      BeginUnsubscribe
<1>2. ASSUME NEW t \in Threads, Enter(t) PROVE RunnerTypes'
  BY <1>2 DEF Enter
<1>3. ASSUME NEW t \in Threads, Schedule(t) PROVE RunnerTypes'
  BY <1>3 DEF Schedule
<1>4. ASSUME NEW t \in Threads, TakeResult(t) PROVE RunnerTypes'
  BY <1>4 DEF TakeResult
<1>5. ASSUME NEW t \in Threads, StopLoop(t) PROVE RunnerTypes'
  BY <1>5 DEF StopLoop
<1>6. ASSUME NEW t \in Threads, Join(t) PROVE RunnerTypes'
  BY <1>6 DEF Join
<1>7. ASSUME NEW t \in Threads, CloseLoop(t) PROVE RunnerTypes'
  BY <1>7 DEF CloseLoop
<1>8. ASSUME NEW t \in Threads, FinishCheck(t) PROVE RunnerTypes'
  BY <1>8 DEF FinishCheck
<1>9. ASSUME NEW t \in Threads, StartTask(t) PROVE RunnerTypes'
  BY <1>9 DEF StartTask, Proceeds
<1>10. ASSUME NEW t \in Threads, HandlerReturns(t) PROVE RunnerTypes'
  BY <1>10 DEF HandlerReturns, Proceeds
<1>11. ASSUME NEW t \in Threads, CloseClient(t) PROVE RunnerTypes'
  <2>1. PICK how \in {"returned", "raised"} : task' = [task EXCEPT ![t] = how]
    BY <1>11 DEF CloseClient
  <2>2. http' = "closed"
        /\ UNCHANGED <<scenario, isOpen, refs, loop, stopping, pc, op, result, left>>
    BY <1>11 DEF CloseClient
  <2> QED
    BY <2>1, <2>2
<1>12. ASSUME NEW t \in Threads, CallCallback(t) PROVE RunnerTypes'
  BY <1>12 DEF CallCallback, CallsBack
<1>13. ASSUME NEW t \in Threads, FinishTask(t) PROVE RunnerTypes'
  BY <1>13 DEF FinishTask
<1>14. CASE LoopStops
  BY <1>14 DEF LoopStops
<1>15. CASE UNCHANGED vars
  BY <1>15 DEF vars
<1> QED
  BY <1>1, <1>2, <1>3, <1>4, <1>5, <1>6, <1>7, <1>8, <1>9, <1>10, <1>11, <1>12, <1>13, <1>14,
     <1>15
  DEF Next, ThreadStep, TaskStep

-----------------------------------------------------------------------------
(* The dispatcher *)

\* What an emission of an event copies, is the live callbacks for it.
LEMMA MatchingFacts ==
    ASSUME Lists, NEW e \in Events
    PROVE  /\ Matching(e) \in Seq(Callbacks) /\ IsInjective(Matching(e))
           /\ ToSet(Matching(e)) = ToSet(typed[e]) \cup ToSet(global)
           /\ ToSet(Matching(e)) \subseteq Callbacks
<1>1. typed[e] \in Seq(Callbacks) /\ global \in Seq(Callbacks)
  BY DEF Lists
<1>2. IsInjective(typed[e]) /\ IsInjective(global) /\ ToSet(typed[e]) \cap ToSet(global) = {}
  BY DEF Lists
<1>3. ToSet(Matching(e)) = ToSet(typed[e]) \cup ToSet(global) /\ Matching(e) \in Seq(Callbacks)
  BY <1>1, JoinedFacts DEF Matching
<1> QED
  BY <1>1, <1>2, <1>3, JoinedFacts, Elements DEF Matching

\* Each subscription is to a new callback.
LEMMA SubscribeLists ==
    ASSUME Lists, "listener" \in Callbacks \ Subscribed, scenario' = scenario,
           NEW e \in Events \cup {"any"}, Subscribe("listener", e)
    PROVE  Lists'
<1>1. /\ \A f \in Events : typed[f] \in Seq(Callbacks)
      /\ global \in Seq(Callbacks) /\ "listener" \in Callbacks
  BY DEF Lists
<1>2. \A f \in Events : "listener" \notin ToSet(typed[f]) /\ "listener" \notin ToSet(global)
  <2>1. ASSUME NEW f \in Events
        PROVE  "listener" \notin ToSet(typed[f]) /\ "listener" \notin ToSet(global)
    <3>1. ToSet(Matching(f)) = ToSet(typed[f]) \cup ToSet(global)
      BY <1>1, JoinedFacts DEF Matching
    <3>2. "listener" \notin ToSet(Matching(f))
      BY DEF Subscribed
    <3> QED
      BY <3>1, <3>2
  <2> QED
    BY <2>1
<1>3. "issued" \in Events
  BY DEF Events
<1>4. CASE e = "any" /\ global' = Append(global, "listener") /\ typed' = typed
  <2>1. /\ global' \in Seq(Callbacks) /\ ToSet(global') = ToSet(global) \cup {"listener"}
        /\ IsInjective(global')
    BY <1>1, <1>2, <1>3, <1>4, AppendedFacts DEF Lists
  <2> QED
    BY <1>2, <1>4, <2>1 DEF Lists, Origins
<1>5. CASE e \in Events /\ typed' = [typed EXCEPT ![e] = Append(@, "listener")] /\ global' = global
  <2> DEFINE more == Append(typed[e], "listener")
  <2>1. /\ more \in Seq(Callbacks) /\ ToSet(more) = ToSet(typed[e]) \cup {"listener"}
        /\ IsInjective(more)
    BY <1>1, <1>2, <1>5, AppendedFacts DEF Lists
  <2> HIDE DEF more
  <2>2. typed' = [typed EXCEPT ![e] = more]
    BY <1>5 DEF more
  <2>3. /\ typed' \in [Events -> Seq(Callbacks)]
        /\ \A f \in Events : typed'[f] = IF f = e THEN more ELSE typed[f]
    BY <1>5, <2>1, <2>2 DEF Lists
  <2> QED
    BY <1>2, <1>5, <2>1, <2>3 DEF Lists, Origins
<1> QED
  BY <1>4, <1>5 DEF Subscribe

\* Unsubscribing takes a callback out of every list.
LEMMA UnsubscribeLists ==
    ASSUME Lists, scenario' = scenario, NEW cb, Unsubscribe(cb)
    PROVE  Lists'
<1>1. \A f \in Events : typed[f] \in Seq(Callbacks)
  BY DEF Lists
<1>2. /\ global' \in Seq(Callbacks) /\ ToSet(global') = ToSet(global) \ {cb}
      /\ IsInjective(global')
  BY WithoutFacts DEF Lists, Unsubscribe
<1>3. ASSUME NEW f \in Events
      PROVE  /\ typed'[f] \in Seq(Callbacks) /\ ToSet(typed'[f]) = ToSet(typed[f]) \ {cb}
             /\ IsInjective(typed'[f])
  <2>1. typed'[f] = Without(typed[f], cb)
    BY DEF Unsubscribe
  <2>2. IsInjective(typed[f])
    BY DEF Lists
  <2> QED
    BY <1>1, <2>1, <2>2, WithoutFacts
<1>4. typed' \in [Events -> Seq(Callbacks)]
  <2>1. typed' = [e \in Events |-> typed'[e]]
    BY DEF Unsubscribe
  <2> QED
    BY <1>3, <2>1
<1> QED
  BY <1>2, <1>3, <1>4 DEF Lists, Origins

\* The live lists are as the scenario has them at first.
LEMMA ListsInit == Init => Lists
<1> SUFFICES ASSUME Init PROVE Lists
  OBVIOUS
<1>1. /\ scenario.typed \in [Events -> Seq(Callbacks)] /\ scenario.global \in Seq(Callbacks)
      /\ \A e \in Events : IsInjective(scenario.typed[e] \o scenario.global)
  BY RunnerTypesInit, ScenarioFacts
<1>2. typed = scenario.typed /\ global = scenario.global
  BY DEF Init, InitDispatcher
<1>3. "issued" \in Events
  BY DEF Events
<1>4. \A e \in Events : /\ typed[e] \in Seq(Callbacks) /\ IsInjective(typed[e])
                        /\ IsInjective(global) /\ ToSet(typed[e]) \cap ToSet(global) = {}
  BY <1>1, <1>2, JoinedFacts
<1> QED
  BY <1>1, <1>2, <1>3, <1>4 DEF Lists, Origins

\* Nothing is emitted at first.
LEMMA EmissionsInit == Init => EmissionTypes /\ Emissions
<1> SUFFICES ASSUME Init PROVE EmissionTypes /\ Emissions
  OBVIOUS
<1>1. /\ event = [t \in Threads |-> "issued"] /\ snapshot = [t \in Threads |-> <<>>]
      /\ at = [t \in Threads |-> 0] /\ got = [t \in Threads |-> <<>>]
      /\ kept = [t \in Threads |-> {}] /\ counted = [e \in Events |-> 0]
  BY DEF Init, InitDispatcher
<1>2. <<>> \in Seq(Callbacks) /\ IsInjective(<<>>) /\ "issued" \in Events
  BY Nothing DEF Events
<1> QED
  BY <1>1, <1>2 DEF EmissionTypes, Emissions, Sound

\* An emission begins with a copy of the live callbacks.
LEMMA BeginEmissionFacts ==
    ASSUME Lists, EmissionTypes, Emissions, scenario' = scenario,
           NEW t \in Threads, NEW e \in Events, BeginEmission(t, e)
    PROVE  EmissionTypes' /\ Emissions'
<1> DEFINE all == Matching(e)
<1>1. /\ all \in Seq(Callbacks) /\ IsInjective(all) /\ ToSet(all) \subseteq Callbacks
      /\ ToSet(all) \subseteq Origins(e) /\ Len(all) \in Nat
  BY MatchingFacts, Elements DEF Lists
<1>2. /\ event' = [event EXCEPT ![t] = e] /\ snapshot' = [snapshot EXCEPT ![t] = all]
      /\ at' = [at EXCEPT ![t] = 1] /\ got' = [got EXCEPT ![t] = <<>>]
      /\ kept' = [kept EXCEPT ![t] = ToSet(all)] /\ counted' = counted
  BY DEF BeginEmission
<1>3. <<>> \in Seq(Callbacks) /\ IsInjective(<<>>) /\ ToSet(<<>>) = {}
  BY Nothing
<1> HIDE DEF all
<1>4. EmissionTypes'
  BY <1>1, <1>2, <1>3 DEF EmissionTypes
<1>5. /\ event'[t] = e /\ snapshot'[t] = all /\ at'[t] = 1 /\ got'[t] = <<>>
      /\ kept'[t] = ToSet(all)
      /\ \A u \in Threads \ {t} :
            /\ event'[u] = event[u] /\ snapshot'[u] = snapshot[u] /\ at'[u] = at[u]
            /\ got'[u] = got[u] /\ kept'[u] = kept[u]
  BY <1>2 DEF EmissionTypes
<1>6. Gone(t)' = {} /\ {snapshot'[t][i] : i \in Gone(t)'} = {}
  BY <1>5 DEF Gone
<1>7. Sound(t)'
  <2>1. Origins(event[t])' = Origins(e)
    BY <1>5 DEF Origins
  <2> QED
    BY <1>1, <1>3, <1>5, <1>6, <2>1 DEF Sound
<1>8. ASSUME NEW u \in Threads, u # t PROVE Sound(u)'
  <2>1. Sound(u) /\ Gone(u)' = Gone(u) /\ Origins(event[u])' = Origins(event[u])
    BY <1>5, <1>8 DEF Gone, Skipped, Origins, Emissions
  <2> QED
    BY <1>5, <1>8, <2>1 DEF Sound
<1>9. Emissions'
  BY <1>7, <1>8 DEF Emissions
<1> QED
  BY <1>4, <1>9

\* The next callback of the copy is called, or skipped.
LEMMA CallNextFacts ==
    ASSUME EmissionTypes, Emissions, scenario' = scenario,
           NEW t \in Threads, at[t] # 0, at[t] <= Len(snapshot[t]), CallNext(t),
           kept' \in [Threads -> SUBSET Callbacks], \A u \in Threads : kept'[u] \subseteq kept[u]
    PROVE  EmissionTypes' /\ Emissions'
<1> DEFINE cb == snapshot[t][at[t]]
           n == Len(snapshot[t])
<1>1. /\ snapshot[t] \in Seq(Callbacks) /\ got[t] \in Seq(Callbacks) /\ at[t] \in Nat
      /\ n \in Nat /\ at[t] \in 1..n /\ cb \in Callbacks
      /\ \A i, j \in 1..n : snapshot[t][i] = snapshot[t][j] => i = j
      /\ IsInjective(got[t]) /\ ToSet(got[t]) = {snapshot[t][i] : i \in Gone(t)}
  <2>1. /\ snapshot[t] \in Seq(Callbacks) /\ got[t] \in Seq(Callbacks) /\ at[t] \in Nat
        /\ IsInjective(snapshot[t]) /\ IsInjective(got[t])
        /\ ToSet(got[t]) = {snapshot[t][i] : i \in Gone(t)}
    BY DEF EmissionTypes, Emissions, Sound
  <2>2. /\ n \in Nat /\ \A i \in 1..n : snapshot[t][i] \in Callbacks
        /\ \A i, j \in 1..n : snapshot[t][i] = snapshot[t][j] => i = j
    BY <2>1, Elements
  <2>3. at[t] \in 1..n
    BY <2>1, <2>2
  <2> QED
    BY <2>1, <2>2, <2>3
<1>2. /\ at' = [at EXCEPT ![t] = at[t] + 1]
      /\ got' = IF Skipped(t, cb) THEN got ELSE [got EXCEPT ![t] = Append(got[t], cb)]
      /\ counted' = IF cb = "metrics" THEN [counted EXCEPT ![event[t]] = counted[event[t]] + 1]
                    ELSE counted
      /\ event' = event /\ snapshot' = snapshot
  BY DEF CallNext, Called, Counted
<1> HIDE DEF cb, n
<1>3. cb \notin ToSet(got[t])
  <2>1. \A i \in Gone(t) : i \in 1..n /\ i # at[t]
    BY <1>1 DEF Gone
  <2> QED
    BY <1>1, <2>1 DEF cb
<1>4. /\ Append(got[t], cb) \in Seq(Callbacks) /\ IsInjective(Append(got[t], cb))
      /\ ToSet(Append(got[t], cb)) = ToSet(got[t]) \cup {cb}
  BY <1>1, <1>3, AppendedFacts
<1>5. EmissionTypes'
  <2>1. event[t] \in Events /\ counted[event[t]] + 1 \in Nat
    BY DEF EmissionTypes
  <2>2. counted' \in [Events -> Nat]
    BY <1>2, <2>1 DEF EmissionTypes
  <2>3. got' \in [Threads -> Seq(Callbacks)]
    BY <1>2, <1>4 DEF EmissionTypes
  <2>4. at' \in [Threads -> Nat]
    BY <1>1, <1>2 DEF EmissionTypes
  <2> QED
    BY <1>2, <2>2, <2>3, <2>4 DEF EmissionTypes
<1>6. /\ at'[t] = at[t] + 1
      /\ got'[t] = IF Skipped(t, cb) THEN got[t] ELSE Append(got[t], cb)
      /\ \A u \in Threads \ {t} : at'[u] = at[u] /\ got'[u] = got[u]
  BY <1>2 DEF EmissionTypes
<1>7. \A u \in Threads, c \in Callbacks : Skipped(u, c)' <=> Skipped(u, c)
  BY <1>2 DEF Skipped
<1>8. \A u \in Threads \ {t} : Gone(u)' = Gone(u)
  BY <1>2, <1>6 DEF Gone, Skipped
<1>9. Gone(t)' = IF Skipped(t, cb) THEN Gone(t) ELSE Gone(t) \cup {at[t]}
  <2>1. 1..(at[t] + 1 - 1) = 1..(at[t] - 1) \cup {at[t]}
    BY <1>1
  <2>2. at[t] \notin 1..(at[t] - 1)
    BY <1>1
  <2> QED
    BY <1>2, <1>6, <2>1, <2>2 DEF Gone, Skipped, cb
<1>10. ToSet(got'[t]) = {snapshot'[t][i] : i \in Gone(t)'} /\ IsInjective(got'[t])
  <2>1. CASE Skipped(t, cb)
    BY <1>1, <1>2, <1>6, <1>9, <2>1
  <2>2. CASE ~ Skipped(t, cb)
    <3>1. {snapshot[t][i] : i \in Gone(t) \cup {at[t]}} = {snapshot[t][i] : i \in Gone(t)} \cup {cb}
      BY DEF cb
    <3>2. got'[t] = Append(got[t], cb) /\ Gone(t)' = Gone(t) \cup {at[t]}
      BY <1>6, <1>9, <2>2
    <3>3. snapshot' = snapshot
      BY <1>2
    <3>4. ToSet(got'[t]) = {snapshot[t][i] : i \in Gone(t)} \cup {cb}
      BY <1>1, <1>4, <3>2
    <3>5. IsInjective(got'[t])
      BY <1>4, <3>2
    <3>6. {snapshot'[t][i] : i \in Gone(t)'} = {snapshot[t][i] : i \in Gone(t) \cup {at[t]}}
      BY <3>2, <3>3
    <3> QED
      BY <3>1, <3>4, <3>5, <3>6
  <2> QED
    BY <2>1, <2>2
<1>11. at[t] + 1 <= n + 1
  BY <1>1
<1>12. \A u \in Threads : Origins(event[u])' = Origins(event[u])
  BY <1>2 DEF Origins
<1>13. Sound(t)'
  <2>1. Sound(t) /\ kept'[t] \subseteq kept[t]
    BY DEF Emissions
  <2> QED
    BY <1>2, <1>6, <1>10, <1>11, <1>12, <2>1 DEF Sound, n
<1>14. ASSUME NEW u \in Threads, u # t PROVE Sound(u)'
  <2>1. Sound(u) /\ kept'[u] \subseteq kept[u] /\ Gone(u)' = Gone(u)
        /\ Origins(event[u])' = Origins(event[u])
    BY <1>8, <1>12, <1>14 DEF Emissions
  <2>2. at'[u] = at[u] /\ got'[u] = got[u] /\ snapshot' = snapshot
    BY <1>2, <1>6, <1>14
  <2> QED
    BY <2>1, <2>2 DEF Sound
<1> QED
  BY <1>5, <1>13, <1>14 DEF Emissions

\* An emission ends, over or abandoned; nothing else changes.
LEMMA EndEmissionFacts ==
    ASSUME EmissionTypes, Emissions, scenario' = scenario, NEW t \in Threads,
           LeaveEmission(t) \/ UNCHANGED <<event, snapshot, at, got, counted>>,
           kept' \in [Threads -> SUBSET Callbacks], \A u \in Threads : kept'[u] \subseteq kept[u]
    PROVE  EmissionTypes' /\ Emissions'
<1>1. /\ at' = at \/ at' = [at EXCEPT ![t] = 0]
      /\ UNCHANGED <<event, snapshot, got, counted>>
  BY DEF LeaveEmission
<1>2. EmissionTypes'
  <2>1. at \in [Threads -> Nat] /\ 0 \in Nat
    BY DEF EmissionTypes
  <2>2. CASE at' = at
    BY <1>1, <2>1, <2>2 DEF EmissionTypes
  <2>3. CASE at' = [at EXCEPT ![t] = 0]
    <3>1. at' \in [Threads -> Nat]
      BY <2>1, <2>3
    <3> QED
      BY <1>1, <3>1 DEF EmissionTypes
  <2> QED
    BY <1>1, <2>2, <2>3
<1>3. ASSUME NEW u \in Threads PROVE Sound(u)'
  <2>1. at'[u] # 0 => at'[u] = at[u]
    BY <1>1 DEF EmissionTypes
  <2>2. Sound(u) /\ kept'[u] \subseteq kept[u] /\ Origins(event[u])' = Origins(event[u])
    BY <1>1 DEF Emissions, Origins
  <2>3. at'[u] # 0 => Gone(u)' = Gone(u)
    BY <1>1, <2>1 DEF Gone, Skipped
  <2> QED
    BY <1>1, <2>1, <2>2, <2>3 DEF Sound
<1> QED
  BY <1>2, <1>3 DEF Emissions

\* The scenario is chosen once.
LEMMA ScenarioStays == [Next]_vars => scenario' = scenario
<1> SUFFICES ASSUME [Next]_vars PROVE scenario' = scenario
  OBVIOUS
<1>1. ASSUME NEW t \in Threads, BeginOp(t) PROVE scenario' = scenario
  BY <1>1 DEF BeginOp, BeginCall, BeginCheck, BeginClose, CloseAgain, BeginSubscribe,
              BeginUnsubscribe, Begin
<1>2. ASSUME NEW t \in Threads, ThreadStep(t) PROVE scenario' = scenario
  BY <1>2 DEF ThreadStep, Enter, Schedule, TakeResult, StopLoop, Join, CloseLoop, FinishCheck
<1>3. ASSUME NEW t \in Threads, TaskStep(t) PROVE scenario' = scenario
  BY <1>3 DEF TaskStep, StartTask, HandlerReturns, CloseClient, CallCallback, FinishTask
<1> QED
  BY <1>1, <1>2, <1>3 DEF Next, LoopStops, vars

\* What a step does to the dispatcher.
Emission ==
    \/ UNCHANGED dispatcherVars
    \/ \E t \in Threads, e \in Events : BeginEmission(t, e)
    \/ \E t \in Threads :
          /\ \/ /\ at[t] # 0 /\ at[t] <= Len(snapshot[t]) /\ CallNext(t)
             \/ UNCHANGED <<event, snapshot, at, got, counted>>
          /\ \/ /\ "listener" \in Callbacks \ Subscribed
                /\ \E e \in Events \cup {"any"} : Subscribe("listener", e)
             \/ \E cb : Unsubscribe(cb)
             \/ UNCHANGED <<typed, global, kept>>
    \/ \E t \in Threads : LeaveEmission(t)

\* Threads and the loop reach the dispatcher by its operations only.
LEMMA OnlyEmissions == EmissionTypes /\ [Next]_vars => Emission
<1> SUFFICES ASSUME EmissionTypes, [Next]_vars PROVE Emission
  OBVIOUS
<1>1. "issued" \in Events /\ "warning" \in Events
  BY DEF Events
<1>2. ASSUME NEW t \in Threads, BeginOp(t) PROVE Emission
  <2>1. CASE BeginCall(t) \/ BeginClose(t) \/ CloseAgain(t)
    BY <2>1 DEF BeginCall, BeginClose, CloseAgain, Emission
  <2>2. CASE BeginCheck(t)
    BY <1>1, <2>2 DEF BeginCheck, Emission
  <2>3. CASE BeginSubscribe(t)
    BY <2>3 DEF BeginSubscribe, Emission
  <2>4. CASE BeginUnsubscribe(t)
    <3>1. PICK cb \in Subscribed \ {"metrics"} : Unsubscribe(cb)
      BY <2>4 DEF BeginUnsubscribe
    <3>2. UNCHANGED <<event, snapshot, at, got, counted>>
      BY <2>4 DEF BeginUnsubscribe
    <3> QED
      BY <3>1, <3>2 DEF Emission
  <2> QED
    BY <1>2, <2>1, <2>2, <2>3, <2>4 DEF BeginOp
<1>3. ASSUME NEW t \in Threads, ThreadStep(t) PROVE Emission
  <2>1. UNCHANGED dispatcherVars \/ LeaveEmission(t)
    BY <1>3 DEF ThreadStep, Enter, Schedule, TakeResult, StopLoop, Join, CloseLoop, FinishCheck,
             EndEmission
  <2> QED
    BY <2>1 DEF Emission
<1>4. ASSUME NEW t \in Threads, TaskStep(t) PROVE Emission
  <2>1. CASE CallCallback(t)
    <3>1. at[t] # 0 /\ at[t] <= Len(snapshot[t]) /\ CallNext(t)
      BY <2>1 DEF CallCallback, Emitting, Called
    <3>2. \/ Unsubscribe("once")
          \/ /\ snapshot[t][at[t]] = "adds" /\ "listener" \notin Subscribed
             /\ Subscribe("listener", "any")
          \/ UNCHANGED <<typed, global, kept>>
      BY <2>1 DEF CallCallback, Called
    <3>3. snapshot[t][at[t]] \in Callbacks
      <4>1. snapshot[t] \in Seq(Callbacks) /\ at[t] \in Nat
        BY DEF EmissionTypes
      <4>2. Len(snapshot[t]) \in Nat /\ \A i \in 1..Len(snapshot[t]) : snapshot[t][i] \in Callbacks
        BY <4>1, Elements
      <4>3. at[t] \in 1..Len(snapshot[t])
        BY <3>1, <4>1, <4>2
      <4> QED
        BY <4>2, <4>3
    <3>4. snapshot[t][at[t]] = "adds" => "listener" \in Callbacks
      BY <3>3, SyncAssumption
    <3> QED
      BY <3>1, <3>2, <3>4 DEF Emission
  <2>2. CASE StartTask(t) \/ HandlerReturns(t)
    <3>1. BeginEmission(t, "issued") \/ UNCHANGED dispatcherVars
      BY <2>2 DEF StartTask, HandlerReturns, Proceeds
    <3> QED
      BY <1>1, <3>1 DEF Emission
  <2>3. CASE CloseClient(t) \/ FinishTask(t)
    BY <2>3 DEF CloseClient, FinishTask, Emission, EndEmission, AbandonEmission
  <2> QED
    BY <1>4, <2>1, <2>2, <2>3 DEF TaskStep
<1>5. CASE LoopStops \/ UNCHANGED vars
  BY <1>5 DEF LoopStops, vars, Emission
<1> QED
  BY <1>2, <1>3, <1>4, <1>5 DEF Next

\* Every operation keeps the lists and the emissions sound.
LEMMA EmissionStep ==
    Lists /\ EmissionTypes /\ Emissions /\ [Next]_vars
        => Lists' /\ EmissionTypes' /\ Emissions'
<1> SUFFICES ASSUME Lists, EmissionTypes, Emissions, [Next]_vars
             PROVE  Lists' /\ EmissionTypes' /\ Emissions'
  OBVIOUS
<1>1. scenario' = scenario /\ Emission
  BY ScenarioStays, OnlyEmissions
<1>2. ASSUME typed' = typed, global' = global PROVE Lists'
  BY <1>1, <1>2 DEF Lists, Origins
<1>3. ASSUME UNCHANGED kept \/ \E cb : kept' = [t \in Threads |-> kept[t] \ {cb}]
      PROVE  kept' \in [Threads -> SUBSET Callbacks] /\ \A u \in Threads : kept'[u] \subseteq kept[u]
  BY <1>3 DEF EmissionTypes
<1>4. CASE UNCHANGED dispatcherVars
  <2>1. UNCHANGED <<typed, global, kept, event, snapshot, at, got, counted>>
    BY <1>4 DEF dispatcherVars, emissionVars
  <2>2. Main \in Threads
    BY SyncAssumption
  <2> QED
    BY <1>1, <1>2, <1>3, <2>1, <2>2, EndEmissionFacts
<1>5. ASSUME NEW t \in Threads, NEW e \in Events, BeginEmission(t, e)
      PROVE  Lists' /\ EmissionTypes' /\ Emissions'
  <2>1. typed' = typed /\ global' = global
    BY <1>5 DEF BeginEmission
  <2> QED
    BY <1>1, <1>2, <1>5, <2>1, BeginEmissionFacts
<1>6. ASSUME NEW t \in Threads,
             \/ at[t] # 0 /\ at[t] <= Len(snapshot[t]) /\ CallNext(t)
             \/ UNCHANGED <<event, snapshot, at, got, counted>>,
             \/ /\ "listener" \in Callbacks \ Subscribed
                /\ \E e \in Events \cup {"any"} : Subscribe("listener", e)
             \/ \E cb : Unsubscribe(cb)
             \/ UNCHANGED <<typed, global, kept>>
      PROVE  Lists' /\ EmissionTypes' /\ Emissions'
  <2>1. Lists'
    BY <1>1, <1>2, <1>6, SubscribeLists, UnsubscribeLists
  <2>2. kept' = kept \/ \E cb : kept' = [u \in Threads |-> kept[u] \ {cb}]
    BY <1>6 DEF Subscribe, Unsubscribe
  <2>3. kept' \in [Threads -> SUBSET Callbacks] /\ \A u \in Threads : kept'[u] \subseteq kept[u]
    BY <1>3, <2>2
  <2> QED
    BY <1>1, <1>6, <2>1, <2>3, CallNextFacts, EndEmissionFacts
<1>7. ASSUME NEW t \in Threads, LeaveEmission(t) PROVE Lists' /\ EmissionTypes' /\ Emissions'
  <2>1. UNCHANGED <<typed, global, kept>>
    BY <1>7 DEF LeaveEmission
  <2> QED
    BY <1>1, <1>2, <1>3, <1>7, <2>1, EndEmissionFacts
<1> QED
  BY <1>1, <1>4, <1>5, <1>6, <1>7 DEF Emission

\* When an emission is over every callback that stayed subscribed throughout
\* was called exactly once, and none was called twice, whatever callbacks and
\* other threads subscribed, unsubscribed or emitted meanwhile.
THEOREM EveryEventDelivered == Spec => []EventsDelivered
<1>1. Lists /\ EmissionTypes /\ Emissions => EventsDelivered
  <2> SUFFICES ASSUME EmissionTypes, Emissions, NEW t \in Threads PROVE DeliveredBy(t)
    BY DEF EventsDelivered
  <2>1. Sound(t) /\ snapshot[t] \in Seq(Callbacks) /\ at[t] \in Nat
    BY DEF Emissions, EmissionTypes
  <2>2. Len(snapshot[t]) \in Nat
        /\ ToSet(snapshot[t]) = {snapshot[t][i] : i \in 1..Len(snapshot[t])}
    BY <2>1, Elements
  <2>3. ASSUME Over(t), NEW cb \in kept[t], ~Skipped(t, cb) PROVE cb \in ToSet(got[t])
    <3>1. at[t] # 0 /\ at[t] > Len(snapshot[t])
      BY <2>3 DEF Over, Emitting, Called
    <3>2. PICK i \in 1..Len(snapshot[t]) : snapshot[t][i] = cb
      BY <2>1, <2>2, <2>3, <3>1 DEF Sound
    <3>3. i \in 1..(at[t] - 1)
      BY <2>1, <2>2, <3>1
    <3>4. i \in Gone(t)
      BY <2>3, <3>2, <3>3 DEF Gone
    <3> QED
      BY <2>1, <3>1, <3>2, <3>4 DEF Sound
  <2> QED
    BY <2>1, <2>3 DEF DeliveredBy, Sound
<1> QED
  BY <1>1, ListsInit, EmissionsInit, EmissionStep, PTL DEF Spec

-----------------------------------------------------------------------------
(* Threads *)

\* What calls the client back is called on the loop, for an issued
\* certificate.
LEMMA CalledBack ==
    ASSUME RunnerTypes, EmissionTypes, Emissions, NEW t \in Threads, CallCallback(t),
           Called(t)[at[t]] \in {"calls", "closes"}
    PROVE  event[t] = "issued" /\ CallsBackOnLoop
<1> DEFINE cb == snapshot[t][at[t]]
<1>1. at[t] # 0 /\ at[t] <= Len(snapshot[t]) /\ cb \in {"calls", "closes"}
  BY DEF CallCallback, Emitting, Called
<1>2. snapshot[t] \in Seq(Callbacks) /\ at[t] \in Nat /\ event[t] \in {"issued", "warning"}
      /\ ToSet(snapshot[t]) \subseteq Origins(event[t])
  BY <1>1 DEF EmissionTypes, Events, Emissions, Sound
<1>3. cb \in ToSet(snapshot[t])
  <2>1. Len(snapshot[t]) \in Nat
        /\ ToSet(snapshot[t]) = {snapshot[t][i] : i \in 1..Len(snapshot[t])}
    BY <1>2, Elements
  <2>2. at[t] \in 1..Len(snapshot[t])
    BY <1>1, <1>2, <2>1
  <2> QED
    BY <2>1, <2>2
<1>4. cb \in ToSet(scenario.typed[event[t]]) \cup ToSet(scenario.global)
  BY <1>1, <1>2, <1>3 DEF Origins
<1> HIDE DEF cb
<1>5. event[t] # "warning"
  <2>1. scenario.typed["warning"] \in Seq(Callbacks) /\ scenario.global \in Seq(Callbacks)
    BY ScenarioFacts DEF Events
  <2>2. ToSet(scenario.typed["warning"] \o scenario.global)
           = ToSet(scenario.typed["warning"]) \cup ToSet(scenario.global)
    BY <2>1, JoinedFacts
  <2> QED
    BY <1>1, <1>4, <2>2, ScenarioFacts
<1> QED
  BY <1>1, <1>2, <1>4, <1>5 DEF CallsBackOnLoop

\* Where thread u is, does not change.
Untouched(u) ==
    /\ pc'[u] = pc[u] /\ op'[u] = op[u] /\ result'[u] = result[u] /\ task'[u] = task[u]
    /\ left'[u] = left[u]
    /\ at'[u] = at[u] /\ event'[u] = event[u] /\ snapshot'[u] = snapshot[u]

\* A step of one thread, or of its task, leaves the others where they are.
LEMMA OthersStay ==
    ASSUME RunnerTypes, EmissionTypes, NEW t \in Threads,
           BeginOp(t) \/ ThreadStep(t) \/ TaskStep(t)
    PROVE  \A u \in Threads \ {t} : Untouched(u)
<1> USE DEF Goto, Ends, SetTask, runnerVars, threadVars
<1> DEFINE Here == \A u \in Threads \ {t} :
                      /\ pc'[u] = pc[u] /\ op'[u] = op[u] /\ result'[u] = result[u]
                      /\ task'[u] = task[u] /\ left'[u] = left[u]
           There == \A u \in Threads \ {t} :
                      at'[u] = at[u] /\ event'[u] = event[u] /\ snapshot'[u] = snapshot[u]
<1>1. UNCHANGED dispatcherVars \/ UNCHANGED <<at, event, snapshot>> => There
  BY DEF dispatcherVars, emissionVars
<1>2. ASSUME NEW e, BeginEmission(t, e) PROVE There
  BY <1>2 DEF BeginEmission, EmissionTypes
<1>3. CallNext(t) \/ LeaveEmission(t) => There
  BY DEF CallNext, LeaveEmission, EmissionTypes
<1>4. CASE BeginOp(t)
  <2>1. \E o, label, how : Begin(t, o, label, how)
    BY <1>4 DEF BeginOp, BeginCall, BeginCheck, BeginClose, CloseAgain, BeginSubscribe,
                BeginUnsubscribe
  <2>2. Here
    <3>1. PICK o, label, how : Begin(t, o, label, how)
      BY <2>1
    <3> QED
      BY <3>1 DEF Begin, RunnerTypes
  <2>3. There
    BY <1>1, <1>2, <1>4
    DEF BeginOp, BeginCall, BeginCheck, BeginClose, CloseAgain, BeginSubscribe, BeginUnsubscribe
  <2> QED
    BY <2>2, <2>3 DEF Untouched
<1>5. CASE ThreadStep(t)
  <2>1. There
    BY <1>1, <1>3, <1>5
    DEF ThreadStep, Enter, Schedule, TakeResult, StopLoop, Join, CloseLoop, FinishCheck,
         EndEmission
  <2>2. Here
    BY <1>5
    DEF ThreadStep, Enter, Schedule, TakeResult, StopLoop, Join, CloseLoop, FinishCheck, Raises,
        RunnerTypes
  <2> QED
    BY <2>1, <2>2 DEF Untouched
<1>6. CASE TaskStep(t)
  <2>1. There
    BY <1>1, <1>2, <1>3, <1>6
    DEF TaskStep, StartTask, HandlerReturns, CloseClient, CallCallback, FinishTask, Proceeds,
         EndEmission, AbandonEmission
  <2>2. UNCHANGED <<pc, op, result, left>>
    BY <1>6 DEF TaskStep, StartTask, HandlerReturns, CloseClient, CallCallback, FinishTask
  <2>3. task' = task \/ \E how : task' = [task EXCEPT ![t] = how]
    BY <1>6 DEF TaskStep, StartTask, HandlerReturns, CloseClient, CallCallback, CallsBack,
                FinishTask, Proceeds
  <2> QED
    BY <2>1, <2>2, <2>3 DEF Untouched, RunnerTypes
<1> QED
  BY <1>4, <1>5, <1>6

\* At first nobody does anything.
LEMMA PhasesInit == Init => Phases /\ RunnerIsMains
  BY DEF Init, InitDispatcher, Phases, Phase, RunnerIsMains, Closing, InTask, Emits

\* Every step keeps threads, tasks and emissions together.
LEMMA PhasesStep ==
    RunnerTypes /\ EmissionTypes /\ Emissions /\ Phases /\ [Next]_vars => Phases'
<1> SUFFICES ASSUME RunnerTypes, EmissionTypes, Emissions, Phases, [Next]_vars PROVE Phases'
  OBVIOUS
<1>1. SUFFICES ASSUME NEW t \in Threads, BeginOp(t) \/ ThreadStep(t) \/ TaskStep(t)
               PROVE  Phase(t)'
  <2>1. ASSUME NEW t \in Threads, BeginOp(t) \/ ThreadStep(t) \/ TaskStep(t), Phase(t)'
        PROVE  Phases'
    <3>1. ASSUME NEW u \in Threads, u # t PROVE Phase(u)'
      <4>1. Untouched(u) /\ Phase(u)
        BY <2>1, <3>1, OthersStay DEF Phases
      <4> QED
        BY <4>1 DEF Untouched, Phase, InTask, Emits
    <3> QED
      BY <2>1, <3>1 DEF Phases
  <2>2. ASSUME UNCHANGED <<pc, op, task, at, event>> PROVE Phases'
    BY <2>2 DEF Phases, Phase, InTask, Emits
  <2>3. LoopStops \/ UNCHANGED vars => UNCHANGED <<pc, op, task, at, event>>
    BY DEF LoopStops, vars, threadVars, dispatcherVars, emissionVars
  <2> QED
    BY <2>1, <2>2, <2>3 DEF Next
<1> USE DEF Phase, Closing, InTask, Emits, Goto, Ends, SetTask
<1>2. /\ pc \in [Threads -> {"idle", "enter", "schedule", "wait", "emit", "stop", "join",
                             "close loop"}]
      /\ op \in [Threads -> {"none", "call", "check", "close"}]
      /\ task \in [Threads -> {"none", "queued", "handler", "emitting", "cancelled", "returned",
                               "raised"}]
      /\ at \in [Threads -> Nat] /\ event \in [Threads -> Events]
      /\ Phase(t)
  BY DEF RunnerTypes, EmissionTypes, Phases
<1>3. ASSUME UNCHANGED dispatcherVars \/ UNCHANGED <<at, event>>
      PROVE  at'[t] = at[t] /\ event'[t] = event[t]
  BY <1>3 DEF dispatcherVars, emissionVars
<1>4. ASSUME NEW e, BeginEmission(t, e) PROVE at'[t] = 1 /\ event'[t] = e
  BY <1>2, <1>4 DEF BeginEmission
<1>5. ASSUME LeaveEmission(t) PROVE at'[t] = 0 /\ event'[t] = event[t]
  BY <1>2, <1>5 DEF LeaveEmission
<1>6. CASE BeginOp(t)
  <2>1. ASSUME NEW o, NEW label, NEW how, Begin(t, o, label, how)
        PROVE  pc[t] = "idle" /\ pc'[t] = label /\ op'[t] = o /\ task'[t] = "none"
    BY <1>2, <2>1 DEF Begin
  <2>2. CASE BeginCall(t)
    <3>1. pc[t] = "idle" /\ pc'[t] = "enter" /\ op'[t] = "call" /\ task'[t] = "none"
      BY <2>1, <2>2 DEF BeginCall
    <3>2. at'[t] = at[t] /\ event'[t] = event[t]
      BY <1>3, <2>2 DEF BeginCall
    <3> QED
      BY <1>2, <3>1, <3>2
  <2>3. CASE BeginCheck(t)
    <3>1. pc[t] = "idle" /\ pc'[t] = "emit" /\ op'[t] = "check" /\ task'[t] = "none"
      BY <2>1, <2>3 DEF BeginCheck
    <3>2. at'[t] = 1 /\ event'[t] = "warning"
      BY <1>4, <2>3 DEF BeginCheck
    <3> QED
      BY <3>1, <3>2
  <2>4. CASE BeginClose(t)
    <3>1. pc[t] = "idle" /\ pc'[t] = "enter" /\ op'[t] = "close" /\ task'[t] = "none"
      BY <2>1, <2>4 DEF BeginClose
    <3>2. at'[t] = at[t] /\ event'[t] = event[t]
      BY <1>3, <2>4 DEF BeginClose
    <3> QED
      BY <1>2, <3>1, <3>2
  <2>5. CASE CloseAgain(t)
    BY <1>2, <1>3, <2>1, <2>5 DEF CloseAgain
  <2>6. CASE BeginSubscribe(t) \/ BeginUnsubscribe(t)
    <3>1. pc[t] = "idle" /\ pc'[t] = "idle" /\ op'[t] = "none" /\ task'[t] = "none"
      BY <2>1, <2>6 DEF BeginSubscribe, BeginUnsubscribe
    <3>2. at'[t] = at[t] /\ event'[t] = event[t]
      BY <1>3, <2>6 DEF BeginSubscribe, BeginUnsubscribe
    <3> QED
      BY <1>2, <3>1, <3>2
  <2> QED
    BY <1>6, <2>2, <2>3, <2>4, <2>5, <2>6 DEF BeginOp
<1>7. CASE Enter(t)
  <2>1. pc[t] = "enter" /\ op'[t] = op[t] /\ task'[t] = task[t]
        /\ at'[t] = at[t] /\ event'[t] = event[t]
    BY <1>3, <1>7 DEF Enter
  <2>2. pc'[t] \in {"schedule", "idle"} \/ (op[t] = "close" /\ pc'[t] = "stop")
    BY <1>2, <1>7 DEF Enter, Raises
  <2> QED
    BY <1>2, <2>1, <2>2
<1>8. CASE Schedule(t)
  <2>1. pc[t] = "schedule" /\ op'[t] = op[t] /\ at'[t] = at[t] /\ event'[t] = event[t]
    BY <1>3, <1>8 DEF Schedule
  <2>2. \/ pc'[t] = "wait" /\ task'[t] = "queued"
        \/ task'[t] = task[t] /\ pc'[t] = "idle"
        \/ task'[t] = task[t] /\ op[t] = "close" /\ pc'[t] = "stop"
    BY <1>2, <1>8 DEF Schedule, Raises
  <2> QED
    BY <1>2, <2>1, <2>2
<1>9. CASE TakeResult(t)
  <2>1. /\ task[t] \in {"returned", "raised"} /\ op'[t] = op[t] /\ task'[t] = task[t]
        /\ at'[t] = at[t] /\ event'[t] = event[t]
    BY <1>3, <1>9 DEF TakeResult
  <2>2. pc[t] = "wait" /\ pc'[t] = IF op[t] = "close" THEN "stop" ELSE "idle"
    BY <1>2, <1>9 DEF TakeResult
  <2> QED
    BY <1>2, <2>1, <2>2
<1>10. CASE StopLoop(t) \/ Join(t) \/ CloseLoop(t)
  <2>1. /\ pc[t] \in {"stop", "join", "close loop"} /\ op'[t] = op[t] /\ task'[t] = task[t]
        /\ at'[t] = at[t] /\ event'[t] = event[t]
    BY <1>3, <1>10 DEF StopLoop, Join, CloseLoop
  <2>2. pc'[t] \in {"join", "close loop", "idle"}
    BY <1>2, <1>10 DEF StopLoop, Join, CloseLoop
  <2> QED
    BY <1>2, <2>1, <2>2
<1>11. CASE FinishCheck(t)
  <2>1. pc[t] = "emit" /\ pc'[t] = "idle" /\ op' = op /\ task' = task
    BY <1>2, <1>11 DEF FinishCheck
  <2>2. LeaveEmission(t)
    BY <1>11 DEF FinishCheck, EndEmission
  <2> QED
    BY <1>2, <1>5, <2>1, <2>2
<1>12. ASSUME task[t] \in {"queued", "handler"}, op[t] = "call", Proceeds(t), UNCHANGED <<pc, op>>
       PROVE  Phase(t)'
  <2>1. CASE task' = [task EXCEPT ![t] = "emitting"] /\ BeginEmission(t, "issued")
    <3>1. task'[t] = "emitting" /\ at'[t] = 1 /\ event'[t] = "issued"
      BY <1>2, <1>4, <2>1
    <3>2. pc'[t] = "wait" /\ op'[t] = "call"
      BY <1>2, <1>12
    <3> QED
      BY <3>1, <3>2
  <2>2. CASE task' = [task EXCEPT ![t] = "raised"] /\ UNCHANGED dispatcherVars
    BY <1>2, <1>3, <1>12, <2>2
  <2> QED
    BY <1>12, <2>1, <2>2 DEF Proceeds
<1>13. CASE StartTask(t)
  <2>1. task[t] = "queued" /\ op[t] = "call" /\ UNCHANGED <<pc, op>>
    BY <1>13 DEF StartTask
  <2>2. Proceeds(t) \/ (task' = [task EXCEPT ![t] = "handler"] /\ UNCHANGED dispatcherVars)
    BY <1>13 DEF StartTask
  <2>3. CASE task' = [task EXCEPT ![t] = "handler"] /\ UNCHANGED dispatcherVars
    BY <1>2, <1>3, <2>1, <2>3
  <2> QED
    BY <1>12, <2>1, <2>2, <2>3
<1>14. CASE HandlerReturns(t)
  <2>1. task[t] = "handler" /\ Proceeds(t) /\ UNCHANGED <<pc, op>>
    BY <1>14 DEF HandlerReturns
  <2> QED
    BY <1>2, <1>12, <2>1
<1>15. CASE CloseClient(t)
  <2>1. /\ task[t] = "queued" /\ UNCHANGED <<pc, op>>
        /\ at'[t] = at[t] /\ event'[t] = event[t]
    BY <1>3, <1>15 DEF CloseClient
  <2>2. task'[t] \in {"returned", "raised"}
    BY <1>2, <1>15 DEF CloseClient
  <2> QED
    BY <1>2, <2>1, <2>2
<1>16. CASE CallCallback(t)
  <2>1. at[t] # 0 /\ at' = [at EXCEPT ![t] = at[t] + 1] /\ UNCHANGED <<pc, op, event>>
    BY <1>16 DEF CallCallback, CallNext, Emitting
  <2>2. at'[t] = at[t] + 1 /\ at[t] + 1 # 0
    <3>1. at[t] \in Nat
      BY <1>2
    <3>2. at[t] + 1 # 0
      BY <3>1
    <3>3. at'[t] = at[t] + 1
      BY <1>2, <2>1 DEF EmissionTypes
    <3> QED
      BY <3>2, <3>3
  <2>3. task' = task \/ (task' = [task EXCEPT ![t] = "cancelled"] /\ event[t] = "issued")
    BY <1>16, CalledBack DEF CallCallback, CallsBack
  <2>4. task'[t] = task[t] \/ (task'[t] = "cancelled" /\ event[t] = "issued")
    BY <1>2, <2>3
  <2> QED
    BY <1>2, <2>1, <2>2, <2>4
<1>17. CASE FinishTask(t)
  <2>1. task[t] \in {"emitting", "cancelled"} /\ UNCHANGED <<op, pc>> /\ LeaveEmission(t)
    BY <1>17 DEF FinishTask, EndEmission, AbandonEmission
  <2>2. task'[t] \in {"returned", "raised"}
    BY <1>2, <1>17 DEF FinishTask
  <2> QED
    BY <1>2, <1>5, <2>1, <2>2
<1> QED
  BY <1>1, <1>6, <1>7, <1>8, <1>9, <1>10, <1>11, <1>13, <1>14, <1>15, <1>16, <1>17
  DEF ThreadStep, TaskStep

\* Only the beginning of an operation moves an idle thread, or changes what a
\* thread does.
LEMMA OnlyBegin ==
    ASSUME RunnerTypes, EmissionTypes, Phases, NEW t \in Threads,
           BeginOp(t) \/ ThreadStep(t) \/ TaskStep(t)
    PROVE  \/ \E o, label, how : Begin(t, o, label, how)
           \/ op' = op /\ pc[t] # "idle"
<1>1. CASE BeginOp(t)
  BY <1>1 DEF BeginOp, BeginCall, BeginCheck, BeginClose, CloseAgain, BeginSubscribe,
              BeginUnsubscribe
<1>2. CASE ThreadStep(t)
  BY <1>2 DEF ThreadStep, Enter, Schedule, TakeResult, StopLoop, Join, CloseLoop, FinishCheck
<1>3. CASE TaskStep(t)
  <2>1. op' = op
    BY <1>3 DEF TaskStep, StartTask, HandlerReturns, CloseClient, CallCallback, FinishTask
  <2>2. InTask(t) \/ at[t] # 0
    BY <1>3 DEF TaskStep, StartTask, HandlerReturns, CloseClient, CallCallback, FinishTask,
                Emitting, InTask, Emits
  <2>3. pc[t] # "idle"
    BY <2>2 DEF Phases, Phase, InTask, Emits
  <2> QED
    BY <2>1, <2>3
<1> QED
  BY <1>1, <1>2, <1>3

\* asyncio.Runner stays with its thread.
LEMMA RunnerIsMainsStep ==
    RunnerTypes /\ EmissionTypes /\ Phases /\ RunnerIsMains /\ [Next]_vars => RunnerIsMains'
<1> SUFFICES ASSUME RunnerTypes, EmissionTypes, Phases, RunnerIsMains, [Next]_vars
             PROVE  RunnerIsMains'
  OBVIOUS
<1>1. ThreadMode' <=> ThreadMode
  BY ScenarioStays DEF ThreadMode
<1>2. ASSUME ~ThreadMode, NEW t \in Threads, BeginOp(t) \/ ThreadStep(t) \/ TaskStep(t)
      PROVE  \A u \in Threads \ {Main} : pc'[u] = "idle"
  <2>1. t = Main
    BY <1>2, OnlyBegin DEF RunnerIsMains, Begin
  <2> QED
    BY <1>2, <2>1, OthersStay DEF RunnerIsMains, Untouched
<1>3. LoopStops \/ UNCHANGED vars => pc' = pc
  BY DEF LoopStops, vars, threadVars
<1> QED
  BY <1>1, <1>2, <1>3 DEF Next, RunnerIsMains

\* A disciplined close() stays alone.
LEMMA CloserStep ==
    RunnerTypes /\ EmissionTypes /\ Phases /\ CloserIsAlone /\ [Next]_vars => CloserIsAlone'
<1> SUFFICES ASSUME RunnerTypes, EmissionTypes, Phases, CloserIsAlone, [Next]_vars,
                    scenario.disciplined
             PROVE  \A x \in Threads : pc'[x] # "idle" /\ op'[x] = "close" =>
                        \A u \in Threads \ {x} : pc'[u] = "idle"
  BY ScenarioStays DEF CloserIsAlone
<1>1. \A x \in Threads : pc[x] # "idle" /\ op[x] = "close" =>
          \A u \in Threads \ {x} : pc[u] = "idle"
  BY DEF CloserIsAlone
<1>2. ASSUME NEW t \in Threads, NEW o, NEW label, NEW how, Begin(t, o, label, how),
             \A u \in Threads \ {t} : Untouched(u)
      PROVE  \A x \in Threads : pc'[x] # "idle" /\ op'[x] = "close" =>
                 \A u \in Threads \ {x} : pc'[u] = "idle"
  <2>1. op'[t] = o /\ \A u \in Threads : pc[u] # "idle" => o # "close" /\ op[u] # "close"
    BY <1>2 DEF Begin, RunnerTypes
  <2> QED
    BY <1>2, <2>1 DEF Untouched
<1>3. ASSUME NEW t \in Threads, op' = op, pc[t] # "idle", \A u \in Threads \ {t} : Untouched(u)
      PROVE  \A x \in Threads : pc'[x] # "idle" /\ op'[x] = "close" =>
                 \A u \in Threads \ {x} : pc'[u] = "idle"
  BY <1>1, <1>3 DEF Untouched
<1>4. LoopStops \/ UNCHANGED vars => pc' = pc /\ op' = op
  BY DEF LoopStops, vars, threadVars
<1> QED
  BY <1>1, <1>2, <1>3, <1>4, OnlyBegin, OthersStay DEF Next

\* No other thread closes the runner that a close() has found open.
LEMMA EnteredStep ==
    RunnerTypes /\ EmissionTypes /\ Phases /\ RunnerIsMains /\ EnteredOpen /\ [Next]_vars
        => EnteredOpen'
<1> SUFFICES ASSUME RunnerTypes, EmissionTypes, Phases, RunnerIsMains, EnteredOpen, [Next]_vars,
                    ~ThreadMode, NEW u \in Threads, op'[u] = "close", pc'[u] = "enter"
             PROVE  isOpen'
  BY ScenarioStays DEF EnteredOpen, ThreadMode
<1>1. ASSUME NEW t \in Threads, BeginOp(t) PROVE isOpen'
  <2>1. isOpen' = isOpen
    BY <1>1 DEF BeginOp, BeginCall, BeginCheck, BeginClose, CloseAgain, BeginSubscribe,
                BeginUnsubscribe
  <2>2. CASE u = t
    <3>1. \A o, label, how : Begin(t, o, label, how) => pc'[t] = label /\ op'[t] = o
      BY DEF Begin, Goto, RunnerTypes
    <3>2. isOpen
      BY <1>1, <2>2, <3>1 DEF BeginOp, BeginCall, BeginCheck, BeginClose, CloseAgain,
                              BeginSubscribe, BeginUnsubscribe
    <3> QED
      BY <2>1, <3>2
  <2>3. CASE u # t
    BY <1>1, <2>1, <2>3, OthersStay DEF Untouched, EnteredOpen
  <2> QED
    BY <2>2, <2>3
<1>2. ASSUME NEW t \in Threads, ThreadStep(t) \/ TaskStep(t) PROVE FALSE
  <2>1. pc[t] # "idle" /\ pc'[t] # "enter"
    <3>1. CASE ThreadStep(t)
      BY <3>1 DEF ThreadStep, Enter, Schedule, TakeResult, StopLoop, Join, CloseLoop, FinishCheck,
                  Raises, Goto, Ends, RunnerTypes
    <3>2. CASE TaskStep(t)
      <4>1. pc' = pc
        BY <3>2 DEF TaskStep, StartTask, HandlerReturns, CloseClient, CallCallback, FinishTask
      <4>2. InTask(t) \/ at[t] # 0
        BY <3>2 DEF TaskStep, StartTask, HandlerReturns, CloseClient, CallCallback, FinishTask,
                    Emitting, InTask, Emits
      <4> QED
        BY <4>1, <4>2 DEF Phases, Phase, InTask, Emits
    <3> QED
      BY <1>2, <3>1, <3>2
  <2>2. t = Main /\ u # t
    BY <2>1 DEF RunnerIsMains
  <2>3. pc'[u] = "idle"
    BY <1>2, <2>2, OthersStay DEF Untouched, RunnerIsMains
  <2> QED
    BY <2>3
<1>3. ASSUME LoopStops \/ UNCHANGED vars PROVE isOpen'
  BY <1>3 DEF LoopStops, vars, runnerVars, threadVars, EnteredOpen
<1> QED
  BY <1>1, <1>2, <1>3 DEF Next

\* Nothing of the runner is taken down before the HTTP client is closed.
LEMMA HttpFirstStep ==
    /\ RunnerTypes /\ EmissionTypes /\ Emissions /\ Phases /\ EnteredOpen /\ HttpFirst
    /\ [Next]_vars
    => HttpFirst'
<1> SUFFICES ASSUME RunnerTypes, EmissionTypes, Emissions, Phases, EnteredOpen, HttpFirst,
                    [Next]_vars, http' # "closed"
             PROVE  HttpFirst'
  BY DEF HttpFirst
<1> USE DEF Goto, Ends, SetTask, runnerVars
<1>1. UNCHANGED <<scenario, http>>
  <2>1. http' \in {http, "closed"}
    <3>1. ASSUME NEW t \in Threads, BeginOp(t) PROVE http' = http
      BY <3>1 DEF BeginOp, BeginCall, BeginCheck, BeginClose, CloseAgain, BeginSubscribe,
                  BeginUnsubscribe, Begin
    <3>2. ASSUME NEW t \in Threads, ThreadStep(t) PROVE http' = http
      BY <3>2 DEF ThreadStep, Enter, Schedule, TakeResult, StopLoop, Join, CloseLoop, FinishCheck
    <3>3. ASSUME NEW t \in Threads, TaskStep(t) PROVE http' \in {http, "closed"}
      BY <3>3 DEF TaskStep, StartTask, HandlerReturns, CloseClient, CallCallback, FinishTask
    <3> QED
      BY <3>1, <3>2, <3>3 DEF Next, LoopStops, vars
  <2> QED
    BY <2>1, ScenarioStays
<1>2. /\ \A t \in Threads : pc[t] \notin Closing
      /\ refs = AllRefs /\ ~stopping /\ loop \notin {"stopped", "closed"}
      /\ isOpen \/ (~ThreadMode /\ CallsBackOnLoop)
      /\ \A t \in Threads : op[t] = "close" =>
            /\ pc[t] = "wait" => task[t] \notin {"returned", "raised"}
            /\ pc[t] = "idle" /\ result[t] = "returned" => CallsBackOnLoop
  BY <1>1 DEF HttpFirst
<1>3. AllRefs' = AllRefs /\ (ThreadMode' <=> ThreadMode) /\ (CallsBackOnLoop' <=> CallsBackOnLoop)
  BY <1>1 DEF AllRefs, ThreadMode, CallsBackOnLoop
<1> DEFINE Calm(t) == /\ pc'[t] \notin Closing
                      /\ op'[t] = "close" =>
                            /\ pc'[t] = "wait" => task'[t] \notin {"returned", "raised"}
                            /\ pc'[t] = "idle" /\ result'[t] = "returned" => CallsBackOnLoop
           Same == /\ refs' = refs /\ stopping' = stopping /\ loop' \in {loop, "blocked"}
                   /\ isOpen' = isOpen \/ (~ThreadMode /\ CallsBackOnLoop)
<1>4. ASSUME Same, NEW t \in Threads, Calm(t), \A u \in Threads \ {t} : Untouched(u)
      PROVE  HttpFirst'
  BY <1>2, <1>3, <1>4 DEF HttpFirst, Untouched
<1>5. ASSUME NEW t \in Threads, BeginOp(t) PROVE Same /\ Calm(t)
  <2>1. ASSUME NEW o, NEW label, NEW how, Begin(t, o, label, how)
        PROVE  /\ pc'[t] = label /\ op'[t] = o /\ result'[t] = how
               /\ UNCHANGED <<refs, stopping, loop>>
    BY <2>1 DEF Begin, RunnerTypes
  <2>2. isOpen' = isOpen
    BY <1>5 DEF BeginOp, BeginCall, BeginCheck, BeginClose, CloseAgain, BeginSubscribe,
                BeginUnsubscribe
  <2>3. Same
    BY <1>2, <1>5, <2>1, <2>2 DEF BeginOp, BeginCall, BeginCheck, BeginClose, CloseAgain,
                                  BeginSubscribe, BeginUnsubscribe
  <2>4. \/ pc'[t] \in {"enter", "emit"}
        \/ pc'[t] = "idle" /\ (op'[t] # "close" \/ ~isOpen)
    <3>1. CASE BeginCall(t) \/ BeginClose(t)
      BY <2>1, <3>1 DEF BeginCall, BeginClose
    <3>2. CASE BeginCheck(t)
      BY <2>1, <3>2 DEF BeginCheck
    <3>3. CASE CloseAgain(t)
      BY <2>1, <3>3 DEF CloseAgain
    <3>4. CASE BeginSubscribe(t) \/ BeginUnsubscribe(t)
      BY <2>1, <3>4 DEF BeginSubscribe, BeginUnsubscribe
    <3> QED
      BY <1>5, <3>1, <3>2, <3>3, <3>4 DEF BeginOp
  <2>5. Calm(t)
    BY <1>2, <2>4 DEF Closing
  <2> QED
    BY <2>3, <2>5
<1>6. ASSUME NEW t \in Threads, ThreadStep(t) PROVE Same /\ Calm(t)
  <2>1. CASE Enter(t)
    <3>1. pc[t] = "enter" /\ Same /\ op' = op
      BY <2>1 DEF Enter
    <3>2. pc'[t] = "schedule" \/ (~isOpen /\ op[t] # "close" /\ pc'[t] = "idle")
      BY <1>2, <2>1 DEF Enter, Raises, EnteredOpen, RunnerTypes
    <3> QED
      BY <3>1, <3>2 DEF Closing
  <2>2. CASE Schedule(t)
    <3>1. Same /\ pc' = [pc EXCEPT ![t] = "wait"] /\ task' = [task EXCEPT ![t] = "queued"]
      BY <1>2, <2>2 DEF Schedule
    <3> QED
      BY <3>1 DEF Closing, RunnerTypes
  <2>3. CASE TakeResult(t)
    <3>1. Same /\ op' = op /\ op[t] # "close"
      BY <1>2, <2>3 DEF TakeResult
    <3>2. pc'[t] = "idle"
      BY <2>3, <3>1 DEF TakeResult, RunnerTypes
    <3> QED
      BY <3>1, <3>2 DEF Closing
  <2>4. CASE FinishCheck(t)
    <3>1. Same /\ op' = op /\ op[t] = "check"
      BY <2>4 DEF FinishCheck, Phases, Phase
    <3>2. pc'[t] = "idle"
      BY <2>4 DEF FinishCheck, RunnerTypes
    <3> QED
      BY <3>1, <3>2 DEF Closing
  <2> QED
    BY <1>2, <1>6, <2>1, <2>2, <2>3, <2>4 DEF ThreadStep, StopLoop, Join, CloseLoop, Closing
<1>7. ASSUME NEW t \in Threads, TaskStep(t) PROVE Same /\ Calm(t)
  <2>1. UNCHANGED <<pc, op, result, refs, stopping>>
    BY <1>7 DEF TaskStep, StartTask, HandlerReturns, CloseClient, CallCallback, FinishTask
  <2>2. op[t] # "close"
    <3>1. ~CloseClient(t)
      BY DEF CloseClient
    <3>2. op[t] = "call" \/ task[t] = "handler" \/ at[t] # 0
      BY <1>7, <3>1 DEF TaskStep, StartTask, HandlerReturns, CallCallback, FinishTask,
                  EndEmission, AbandonEmission, LeaveEmission,
                        Over, Emitting
    <3> QED
      BY <3>2 DEF Phases, Phase, InTask, Emits
  <2>3. Same
    <3>1. CASE CallCallback(t)
      BY <2>1, <3>1, CalledBack DEF CallCallback, CallsBack
    <3>2. CASE ~CallCallback(t)
      BY <1>7, <3>2 DEF TaskStep, StartTask, HandlerReturns, CloseClient, FinishTask
    <3> QED
      BY <3>1, <3>2
  <2> QED
    BY <1>2, <2>1, <2>2, <2>3
<1>8. CASE LoopStops
  BY <1>2, <1>8 DEF LoopStops
<1>9. CASE UNCHANGED vars
  BY <1>2, <1>3, <1>9 DEF vars, threadVars, HttpFirst
<1> QED
  BY <1>4, <1>5, <1>6, <1>7, <1>8, <1>9, OthersStay DEF Next

\* A disciplined close() takes down the runner step by step.
LEMMA OrderlyStep ==
    /\ RunnerTypes /\ EmissionTypes /\ Emissions /\ Phases /\ CloserIsAlone /\ Orderly
    /\ [Next]_vars
    => Orderly'
<1> DEFINE Taken == /\ isOpen => refs = AllRefs /\ loop = "running" /\ ~stopping
                    /\ ~isOpen => Shut \/ \E t \in Threads : pc[t] \in {"join", "close loop"}
           Close(t) == op[t] = "close" =>
              /\ pc[t] \in {"enter", "schedule", "wait", "stop"} => isOpen
              /\ pc[t] = "join" => /\ ThreadMode /\ ~isOpen /\ refs = AllRefs
                                   /\ loop \in {"running", "stopped"}
              /\ pc[t] = "close loop" => ~isOpen /\ refs = {"loop"} /\ loop = "stopped"
              /\ pc[t] = "idle" /\ result[t] = "returned" => Shut
<1> SUFFICES ASSUME RunnerTypes, EmissionTypes, Emissions, Phases, CloserIsAlone, Orderly,
                    [Next]_vars, scenario.disciplined, ~CallsBackOnLoop
             PROVE  Taken' /\ \A t \in Threads : Close(t)'
  BY ScenarioStays DEF Orderly, CallsBackOnLoop
<1> USE DEF Goto, Ends, SetTask, runnerVars
<1>1. Taken /\ \A t \in Threads : Close(t)
  BY DEF Orderly
<1>2. AllRefs' = AllRefs /\ (ThreadMode' <=> ThreadMode) /\ AllRefs # {}
  BY ScenarioStays DEF AllRefs, ThreadMode
<1> DEFINE Same == UNCHANGED <<isOpen, refs, loop, stopping>>
<1>3. ASSUME Same, NEW t \in Threads, \A u \in Threads \ {t} : Untouched(u),
             pc[t] \in {"join", "close loop"} => pc'[t] = pc[t], Close(t)'
      PROVE  Taken' /\ \A u \in Threads : Close(u)'
  <2>1. Shut' <=> Shut
    BY <1>3 DEF Shut
  <2>2. ASSUME NEW u \in Threads \ {t} PROVE Close(u)'
    BY <1>1, <1>2, <1>3, <2>1, <2>2 DEF Untouched
  <2>3. Taken'
    BY <1>1, <1>2, <1>3, <2>1 DEF Untouched
  <2> QED
    BY <1>3, <2>2, <2>3
<1>4. ASSUME NEW t \in Threads, BeginOp(t)
      PROVE  Taken' /\ \A u \in Threads : Close(u)'
  <2>1. ASSUME NEW o, NEW label, NEW how, Begin(t, o, label, how)
        PROVE  /\ pc'[t] = label /\ op'[t] = o /\ pc[t] = "idle"
               /\ UNCHANGED <<refs, stopping, loop>>
               /\ \A u \in Threads : pc[u] # "idle" => o # "close" /\ op[u] # "close"
    BY <2>1 DEF Begin, RunnerTypes
  <2>2. isOpen' = isOpen
    BY <1>4 DEF BeginOp, BeginCall, BeginCheck, BeginClose, CloseAgain, BeginSubscribe,
                BeginUnsubscribe
  <2>3. CASE BeginCall(t)
    <3>1. Same /\ pc[t] = "idle" /\ op'[t] # "close"
      BY <2>1, <2>2, <2>3 DEF BeginCall
    <3> QED
      BY <1>3, <1>4, <3>1, OthersStay
  <2>4. CASE BeginCheck(t)
    <3>1. Same /\ pc[t] = "idle" /\ op'[t] # "close"
      BY <2>1, <2>2, <2>4 DEF BeginCheck
    <3> QED
      BY <1>3, <1>4, <3>1, OthersStay
  <2>5. CASE BeginSubscribe(t) \/ BeginUnsubscribe(t)
    <3>1. Same /\ pc[t] = "idle" /\ op'[t] # "close"
      BY <2>1, <2>2, <2>5 DEF BeginSubscribe, BeginUnsubscribe
    <3> QED
      BY <1>3, <1>4, <3>1, OthersStay
  <2>6. CASE BeginClose(t)
    <3>1. Same /\ pc[t] = "idle" /\ pc'[t] = "enter" /\ isOpen'
      BY <2>1, <2>2, <2>6 DEF BeginClose
    <3> QED
      BY <1>3, <1>4, <3>1, OthersStay
  <2>7. CASE CloseAgain(t)
    <3>1. /\ Same /\ ~isOpen /\ pc[t] = "idle" /\ pc'[t] = "idle"
          /\ \A u \in Threads : pc[u] # "idle" => op[u] # "close"
      BY <2>1, <2>2, <2>7 DEF CloseAgain
    <3>2. \A u \in Threads : pc[u] \in {"join", "close loop"} => op[u] = "close"
      BY DEF Phases, Phase, Closing
    <3>3. Shut
      BY <1>1, <3>1, <3>2
    <3>4. Shut'
      BY <3>1, <3>3 DEF Shut
    <3> QED
      BY <1>3, <1>4, <3>1, <3>4, OthersStay
  <2> QED
    BY <1>4, <2>3, <2>4, <2>5, <2>6, <2>7 DEF BeginOp
<1>5. ASSUME NEW t \in Threads, ThreadStep(t)
      PROVE  Taken' /\ \A u \in Threads : Close(u)'
  <2>1. op' = op /\ \A u \in Threads \ {t} : Untouched(u)
    BY <1>5, OthersStay
    DEF ThreadStep, Enter, Schedule, TakeResult, StopLoop, Join, CloseLoop, FinishCheck
  \* A thread in close() is the only one inside the client.
  <2>2. ASSUME pc[t] \in Closing PROVE op[t] = "close" /\ \A u \in Threads \ {t} : pc'[u] = "idle"
    <3>1. op[t] = "close" /\ pc[t] # "idle"
      BY <2>2 DEF Phases, Phase, Closing
    <3>2. \A u \in Threads \ {t} : pc[u] = "idle"
      BY <3>1 DEF CloserIsAlone
    <3> QED
      BY <2>1, <3>1, <3>2 DEF Untouched
  <2>3. CASE Enter(t)
    <3>1. Same /\ pc[t] = "enter"
      BY <2>3 DEF Enter
    <3>2. pc'[t] = "schedule" \/ ~isOpen
      BY <2>3 DEF Enter, RunnerTypes
    <3> QED
      BY <1>1, <1>3, <2>1, <3>1, <3>2
  <2>4. CASE Schedule(t)
    <3>1. Same /\ pc[t] = "schedule" /\ (pc'[t] = "wait" \/ refs # AllRefs)
      BY <2>4 DEF Schedule, RunnerTypes
    <3> QED
      BY <1>1, <1>3, <2>1, <3>1
  <2>5. CASE TakeResult(t)
    <3>1. Same /\ pc[t] = "wait"
      BY <2>5 DEF TakeResult
    <3>2. pc'[t] = IF op[t] = "close" THEN "stop" ELSE "idle"
      BY <2>5 DEF TakeResult, RunnerTypes
    <3> QED
      BY <1>1, <1>3, <2>1, <3>1, <3>2
  <2>6. CASE FinishCheck(t)
    <3>1. Same /\ pc[t] = "emit" /\ op[t] = "check"
      BY <2>6 DEF FinishCheck, Phases, Phase
    <3> QED
      BY <1>3, <2>1, <3>1
  <2>7. CASE StopLoop(t)
    <3>1. pc[t] = "stop" /\ op[t] = "close" /\ isOpen' = FALSE
      BY <2>2, <2>7 DEF StopLoop, Closing
    <3>2. isOpen /\ refs = AllRefs /\ loop = "running"
      BY <1>1, <3>1
    <3>3. "loop" \in refs
      BY <3>2 DEF AllRefs
    <3>4. \A u \in Threads \ {t} : op[u] = "close" /\ pc[u] = "idle" => result[u] # "returned"
      BY <1>1, <3>2 DEF Shut
    <3>5. \A u \in Threads \ {t} : Close(u)'
      <4>1. ASSUME NEW u \in Threads \ {t}
            PROVE  pc'[u] = "idle" /\ ~(op'[u] = "close" /\ result'[u] = "returned")
        BY <2>1, <2>2, <3>1, <3>4 DEF Untouched, Closing
      <4> QED
        BY <4>1
    <3>6. CASE ThreadMode
      <4>1. pc'[t] = "join" /\ refs' = refs /\ loop' = loop
        BY <2>7, <3>3, <3>6 DEF StopLoop, RunnerTypes
      <4> QED
        BY <1>2, <3>1, <3>2, <3>5, <3>6, <4>1
    <3>7. CASE ~ThreadMode
      <4>1. pc'[t] = "idle" /\ refs' = {} /\ loop' = "closed"
        BY <2>7, <3>3, <3>7 DEF StopLoop, RunnerTypes
      <4> QED
        BY <1>2, <3>1, <3>5, <4>1 DEF Shut
    <3> QED
      BY <3>6, <3>7
  <2>8. CASE Join(t)
    <3>1. pc[t] = "join" /\ op[t] = "close" /\ isOpen' = isOpen /\ loop' = loop
      BY <2>2, <2>8 DEF Join, Closing
    <3>2. ThreadMode /\ ~isOpen /\ refs = {"thread", "loop"} /\ loop \in {"running", "stopped"}
      BY <1>1, <3>1 DEF AllRefs
    <3>3. pc'[t] = "close loop" /\ refs' = {"loop"} /\ loop = "stopped"
      BY <2>8, <3>2 DEF Join, RunnerTypes
    <3>4. \A u \in Threads \ {t} : op[u] = "close" /\ pc[u] = "idle" => result[u] # "returned"
      BY <1>1, <3>2 DEF Shut
    <3>5. \A u \in Threads \ {t} : Close(u)'
      <4>1. ASSUME NEW u \in Threads \ {t}
            PROVE  pc'[u] = "idle" /\ ~(op'[u] = "close" /\ result'[u] = "returned")
        BY <2>1, <2>2, <3>1, <3>4 DEF Untouched, Closing
      <4> QED
        BY <4>1
    <3> QED
      BY <3>1, <3>2, <3>3, <3>5
  <2>9. CASE CloseLoop(t)
    <3>1. pc[t] = "close loop" /\ op[t] = "close" /\ isOpen' = isOpen
      BY <2>2, <2>9 DEF CloseLoop, Closing
    <3>2. ~isOpen /\ refs = {"loop"} /\ loop = "stopped"
      BY <1>1, <3>1
    <3>3. pc'[t] = "idle" /\ refs' = {} /\ loop' = "closed"
      BY <2>9, <3>2 DEF CloseLoop, RunnerTypes
    <3> QED
      BY <2>2, <3>1, <3>2, <3>3 DEF Shut, Closing
  <2> QED
    BY <1>5, <2>3, <2>4, <2>5, <2>6, <2>7, <2>8, <2>9 DEF ThreadStep
<1>6. ASSUME UNCHANGED <<pc, op, result, isOpen, refs, loop, stopping>>
      PROVE  Taken' /\ \A u \in Threads : Close(u)'
  BY <1>1, <1>2, <1>6 DEF Shut
<1>7. ASSUME NEW t \in Threads, TaskStep(t)
      PROVE  UNCHANGED <<pc, op, result, isOpen, refs, loop, stopping>>
  <2>1. CASE CallCallback(t)
    <3>1. Called(t)[at[t]] \notin {"calls", "closes"}
      BY <2>1, CalledBack
    <3> QED
      BY <2>1, <3>1 DEF CallCallback
  <2>2. CASE ~CallCallback(t)
    BY <1>7, <2>2 DEF TaskStep, StartTask, HandlerReturns, CloseClient, FinishTask
  <2> QED
    BY <2>1, <2>2
<1>8. CASE LoopStops
  <2>1. /\ ThreadMode /\ stopping /\ loop = "running" /\ loop' = "stopped"
        /\ UNCHANGED <<isOpen, refs, stopping, pc, op, result>>
    BY <1>8 DEF LoopStops, threadVars
  <2>2. ~isOpen /\ ~Shut
    BY <1>1, <2>1 DEF Shut
  <2> QED
    BY <1>1, <1>2, <2>1, <2>2
<1>9. CASE UNCHANGED vars
  BY <1>6, <1>9 DEF vars, threadVars
<1> QED
  BY <1>4, <1>5, <1>6, <1>7, <1>8, <1>9 DEF Next

\* At first the client is open, and nobody closes it.
LEMMA CloseInit == Init => EnteredOpen /\ HttpFirst /\ CloserIsAlone /\ Orderly
  BY DEF Init, EnteredOpen, HttpFirst, CloserIsAlone, Orderly, Closing, AllRefs, ThreadMode

\* "which closes the HTTP client before shutting down its event loop"
\* (sync.py, SyncClient.close): the loop never stops before the HTTP client is
\* closed; a close() that returns leaves it closed unless a callback calls the
\* client on its own loop, and, when nothing overtakes it, without a loop or
\* a thread left behind.
THEOREM ClosesInOrder == Spec => []ClosedInOrder
<1>1. HttpFirst /\ Orderly => ClosedInOrder
  BY DEF HttpFirst, Orderly, ClosedInOrder, Shut
<1> QED
  BY <1>1, RunnerTypesInit, RunnerTypesStep, ListsInit, EmissionsInit, EmissionStep, PhasesInit,
     PhasesStep, RunnerIsMainsStep, CloseInit, EnteredStep, HttpFirstStep, CloserStep,
     OrderlyStep, PTL DEF Spec

\* A runner is closed when nobody waits for its loop, and not opened again.
LEMMA ServedStep ==
    /\ RunnerTypes /\ EmissionTypes /\ Emissions /\ Phases /\ CloserIsAlone /\ Served
    /\ [Next]_vars
    => Served'
<1> DEFINE Busy(t) == pc[t] \in {"schedule", "wait"}
<1> SUFFICES ASSUME RunnerTypes, EmissionTypes, Emissions, Phases, CloserIsAlone, Served,
                    [Next]_vars, scenario.disciplined, ~CallsBackOnLoop, NEW u \in Threads, Busy(u)'
             PROVE  isOpen'
  BY ScenarioStays DEF Served, CallsBackOnLoop
<1> USE DEF Goto, Ends, runnerVars
<1>1. \A t \in Threads : Busy(t) => isOpen
  BY DEF Served
<1>2. ASSUME NEW t \in Threads, BeginOp(t) PROVE isOpen'
  <2>1. isOpen' = isOpen
    BY <1>2 DEF BeginOp, BeginCall, BeginCheck, BeginClose, CloseAgain, BeginSubscribe,
                BeginUnsubscribe
  <2>2. \A o, label, how : Begin(t, o, label, how) => pc'[t] = label
    BY DEF Begin, RunnerTypes
  <2>3. u # t
    BY <1>2, <2>2 DEF BeginOp, BeginCall, BeginCheck, BeginClose, CloseAgain, BeginSubscribe,
                      BeginUnsubscribe
  <2> QED
    BY <1>1, <1>2, <2>1, <2>3, OthersStay DEF Untouched
<1>3. ASSUME NEW t \in Threads, ThreadStep(t) PROVE isOpen'
  <2>1. CASE StopLoop(t)
    <3>1. pc[t] = "stop" /\ pc'[t] \in {"idle", "join"}
      BY <2>1 DEF StopLoop, RunnerTypes
    <3>2. u # t
      BY <3>1
    <3>3. pc[u] = "idle"
      BY <3>1, <3>2 DEF Phases, Phase, Closing, CloserIsAlone
    <3> QED
      BY <1>3, <3>2, <3>3, OthersStay DEF Untouched
  <2>2. CASE Enter(t)
    <3>1. isOpen' = isOpen /\ (isOpen \/ pc'[t] \in {"idle", "stop"})
      BY <2>2 DEF Enter, Raises, RunnerTypes
    <3> QED
      BY <1>1, <1>3, <3>1, OthersStay DEF Untouched
  <2>3. CASE ~StopLoop(t) /\ ~Enter(t)
    <3>1. isOpen' = isOpen /\ (Busy(t)' => Busy(t))
      BY <1>3, <2>3 DEF ThreadStep, Schedule, TakeResult, Join, CloseLoop, FinishCheck, RunnerTypes
    <3> QED
      BY <1>1, <1>3, <3>1, OthersStay DEF Untouched
  <2> QED
    BY <2>1, <2>2, <2>3
<1>4. ASSUME NEW t \in Threads, TaskStep(t) PROVE isOpen' = isOpen /\ pc' = pc
  <2>1. CASE CallCallback(t)
    BY <2>1, CalledBack DEF CallCallback
  <2>2. CASE ~CallCallback(t)
    BY <1>4, <2>2 DEF TaskStep, StartTask, HandlerReturns, CloseClient, FinishTask
  <2> QED
    BY <2>1, <2>2
<1>5. LoopStops \/ UNCHANGED vars => isOpen' = isOpen /\ pc' = pc
  BY DEF LoopStops, vars, threadVars
<1> QED
  BY <1>1, <1>2, <1>3, <1>4, <1>5 DEF Next

\* A thread that waits for a coroutine, waits for a loop that runs: no other
\* thread's close(), handler or callback stops, closes or blocks it (unless a
\* callback calls the client on its own loop, or close() overtakes the call).
THEOREM LoopRunsForCalls == Spec => []WaitsForRunningLoop
<1>1. Served /\ Orderly => WaitsForRunningLoop
  BY DEF Served, Orderly, WaitsForRunningLoop
<1>2. Init => Served
  BY DEF Init, Served
<1> QED
  BY <1>1, <1>2, RunnerTypesInit, RunnerTypesStep, ListsInit, EmissionsInit, EmissionStep,
     PhasesInit, PhasesStep, CloseInit, CloserStep, OrderlyStep, ServedStep, PTL DEF Spec

-----------------------------------------------------------------------------
(* The metrics *)

\* There are as many operations as MaxOps allows every thread.
LEMMA BegunFacts ==
    /\ IsFiniteSet(Threads) /\ Cardinality(Threads) \in Nat
    /\ IsFiniteSet(Counting) /\ Cardinality(Counting) \in Nat
    /\ IsFiniteSet(Begun) /\ Cardinality(Begun) \in Nat
    /\ Cardinality(Begun) <= MaxOps * Cardinality(Threads)
<1>1. IsFiniteSet(Threads) /\ MaxOps \in Nat
  BY SyncAssumption
<1>2. IsFiniteSet(1..MaxOps) /\ Cardinality(1..MaxOps) = MaxOps
  BY <1>1, FS_Interval
<1>3. /\ IsFiniteSet(Threads \X (1..MaxOps))
      /\ Cardinality(Threads \X (1..MaxOps)) = Cardinality(Threads) * MaxOps
  BY <1>1, <1>2, FS_Product
<1>4. Begun \in SUBSET (Threads \X (1..MaxOps)) /\ Counting \in SUBSET Threads
  BY DEF Begun, Counting
<1>5. /\ IsFiniteSet(Begun) /\ Cardinality(Begun) <= Cardinality(Threads) * MaxOps
      /\ IsFiniteSet(Counting)
  BY <1>1, <1>3, <1>4, FS_Subset
<1>6. Cardinality(Threads) \in Nat /\ Cardinality(Begun) \in Nat /\ Cardinality(Counting) \in Nat
  BY <1>1, <1>5, FS_CardinalityType
<1>7. Cardinality(Threads) * MaxOps = MaxOps * Cardinality(Threads)
  BY <1>1, <1>6
<1> QED
  BY <1>1, <1>5, <1>6, <1>7

\* Nothing was begun or counted at first.
LEMMA CountedInit == Init => CountedOnce
<1> SUFFICES ASSUME Init PROVE CountedOnce
  OBVIOUS
<1>1. Begun = {}
  <2>1. \A b \in Threads \X (1..MaxOps) : ~ (b[2] > left[b[1]])
    BY SyncAssumption DEF Init
  <2> QED
    BY <2>1 DEF Begun
<1>2. Counting = {}
  BY DEF Init, InitDispatcher, Counting, CanCount
<1>3. \A e \in Events : counted[e] = 0
  BY DEF Init, InitDispatcher
<1> QED
  BY <1>1, <1>2, <1>3, FS_EmptySet DEF CountedOnce

\* An operation that begins may be counted, once.
LEMMA BeginCounts ==
    ASSUME RunnerTypes, EmissionTypes, CountedOnce, NEW t \in Threads, BeginOp(t)
    PROVE  CountedOnce'
<1>1. PICK o, label, how : Begin(t, o, label, how)
  BY DEF BeginOp, BeginCall, BeginCheck, BeginClose, CloseAgain, BeginSubscribe, BeginUnsubscribe
<1>2. left' = [left EXCEPT ![t] = left[t] - 1] /\ left[t] \in 1..MaxOps
  <2>1. left[t] \in 0..MaxOps /\ left[t] > 0 /\ MaxOps \in Nat
    BY <1>1, SyncAssumption DEF Begin, RunnerTypes
  <2>2. left' = [left EXCEPT ![t] = left[t] - 1]
    BY <1>1 DEF Begin
  <2>3. left[t] \in 1..MaxOps
    BY <2>1
  <2> QED
    BY <2>2, <2>3
<1>3. Begun' = Begun \cup {<<t, left[t]>>} /\ <<t, left[t]>> \notin Begun
  <2>1. \A b \in Threads \X (1..MaxOps) :
            b[2] > left'[b[1]] <=> b[2] > left[b[1]] \/ b = <<t, left[t]>>
    <3> SUFFICES ASSUME NEW u \in Threads, NEW i \in 1..MaxOps
                 PROVE  i > left'[u] <=> i > left[u] \/ (u = t /\ i = left[t])
      OBVIOUS
    <3>1. CASE u = t
      <4>1. left'[u] = left[t] - 1
        BY <1>2, <3>1 DEF RunnerTypes
      <4> QED
        BY <1>2, <3>1, <4>1
    <3>2. CASE u # t
      BY <1>2, <3>2 DEF RunnerTypes
    <3> QED
      BY <3>1, <3>2
  <2>2. <<t, left[t]>> \in Threads \X (1..MaxOps) /\ ~ (left[t] > left[t])
    BY <1>2
  <2> QED
    BY <2>1, <2>2 DEF Begun
<1>4. Cardinality(Begun') = Cardinality(Begun) + 1
  BY <1>3, BegunFacts, FS_AddElement
<1>5. Counting' \subseteq Counting \cup {t}
  BY OthersStay DEF Counting, CanCount, Untouched
<1>6. Cardinality(Counting') <= Cardinality(Counting) + 1 /\ Cardinality(Counting') \in Nat
  <2>1. /\ IsFiniteSet(Counting \cup {t})
        /\ Cardinality(Counting \cup {t}) \in {Cardinality(Counting), Cardinality(Counting) + 1}
    BY BegunFacts, FS_AddElement
  <2>2. IsFiniteSet(Counting') /\ Cardinality(Counting') <= Cardinality(Counting \cup {t})
    BY <1>5, <2>1, FS_Subset
  <2>3. Cardinality(Counting') \in Nat
    BY <2>2, FS_CardinalityType
  <2> QED
    BY <2>1, <2>2, <2>3, BegunFacts
<1>7. counted' = counted
  BY DEF BeginOp, BeginCall, BeginCheck, BeginClose, CloseAgain, BeginSubscribe, BeginUnsubscribe,
         BeginEmission, dispatcherVars
<1>8. ASSUME NEW e \in Events
      PROVE  counted[e] + Cardinality(Counting') <= Cardinality(Begun) + 1
  <2>1. counted[e] \in Nat /\ counted[e] + Cardinality(Counting) <= Cardinality(Begun)
    BY DEF EmissionTypes, CountedOnce
  <2> QED
    BY <1>6, <2>1, BegunFacts
<1> QED
  BY <1>4, <1>7, <1>8 DEF CountedOnce

\* A step that begins nothing keeps the bound: no more can be counted after
\* it, and what it counts cannot be counted again.
LEMMA StillCounted ==
    ASSUME EmissionTypes, CountedOnce, left' = left, Counting' \subseteq Counting,
           \/ counted' = counted
           \/ \E t \in Counting \ Counting', e \in Events :
                 counted' = [counted EXCEPT ![e] = @ + 1]
    PROVE  CountedOnce'
<1>1. Begun' = Begun
  BY DEF Begun
<1>2. IsFiniteSet(Counting') /\ Cardinality(Counting') <= Cardinality(Counting)
  BY BegunFacts, FS_Subset
<1>3. Cardinality(Counting') \in Nat
  BY <1>2, FS_CardinalityType
<1>4. \A d \in Events : counted[d] \in Nat
                        /\ counted[d] + Cardinality(Counting) <= Cardinality(Begun)
  BY DEF EmissionTypes, CountedOnce
<1>5. CASE counted' = counted
  <2>1. ASSUME NEW d \in Events
        PROVE  counted[d] + Cardinality(Counting') <= Cardinality(Begun)
    BY <1>2, <1>3, <1>4, BegunFacts
  <2> QED
    BY <1>1, <1>5, <2>1 DEF CountedOnce
<1>6. ASSUME NEW t \in Counting \ Counting', NEW e \in Events,
             counted' = [counted EXCEPT ![e] = @ + 1]
      PROVE  CountedOnce'
  <2>1. /\ IsFiniteSet(Counting \ {t})
        /\ Cardinality(Counting \ {t}) = Cardinality(Counting) - 1
    BY BegunFacts, FS_RemoveElement
  <2>2. Counting' \in SUBSET (Counting \ {t})
    BY <1>6
  <2>3. Cardinality(Counting') <= Cardinality(Counting) - 1
    BY <2>1, <2>2, FS_Subset
  <2>4. ASSUME NEW d \in Events
        PROVE  counted'[d] + Cardinality(Counting') <= Cardinality(Begun)
    <3>1. counted'[d] \in {counted[d], counted[d] + 1}
      BY <1>6 DEF EmissionTypes
    <3> QED
      BY <1>3, <1>4, <2>3, <3>1, BegunFacts
  <2> QED
    BY <1>1, <2>4 DEF CountedOnce
<1> QED
  BY <1>5, <1>6

\* Of the steps of a thread and its task, only a callback counts: once in an
\* emission, as it is subscribed once.
LEMMA StepCounts ==
    ASSUME RunnerTypes, EmissionTypes, Emissions, Phases, CountedOnce, NEW t \in Threads,
           ThreadStep(t) \/ TaskStep(t)
    PROVE  CountedOnce'
<1> USE DEF Goto, Ends, SetTask, runnerVars
<1>1. left' = left
  BY DEF ThreadStep, Enter, Schedule, TakeResult, StopLoop, Join, CloseLoop, FinishCheck, TaskStep,
         StartTask, HandlerReturns, CloseClient, CallCallback, FinishTask
<1>2. \A u \in Threads \ {t} : CanCount(u)' => CanCount(u)
  BY OthersStay DEF CanCount, Untouched
<1>3. /\ pc \in [Threads -> {"idle", "enter", "schedule", "wait", "emit", "stop", "join",
                             "close loop"}]
      /\ task \in [Threads -> {"none", "queued", "handler", "emitting", "cancelled", "returned",
                               "raised"}]
      /\ at \in [Threads -> Nat] /\ Phase(t)
  BY DEF RunnerTypes, EmissionTypes, Phases
<1>4. ASSUME CanCount(t)' => CanCount(t), counted' = counted PROVE CountedOnce'
  <2>1. Counting' \subseteq Counting
    BY <1>2, <1>4 DEF Counting
  <2> QED
    BY <1>1, <1>4, <2>1, StillCounted
<1>5. ASSUME ThreadStep(t) PROVE (CanCount(t)' => CanCount(t)) /\ counted' = counted
  <2>1. counted' = counted /\ op' = op
    BY <1>5
    DEF ThreadStep, Enter, Schedule, TakeResult, StopLoop, Join, CloseLoop, FinishCheck,
        EndEmission, AbandonEmission, LeaveEmission,
        dispatcherVars
  <2>2. at'[t] = 0
    <3>1. at' = at \/ at' = [at EXCEPT ![t] = 0]
      BY <1>5
      DEF ThreadStep, Enter, Schedule, TakeResult, StopLoop, Join, CloseLoop, FinishCheck,
          EndEmission, AbandonEmission, LeaveEmission, dispatcherVars, emissionVars
    <3>2. CASE at' = at
      <4>1. ~FinishCheck(t)
        BY <1>3, <3>2 DEF FinishCheck, EndEmission, AbandonEmission, LeaveEmission, Over, Emitting
      <4>2. pc[t] \in {"enter", "schedule", "stop", "join", "close loop"}
            \/ (pc[t] = "wait" /\ task[t] \in {"returned", "raised"})
        BY <1>5, <4>1 DEF ThreadStep, Enter, Schedule, TakeResult, StopLoop, Join, CloseLoop
      <4> QED
        BY <1>3, <3>2, <4>2 DEF Phase, InTask, Emits
    <3> QED
      BY <1>3, <3>1, <3>2
  <2>3. (pc'[t] \in {"enter", "schedule"} \/ task'[t] \in {"queued", "handler"})
           => pc[t] \in {"enter", "schedule"}
    <3>1. CASE Enter(t)
      BY <3>1 DEF Enter
    <3>2. CASE Schedule(t)
      BY <3>2 DEF Schedule
    <3>3. CASE TakeResult(t) \/ StopLoop(t) \/ Join(t) \/ CloseLoop(t) \/ FinishCheck(t)
      <4>1. task' = task /\ pc'[t] \notin {"enter", "schedule"}
        BY <1>3, <3>3 DEF TakeResult, StopLoop, Join, CloseLoop, FinishCheck
      <4>2. task[t] \notin {"queued", "handler"}
        BY <1>3, <3>3 DEF TakeResult, StopLoop, Join, CloseLoop, FinishCheck, Phase, InTask
      <4> QED
        BY <4>1, <4>2
    <3> QED
      BY <1>5, <3>1, <3>2, <3>3 DEF ThreadStep
  <2> QED
    BY <2>1, <2>2, <2>3 DEF CanCount
<1>6. ASSUME TaskStep(t), ~CallCallback(t) PROVE (CanCount(t)' => CanCount(t)) /\ counted' = counted
  <2>1. counted' = counted /\ op' = op /\ pc' = pc
    BY <1>6
    DEF TaskStep, StartTask, HandlerReturns, CloseClient, FinishTask, Proceeds, BeginEmission,
        EndEmission, AbandonEmission, LeaveEmission, dispatcherVars
  <2>2. CASE StartTask(t) \/ HandlerReturns(t)
    <3>1. task[t] \in {"queued", "handler"} /\ op[t] = "call"
      BY <1>3, <2>2 DEF StartTask, HandlerReturns, Phase
    <3> QED
      BY <2>1, <3>1 DEF CanCount
  <2>3. CASE CloseClient(t)
    <3>1. op[t] = "close" /\ at' = at /\ task[t] = "queued"
      BY <2>3 DEF CloseClient, dispatcherVars, emissionVars
    <3>2. at[t] = 0
      BY <1>3, <3>1 DEF Phase, InTask, Emits
    <3> QED
      BY <2>1, <3>1, <3>2 DEF CanCount
  <2>4. CASE FinishTask(t)
    <3>1. at'[t] = 0 /\ task'[t] \in {"returned", "raised"} /\ task[t] \in {"emitting", "cancelled"}
      BY <1>3, <2>4 DEF FinishTask, EndEmission, AbandonEmission, LeaveEmission
    <3>2. pc[t] = "wait"
      BY <1>3, <3>1 DEF Phase, InTask, Emits
    <3> QED
      BY <2>1, <3>1, <3>2 DEF CanCount
  <2> QED
    BY <1>6, <2>1, <2>2, <2>3, <2>4 DEF TaskStep
<1>7. ASSUME CallCallback(t) PROVE CountedOnce'
  <2> DEFINE cb == snapshot[t][at[t]]
             n == at[t]
  <2>1. /\ n # 0 /\ n <= Len(snapshot[t]) /\ at' = [at EXCEPT ![t] = n + 1]
        /\ counted' = Counted(cb, event[t]) /\ UNCHANGED <<pc, op, snapshot>>
    BY <1>7 DEF CallCallback, CallNext, Emitting, Called
  <2>2. n \in Nat /\ snapshot[t] \in Seq(Callbacks) /\ IsInjective(snapshot[t])
        /\ event[t] \in Events
    BY DEF EmissionTypes, Emissions, Sound
  <2>3. Len(snapshot[t]) \in Nat
        /\ \A i, j \in 1..Len(snapshot[t]) : snapshot[t][i] = snapshot[t][j] => i = j
    BY <2>2, Elements
  <2>4. at'[t] = n + 1 /\ n \in 1..Len(snapshot[t])
    <3>1. n \in 1..Len(snapshot[t])
      BY <2>1, <2>2, <2>3
    <3>2. at'[t] = n + 1
      BY <2>1 DEF EmissionTypes
    <3> QED
      BY <3>1, <3>2
  <2>5. op[t] = "call" => pc[t] \notin {"enter", "schedule"} /\ task[t] \notin {"queued", "handler"}
                          /\ task'[t] \notin {"queued", "handler"}
    <3>1. pc[t] = "emit" \/ Emits(t)
      BY <1>3, <2>1 DEF Phase
    <3>2. pc[t] \notin {"enter", "schedule"} /\ task[t] \notin {"queued", "handler"}
      BY <1>3, <3>1 DEF Phase, Emits, InTask
    <3>3. task'[t] \in {task[t], "cancelled"}
      BY <1>3, <1>7 DEF CallCallback, CallsBack
    <3> QED
      BY <3>2, <3>3
  <2>6. CanCount(t) <=> \A i \in 1..(n - 1) : snapshot[t][i] # "metrics"
    BY <2>1, <2>5 DEF CanCount
  <2>7. CanCount(t)' <=> \A i \in 1..n : snapshot[t][i] # "metrics"
    <3>1. (n + 1) - 1 = n /\ n + 1 # 0
      BY <2>2
    <3> QED
      BY <2>1, <2>4, <2>5, <3>1 DEF CanCount
  <2>8. \A i \in 1..(n - 1) : i \in 1..Len(snapshot[t]) /\ i # n /\ i \in 1..n
    BY <2>3, <2>4
  <2>9. n \in 1..n
    BY <2>4
  <2>10. CanCount(t)' => CanCount(t)
    BY <2>6, <2>7, <2>8
  <2>11. CASE cb # "metrics"
    BY <1>4, <2>1, <2>10, <2>11 DEF Counted
  <2>12. CASE cb = "metrics"
    <3>1. CanCount(t) /\ ~CanCount(t)'
      BY <2>3, <2>4, <2>6, <2>7, <2>8, <2>9, <2>12
    <3>2. counted' = [counted EXCEPT ![event[t]] = @ + 1]
      BY <2>1, <2>12 DEF Counted
    <3>3. Counting' \subseteq Counting /\ t \in Counting \ Counting'
      BY <1>2, <3>1 DEF Counting
    <3> QED
      BY <1>1, <2>2, <3>2, <3>3, StillCounted
  <2> QED
    BY <2>11, <2>12
<1> QED
  BY <1>4, <1>5, <1>6, <1>7 DEF TaskStep

\* Every step keeps the counters within what was begun.
LEMMA CountedStep ==
    RunnerTypes /\ EmissionTypes /\ Emissions /\ Phases /\ CountedOnce /\ [Next]_vars
        => CountedOnce'
<1> SUFFICES ASSUME RunnerTypes, EmissionTypes, Emissions, Phases, CountedOnce,
                    LoopStops \/ UNCHANGED vars
             PROVE  CountedOnce'
  BY BeginCounts, StepCounts DEF Next
<1>1. UNCHANGED <<pc, op, task, left, at, snapshot, counted>>
  BY DEF LoopStops, vars, threadVars, dispatcherVars, emissionVars
<1>2. Counting' = Counting
  BY <1>1 DEF Counting, CanCount
<1> QED
  BY <1>1, <1>2, StillCounted

\* Every variable has its type: no callback is subscribed twice, an emission
\* stays within its snapshot, and the metrics count no more than was begun.
THEOREM TypeCorrect == Spec => []TypeOK
<1>1. RunnerTypes /\ EmissionTypes /\ Lists /\ Emissions /\ CountedOnce => TypeOK
  <2> SUFFICES ASSUME RunnerTypes, EmissionTypes, Lists, Emissions, CountedOnce PROVE TypeOK
    OBVIOUS
  <2>1. ASSUME NEW t \in Threads PROVE at[t] \in 0..Len(snapshot[t]) + 1
    <3>1. at[t] \in Nat /\ snapshot[t] \in Seq(Callbacks) /\ Sound(t)
      BY DEF EmissionTypes, Emissions
    <3>2. Len(snapshot[t]) \in Nat
      BY <3>1, Elements
    <3> QED
      BY <3>1, <3>2 DEF Sound
  <2>2. ASSUME NEW e \in Events PROVE counted[e] <= MaxOps * Cardinality(Threads)
    <3> DEFINE bound == MaxOps * Cardinality(Threads)
    <3>1. bound \in Nat /\ Cardinality(Begun) <= bound
      BY BegunFacts, SyncAssumption
    <3>2. counted[e] \in Nat /\ counted[e] + Cardinality(Counting) <= Cardinality(Begun)
      BY DEF EmissionTypes, CountedOnce
    <3> HIDE DEF bound
    <3>3. counted[e] <= bound
      BY <3>1, <3>2, BegunFacts
    <3> QED
      BY <3>3 DEF bound
  <2>3. \A e \in Events : typed[e] \in Seq(Callbacks) /\ IsInjective(typed[e])
    BY DEF Lists
  <2>4. global \in Seq(Callbacks)
    BY DEF Lists
  <2> QED
    BY <2>1, <2>2, <2>3, <2>4 DEF RunnerTypes, TypeOK
<1> QED
  BY <1>1, RunnerTypesInit, RunnerTypesStep, ListsInit, EmissionsInit, EmissionStep, PhasesInit,
     PhasesStep, CountedInit, CountedStep, PTL DEF Spec
=============================================================================
