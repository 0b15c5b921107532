------------------------- MODULE Identifiers_proofs -------------------------
(***************************************************************************)
(* Theorems about Identifiers, for any requests, orders of other clients,  *)
(* CSRs and certificates of a wrong authority, and any number of renewals. *)
(***************************************************************************)
EXTENDS Identifiers, FiniteSetTheorems, SequenceTheorems, WellFoundedInduction, TLAPS

-----------------------------------------------------------------------------
(* Inductive invariants *)

\* An order is in progress.
UnderWay == pc \in {"authorize", "finalize", "check"}

\* The values are supported, and name what was first asked for.
NamesWanted(values) ==
    /\ values \in Seq(WireIdentifier) /\ values # <<>>
    /\ \A v \in ToSet(values) : Valid(v)
    /\ Keys(values) = Keys(wanted)

\* What is asked for in an order, and what is stored, goes back to what was
\* asked for first.
Origin ==
    /\ authority \in Authorities
    /\ wanted \in Seq(WireIdentifier) /\ asked \in Seq(WireIdentifier)
    /\ wanted = <<>> => store = <<>>
    /\ UnderWay => NamesWanted(asked)
    /\ pc = "check" => sans \in Seq(WireIdentifier)
    /\ \A key \in DOMAIN store :
          NamesWanted(store[key].sans) /\ Len(store[key].domains) \in Nat

\* The handlers called so far were called for what was asked for.
Provided ==
    pc \in {"finalize", "check"} =>
        /\ provisioned \subseteq ToSet(Texts(asked))
        /\ authority # "wrong" =>
              {Lower(t) : t \in provisioned} = {Lower(t) : t \in ToSet(Texts(asked))}

\* No CSR is left over from an earlier order when it comes to the next.
CSRIsCurrent ==
    pc \in {"authorize", "finalize"} \/ (pc = "idle" /\ wanted = <<>>) => csr = NoCSR

\* The authority renders these values as they are, one by one.
Canonical(values) ==
    /\ values = [i \in DOMAIN values |-> Key(values[i])]
    /\ Cardinality(Keys(values)) = Len(values)

\* The values asked for first, perhaps in another order.
Arranged(values) ==
    /\ values \in Seq(WireIdentifier)
    /\ Len(values) = Len(wanted)
    /\ ToSet(values) = ToSet(wanted)

\* The authority of lacme keeps even the order of the values; from a public
\* one, a recovery gets back the order of their texts.
OrderKept ==
    /\ authority = "lacme" =>
          /\ UnderWay => asked = wanted
          /\ pc = "check" => sans = wanted
          /\ \A key \in DOMAIN store :
                key = wanted[1].text /\ store[key] = Bundle(wanted, wanted)
    /\ authority = "public" /\ Canonical(wanted) =>
          /\ UnderWay => Arranged(asked) /\ Texts(asked) = Texts(wanted)
          /\ pc = "check" => Arranged(sans)
          /\ \A key \in DOMAIN store :
                /\ key = wanted[1].text
                /\ store[key].domains = Texts(wanted) /\ Arranged(store[key].sans)

-----------------------------------------------------------------------------
(* Induction, for sets: the theorem of NaturalsInduction has an operator as *)
(* a parameter                                                              *)

\* A set of numbers up to n that has 0 and with every number the next, has
\* all of them.
LEMMA AllUpTo ==
    ASSUME NEW n \in Nat, NEW T, 0 \in T, \A i \in 1..n : i - 1 \in T => i \in T
    PROVE  \A i \in 0..n : i \in T
<1> DEFINE D == {i \in 0..n : i \notin T}
<1> SUFFICES ASSUME D # {} PROVE FALSE
  OBVIOUS
<1>1. D \subseteq Nat
  OBVIOUS
<1>2. PICK x \in D : \A y \in D : ~ (<<y, x>> \in OpToRel(<, Nat))
  BY <1>1, WFMin, NatLessThanWellFounded
<1>3. x \in 1..n /\ x - 1 \in 0..n
  OBVIOUS
<1>4. x - 1 \notin D
  <2>1. <<x - 1, x>> \in OpToRel(<, Nat)
    BY <1>1, <1>3 DEF OpToRel
  <2> QED
    BY <1>2, <2>1
<1> QED
  BY <1>3, <1>4

\* Taken is what its definition says: the recursion has a solution.
LEMMA TakenDef ==
    ASSUME NEW bundle, Len(bundle.domains) \in Nat
    PROVE  /\ Taken(bundle)[0] = [left |-> bundle.sans, found |-> <<>>, ok |-> TRUE]
           /\ \A i \in 1..Len(bundle.domains) :
                 Taken(bundle)[i] = TakeMatch(Taken(bundle)[i - 1], bundle.domains[i])
<1> DEFINE n == Len(bundle.domains)
           start == [left |-> bundle.sans, found |-> <<>>, ok |-> TRUE]
           Chain(g, m) == g = [i \in 0..m |-> IF i = 0 THEN start
                                              ELSE TakeMatch(g[i - 1], bundle.domains[i])]
           T == {m \in 0..n : \E g : Chain(g, m)}
<1>0. n \in Nat
  OBVIOUS
<1> HIDE DEF n, start
<1>1. 0 \in T
  <2>1. Chain([i \in 0..0 |-> start], 0)
    OBVIOUS
  <2> HIDE DEF Chain
  <2>2. \E g : Chain(g, 0)
    BY <2>1
  <2> QED
    BY <1>0, <2>2
<1>2. ASSUME NEW m \in 1..n, m - 1 \in T PROVE m \in T
  <2>1. PICK g : Chain(g, m - 1)
    BY <1>2
  <2> DEFINE h == [i \in 0..m |-> IF i = m THEN TakeMatch(g[m - 1], bundle.domains[m])
                                  ELSE g[i]]
  <2>2. \A i \in 0..(m - 1) : g[i] = IF i = 0 THEN start ELSE TakeMatch(g[i - 1], bundle.domains[i])
    BY <2>1
  <2>3. \A i \in 0..m : h[i] = IF i = 0 THEN start ELSE TakeMatch(h[i - 1], bundle.domains[i])
    <3>1. ASSUME NEW i \in 0..m
          PROVE  h[i] = IF i = 0 THEN start ELSE TakeMatch(h[i - 1], bundle.domains[i])
      <4>1. CASE i = m
        <5>1. m - 1 \in 0..m /\ m - 1 # m /\ m # 0
          BY <1>0
        <5> QED
          BY <4>1, <5>1
      <4>2. CASE i # m
        <5>1. i \in 0..(m - 1) /\ (i # 0 => i - 1 \in 0..m /\ i - 1 # m)
          BY <1>0, <4>2
        <5> QED
          BY <2>2, <4>2, <5>1
      <4> QED
        BY <4>1, <4>2
    <3> QED
      BY <3>1
  <2>4. Chain(h, m)
    BY <2>3
  <2> HIDE DEF Chain, h
  <2>5. \E f : Chain(f, m)
    BY <2>4
  <2> QED
    BY <1>0, <2>5
<1> HIDE DEF T
<1>3. n \in T
  <2>1. \A m \in 1..n : m - 1 \in T => m \in T
    BY <1>2
  <2>2. \A i \in 0..n : i \in T
    BY <1>0, <1>1, <2>1, AllUpTo
  <2> QED
    BY <1>0, <2>2
<1> HIDE DEF Chain
<1>4. \E g : Chain(g, n)
  BY <1>3 DEF T
<1>5. Taken(bundle) = CHOOSE g : Chain(g, n)
  BY DEF Taken, Chain, start, n
<1>6. Chain(Taken(bundle), n)
  BY <1>4, <1>5
<1>7. Taken(bundle) = [i \in 0..n |-> IF i = 0 THEN start
                                     ELSE TakeMatch(Taken(bundle)[i - 1], bundle.domains[i])]
  BY <1>6 DEF Chain
<1>8. Taken(bundle)[0] = start
  BY <1>0, <1>7
<1>9. ASSUME NEW i \in 1..n
      PROVE  Taken(bundle)[i] = TakeMatch(Taken(bundle)[i - 1], bundle.domains[i])
  BY <1>0, <1>7
<1> QED
  BY <1>8, <1>9 DEF n, start

\* A set of numbers up to n has a least and a greatest one.
LEMMA Extremes ==
    ASSUME NEW n \in Nat, NEW S \in SUBSET (1..n), S # {}
    PROVE  /\ Min(S) \in S /\ \A j \in S : Min(S) <= j
           /\ Max(S) \in S /\ \A j \in S : j <= Max(S)
<1>1. ASSUME NEW D \in SUBSET Nat, D # {} PROVE \E x \in D : \A y \in D : x <= y
  <2>1. PICK x \in D : \A y \in D : ~ (<<y, x>> \in OpToRel(<, Nat))
    BY <1>1, WFMin, NatLessThanWellFounded
  <2>2. ASSUME NEW y \in D PROVE x <= y
    <3>1. x \in Nat /\ y \in Nat /\ ~ (y < x)
      BY <2>1 DEF OpToRel
    <3> QED
      BY <3>1
  <2> QED
    BY <2>2
<1>2. \E x \in S : \A y \in S : x <= y
  BY <1>1
<1>3. \E x \in S : \A y \in S : x >= y
  <2> DEFINE D == {n - k : k \in S}
  <2>1. D \subseteq Nat /\ D # {}
    <3>1. \A k \in S : n - k \in Nat
      OBVIOUS
    <3> QED
      BY <3>1
  <2>2. PICK d \in D : \A y \in D : d <= y
    BY <1>1, <2>1
  <2>3. PICK k \in S : d = n - k
    OBVIOUS
  <2>4. ASSUME NEW j \in S PROVE k >= j
    <3>1. d <= n - j
      BY <2>2
    <3> QED
      BY <2>3, <3>1
  <2> QED
    BY <2>4
<1>4. Min(S) \in S /\ \A j \in S : Min(S) <= j
  BY <1>2 DEF Min
<1>5. Max(S) \in S /\ \A j \in S : Max(S) >= j
  BY <1>3 DEF Max
<1> QED
  BY <1>4, <1>5

-----------------------------------------------------------------------------
(* Sequences *)

\* RemoveAt leaves the other elements, in their order.
LEMMA RemovedFacts ==
    ASSUME NEW S, NEW s \in Seq(S), NEW i \in 1..Len(s)
    PROVE  /\ RemoveAt(s, i) \in Seq(S)
           /\ Len(RemoveAt(s, i)) = Len(s) - 1
           /\ \A j \in 1..(Len(s) - 1) :
                 RemoveAt(s, i)[j] = IF j < i THEN s[j] ELSE s[j + 1]
           /\ ToSet(RemoveAt(s, i)) \cup {s[i]} = ToSet(s)
<1> DEFINE n == Len(s)
           before == SubSeq(s, 1, i - 1)
           after == SubSeq(s, i + 1, n)
<1>1. n \in Nat /\ i \in Int /\ \A j \in 1..n : s[j] \in S
  BY LenProperties, ElementOfSeq
<1>2. /\ before \in Seq(S) /\ Len(before) = i - 1
      /\ \A j \in 1..(i - 1) : before[j] = s[j]
  <2>1. 1 \in Int /\ i - 1 \in Int /\ \A j \in 1..(i - 1) : s[j] \in S
    BY <1>1
  <2>2. before \in Seq(S) /\ Len(before) = (IF 1 <= i - 1 THEN i - 1 - 1 + 1 ELSE 0)
        /\ \A j \in 1..(i - 1 - 1 + 1) : before[j] = s[1 + j - 1]
    BY <2>1, SubSeqProperties
  <2> HIDE DEF before
  <2> QED
    BY <1>1, <2>2
<1>3. /\ after \in Seq(S) /\ Len(after) = n - i
      /\ \A j \in 1..(n - i) : after[j] = s[i + j]
  <2>1. i + 1 \in Int /\ n \in Int /\ \A j \in (i + 1)..n : s[j] \in S
    BY <1>1
  <2>2. after \in Seq(S) /\ Len(after) = (IF i + 1 <= n THEN n - (i + 1) + 1 ELSE 0)
        /\ \A j \in 1..(n - (i + 1) + 1) : after[j] = s[i + 1 + j - 1]
    BY <2>1, SubSeqProperties
  <2> HIDE DEF after, n
  <2> QED
    BY <1>1, <2>2 DEF n
<1>4. RemoveAt(s, i) = before \o after
  BY DEF RemoveAt
<1> HIDE DEF before, after
<1>5. RemoveAt(s, i) \in Seq(S) /\ Len(RemoveAt(s, i)) = i - 1 + (n - i)
      /\ \A j \in 1..(i - 1 + (n - i)) :
            RemoveAt(s, i)[j] = IF j <= i - 1 THEN before[j] ELSE after[j - (i - 1)]
  <2>1. before \o after \in Seq(S) /\ Len(before \o after) = Len(before) + Len(after)
        /\ \A j \in 1..(Len(before) + Len(after)) :
              (before \o after)[j] = IF j <= Len(before) THEN before[j]
                                     ELSE after[j - Len(before)]
    BY <1>2, <1>3, ConcatProperties
  <2> HIDE DEF n
  <2> QED
    BY <1>2, <1>3, <1>4, <2>1
<1>6. i - 1 + (n - i) = n - 1 /\ n - 1 \in Nat
  BY <1>1
<1>7. ASSUME NEW j \in 1..(n - 1)
      PROVE  RemoveAt(s, i)[j] = IF j < i THEN s[j] ELSE s[j + 1]
  <2>1. CASE j < i
    <3>1. j \in 1..(i - 1) /\ j <= i - 1 /\ j \in 1..((i - 1) + (n - i))
      BY <1>1, <1>6, <2>1
    <3>2. RemoveAt(s, i)[j] = before[j]
      BY <1>5, <3>1
    <3> QED
      BY <1>2, <2>1, <3>1, <3>2
  <2>2. CASE ~ (j < i)
    <3>1. j - (i - 1) \in 1..(n - i) /\ i + (j - (i - 1)) = j + 1 /\ ~ (j <= i - 1)
      BY <1>1, <2>2
    <3>2. after[j - (i - 1)] = s[j + 1]
      BY <1>3, <3>1
    <3> QED
      BY <1>5, <1>6, <2>2, <3>1, <3>2
  <2> QED
    BY <2>1, <2>2
<1>8. ToSet(RemoveAt(s, i)) \cup {s[i]} = ToSet(s)
  <2> DEFINE r == RemoveAt(s, i)
  <2>1. DOMAIN s = 1..n /\ DOMAIN r = 1..(n - 1)
    BY <1>5, <1>6, LenProperties
  <2>2. \A j \in 1..(n - 1) : r[j] = IF j < i THEN s[j] ELSE s[j + 1]
    BY <1>7
  <2> HIDE DEF r
  <2>3. \A j \in 1..(n - 1) : j \in 1..n /\ j + 1 \in 1..n
    BY <1>1
  <2>4. \A j \in 1..(n - 1) : \E k \in 1..n : r[j] = s[k]
    BY <2>2, <2>3
  <2>5. ASSUME NEW k \in 1..n, k # i PROVE \E j \in 1..(n - 1) : r[j] = s[k]
    <3>1. CASE k < i
      <4>1. k \in 1..(n - 1)
        BY <1>1, <3>1
      <4> QED
        BY <2>2, <3>1, <4>1
    <3>2. CASE ~ (k < i)
      <4>1. k - 1 \in 1..(n - 1) /\ ~ (k - 1 < i) /\ k - 1 + 1 = k
        BY <1>1, <2>5, <3>2
      <4> QED
        BY <2>2, <4>1
    <3> QED
      BY <3>1, <3>2
  <2>6. ToSet(s) = {s[k] : k \in 1..n} /\ ToSet(r) = {r[j] : j \in 1..(n - 1)}
    BY <2>1 DEF ToSet
  <2>7. ToSet(r) \cup {s[i]} = ToSet(s)
    BY <2>4, <2>5, <2>6
  <2> QED
    BY <2>7 DEF r
<1> QED
  BY <1>5, <1>6, <1>7, <1>8

\* Append adds one element.
LEMMA AppendedFacts ==
    ASSUME NEW S, NEW s \in Seq(S), NEW e \in S
    PROVE  /\ Append(s, e) \in Seq(S) /\ Len(Append(s, e)) = Len(s) + 1
           /\ \A j \in 1..Len(s) : Append(s, e)[j] = s[j]
           /\ Append(s, e)[Len(s) + 1] = e
           /\ ToSet(Append(s, e)) = ToSet(s) \cup {e}
<1> DEFINE n == Len(s)
           a == Append(s, e)
<1>1. n \in Nat /\ DOMAIN s = 1..n
  BY LenProperties
<1>2. /\ a \in Seq(S) /\ Len(a) = n + 1
      /\ \A j \in 1..n : a[j] = s[j]
      /\ a[n + 1] = e
  BY AppendProperties
<1>3. DOMAIN a = 1..(n + 1)
  BY <1>2, LenProperties
<1> HIDE DEF a, n
<1>4. \A j \in 1..(n + 1) : j = n + 1 \/ j \in 1..n
  BY <1>1
<1>5. n + 1 \in 1..(n + 1) /\ \A j \in 1..n : j \in 1..(n + 1)
  BY <1>1
<1>6. ToSet(a) = {a[j] : j \in 1..(n + 1)} /\ ToSet(s) = {s[j] : j \in 1..n}
  BY <1>1, <1>3 DEF ToSet
<1>7. ToSet(a) = ToSet(s) \cup {e}
  BY <1>2, <1>4, <1>5, <1>6
<1> QED
  BY <1>2, <1>7 DEF a, n

-----------------------------------------------------------------------------
(* Recovery *)

\* Which of the values that are left a text takes: the first that fits.
LEMMA FirstFit ==
    ASSUME NEW left, Len(left) \in Nat, NEW text, NEW i
    PROVE  i = SelectInSeq(left, LAMBDA v : Fits(v, text)) =>
              /\ i = 0 => \A j \in 1..Len(left) : ~ Fits(left[j], text)
              /\ i # 0 => /\ i \in 1..Len(left) /\ Fits(left[i], text)
                         /\ \A j \in 1..Len(left) : Fits(left[j], text) => i <= j
<1> DEFINE I == {j \in 1..Len(left) : Fits(left[j], text)}
<1>1. i = SelectInSeq(left, LAMBDA v : Fits(v, text)) => i = IF I # {} THEN Min(I) ELSE 0
  BY DEF SelectInSeq
<1>2. I # {} => Min(I) \in I /\ \A j \in I : Min(I) <= j
  BY Extremes
<1>3. ASSUME I = {} PROVE \A j \in 1..Len(left) : ~ Fits(left[j], text)
  BY <1>3
<1>4. ASSUME I # {}, i = Min(I)
      PROVE  /\ i \in 1..Len(left) /\ Fits(left[i], text)
             /\ \A j \in 1..Len(left) : Fits(left[j], text) => i <= j
  BY <1>2, <1>4
<1>5. 0 \notin 1..Len(left)
  OBVIOUS
<1> QED
  BY <1>1, <1>3, <1>4, <1>5

\* EffectiveText is the text of a value that was asked for.
LEMMA EffectiveFacts ==
    ASSUME Len(asked) \in Nat, NEW key, key \in Keys(asked), DOMAIN asked = 1..Len(asked)
    PROVE  \E i \in DOMAIN asked : Key(asked[i]) = key /\ EffectiveText(key) = asked[i].text
<1> DEFINE I == {j \in 1..Len(asked) : Key(asked[j]) = key}
<1>1. I # {}
  BY DEF Keys, ToSet
<1>2. Max(I) \in I
  BY <1>1, Extremes
<1>3. SelectLastInSeq(asked, LAMBDA v : Key(v) = key) = Max(I)
  BY <1>1 DEF SelectLastInSeq
<1> QED
  BY <1>2, <1>3 DEF EffectiveText

\* What TakeMatch works on.
MatchState == [left : Seq(WireIdentifier), found : Seq(WireIdentifier), ok : BOOLEAN]

\* There is no value that fits the text, and the recovery has failed.
NoneTaken(state, text, next) ==
    /\ next.left = state.left /\ next.found = state.found /\ next.ok = FALSE
    /\ \A j \in 1..Len(state.left) : ~ Fits(state.left[j], text)

\* Value i is taken, the first that fits.
OneTaken(state, text, next, i) ==
    /\ Fits(state.left[i], text)
    /\ \A j \in 1..Len(state.left) : Fits(state.left[j], text) => i <= j
    /\ next.left = RemoveAt(state.left, i)
    /\ next.found = Append(state.found, state.left[i])
    /\ next.ok = state.ok

\* What a text takes goes from what is left to what is found.
LEMMA TakesOne ==
    ASSUME NEW state \in MatchState, NEW text
    PROVE  LET next == TakeMatch(state, text)
           IN  /\ next \in MatchState
               /\ \/ NoneTaken(state, text, next)
                  \/ \E i \in 1..Len(state.left) : OneTaken(state, text, next, i)
<1> DEFINE i == SelectInSeq(state.left, LAMBDA v : Fits(v, text))
           next == TakeMatch(state, text)
<1>1. /\ state.left \in Seq(WireIdentifier) /\ state.found \in Seq(WireIdentifier)
      /\ state.ok \in BOOLEAN /\ Len(state.left) \in Nat
  BY LenProperties DEF MatchState
<1>2. /\ i = 0 => \A j \in 1..Len(state.left) : ~ Fits(state.left[j], text)
      /\ i # 0 => /\ i \in 1..Len(state.left) /\ Fits(state.left[i], text)
                 /\ \A j \in 1..Len(state.left) : Fits(state.left[j], text) => i <= j
  BY <1>1, FirstFit
<1>3. next = IF i = 0 THEN [state EXCEPT !.ok = FALSE]
             ELSE [state EXCEPT !.left = RemoveAt(state.left, i),
                                !.found = Append(state.found, state.left[i])]
  BY DEF TakeMatch
<1> SUFFICES /\ next \in MatchState
             /\ \/ NoneTaken(state, text, next)
                \/ \E k \in 1..Len(state.left) : OneTaken(state, text, next, k)
  OBVIOUS
<1> HIDE DEF i, next
<1>4. CASE i = 0
  BY <1>1, <1>2, <1>3, <1>4 DEF MatchState, NoneTaken
<1>5. CASE i # 0
  <2>1. RemoveAt(state.left, i) \in Seq(WireIdentifier)
    BY <1>1, <1>2, <1>5, RemovedFacts
  <2>2. state.left[i] \in WireIdentifier
    BY <1>1, <1>2, <1>5, ElementOfSeq
  <2>3. Append(state.found, state.left[i]) \in Seq(WireIdentifier)
    BY <1>1, <2>2, AppendProperties
  <2>4. next \in MatchState
    BY <1>3, <1>5, <2>1, <2>3 DEF MatchState
  <2>5. OneTaken(state, text, next, i)
    BY <1>2, <1>3, <1>5 DEF MatchState, OneTaken
  <2> QED
    BY <1>2, <1>5, <2>4, <2>5
<1> QED
  BY <1>4, <1>5

\* While the texts take their values, none is lost and none is added; each
\* text so far has taken one that fits it, unless the recovery has failed.
LEMMA TakenFacts ==
    ASSUME NEW bundle, bundle.sans \in Seq(WireIdentifier), Len(bundle.domains) \in Nat,
           NEW m \in 0..Len(bundle.domains)
    PROVE  LET state == Taken(bundle)[m]
           IN  /\ state \in MatchState
               /\ ToSet(state.left) \cup ToSet(state.found) = ToSet(bundle.sans)
               /\ Len(state.left) + Len(state.found) = Len(bundle.sans)
               /\ state.ok => /\ Len(state.found) = m
                              /\ \A j \in 1..m : Fits(state.found[j], bundle.domains[j])
<1> DEFINE n == Len(bundle.domains)
           Good(state, i) ==
               /\ state \in MatchState
               /\ ToSet(state.left) \cup ToSet(state.found) = ToSet(bundle.sans)
               /\ Len(state.left) + Len(state.found) = Len(bundle.sans)
               /\ state.ok => /\ Len(state.found) = i
                              /\ \A j \in 1..i : Fits(state.found[j], bundle.domains[j])
           T == {i \in 0..n : Good(Taken(bundle)[i], i)}
<1>1. Good([left |-> bundle.sans, found |-> <<>>, ok |-> TRUE], 0)
  <2>1. <<>> \in Seq(WireIdentifier) /\ Len(<<>>) = 0 /\ ToSet(<<>>) = {}
    BY EmptySeq DEF ToSet
  <2>2. Len(bundle.sans) \in Nat
    BY LenProperties
  <2> QED
    BY <2>1, <2>2 DEF MatchState
<1>2. ASSUME NEW i \in 1..n, NEW state, Good(state, i - 1)
      PROVE  Good(TakeMatch(state, bundle.domains[i]), i)
  <2> DEFINE text == bundle.domains[i]
             next == TakeMatch(state, text)
  <2>1. /\ next \in MatchState
        /\ \/ NoneTaken(state, text, next)
           \/ \E k \in 1..Len(state.left) : OneTaken(state, text, next, k)
    BY <1>2, TakesOne
  <2>2. CASE NoneTaken(state, text, next)
    BY <1>2, <2>1, <2>2 DEF NoneTaken
  <2>3. ASSUME NEW k \in 1..Len(state.left), OneTaken(state, text, next, k) PROVE Good(next, i)
    <3> HIDE DEF next
    <3>1. /\ state.left \in Seq(WireIdentifier) /\ state.found \in Seq(WireIdentifier)
          /\ state.left[k] \in WireIdentifier
          /\ Len(state.left) \in Nat /\ Len(state.found) \in Nat
      BY <1>2, ElementOfSeq, LenProperties DEF MatchState
    <3>2. ToSet(next.left) \cup {state.left[k]} = ToSet(state.left)
          /\ Len(next.left) = Len(state.left) - 1
      BY <2>3, <3>1, RemovedFacts DEF OneTaken
    <3>3. /\ ToSet(next.found) = ToSet(state.found) \cup {state.left[k]}
          /\ Len(next.found) = Len(state.found) + 1
          /\ \A j \in 1..Len(state.found) : next.found[j] = state.found[j]
          /\ next.found[Len(state.found) + 1] = state.left[k]
      BY <2>3, <3>1, AppendedFacts DEF OneTaken
    <3>4. ToSet(next.left) \cup ToSet(next.found) = ToSet(bundle.sans)
      BY <1>2, <3>2, <3>3
    <3>5. Len(next.left) + Len(next.found) = Len(bundle.sans)
      <4>1. Len(state.left) + Len(state.found) = Len(bundle.sans)
        BY <1>2
      <4>2. Len(next.left) = Len(state.left) - 1 /\ Len(next.found) = Len(state.found) + 1
        BY <3>2, <3>3
      <4>3. \A a, b \in Nat : (a - 1) + (b + 1) = a + b
        OBVIOUS
      <4>4. (Len(state.left) - 1) + (Len(state.found) + 1) = Len(state.left) + Len(state.found)
        BY <3>1, <4>3
      <4> QED
        BY <4>1, <4>2, <4>4
    <3>6. ASSUME next.ok
          PROVE  Len(next.found) = i /\ \A j \in 1..i : Fits(next.found[j], bundle.domains[j])
      <4>1. state.ok /\ Len(state.found) = i - 1
            /\ \A j \in 1..(i - 1) : Fits(state.found[j], bundle.domains[j])
        BY <1>2, <2>3, <3>6 DEF OneTaken
      <4>2. Len(next.found) = i /\ next.found[i] = state.left[k]
        BY <3>3, <4>1
      <4>3. Fits(next.found[i], bundle.domains[i])
        BY <2>3, <4>2 DEF OneTaken
      <4>4. \A j \in 1..i : j = i \/ j \in 1..(i - 1)
        OBVIOUS
      <4> QED
        BY <3>3, <4>1, <4>2, <4>3, <4>4
    <3> QED
      BY <2>1, <3>4, <3>5, <3>6
  <2> QED
    BY <2>1, <2>2, <2>3
<1> HIDE DEF Good
<1>3. 0 \in T
  BY <1>1, TakenDef
<1>4. \A i \in 1..n : i - 1 \in T => i \in T
  <2>1. ASSUME NEW i \in 1..n, i - 1 \in T PROVE i \in T
    <3>1. Good(TakeMatch(Taken(bundle)[i - 1], bundle.domains[i]), i)
      BY <1>2, <2>1
    <3>2. Taken(bundle)[i] = TakeMatch(Taken(bundle)[i - 1], bundle.domains[i])
      BY TakenDef
    <3> QED
      BY <3>1, <3>2
  <2> QED
    BY <2>1
<1> HIDE DEF T
<1>5. m \in T
  BY <1>3, <1>4, AllUpTo
<1>6. Good(Taken(bundle)[m], m)
  BY <1>5 DEF T
<1> QED
  BY <1>6 DEF Good

\* The values that a recovery finds.
Found(bundle) == Recovery(bundle).found

\* What a recovery finds: exactly the certified values, one for each text,
\* in the order of the texts.
LEMMA RecoveredFacts ==
    ASSUME NEW bundle, bundle.sans \in Seq(WireIdentifier), Len(bundle.domains) \in Nat,
           Recovered(bundle)
    PROVE  /\ Found(bundle) \in Seq(WireIdentifier)
           /\ ToSet(Found(bundle)) = ToSet(bundle.sans)
           /\ Len(Found(bundle)) = Len(bundle.domains)
           /\ Len(Found(bundle)) = Len(bundle.sans)
           /\ \A j \in 1..Len(bundle.domains) : Fits(Found(bundle)[j], bundle.domains[j])
<1> DEFINE state == Taken(bundle)[Len(bundle.domains)]
<1>1. Len(bundle.domains) \in 0..Len(bundle.domains)
  OBVIOUS
<1>2. /\ state \in MatchState
      /\ ToSet(state.left) \cup ToSet(state.found) = ToSet(bundle.sans)
      /\ Len(state.left) + Len(state.found) = Len(bundle.sans)
      /\ state.ok => /\ Len(state.found) = Len(bundle.domains)
                     /\ \A j \in 1..Len(bundle.domains) : Fits(state.found[j], bundle.domains[j])
  BY <1>1, TakenFacts
<1>3. Recovery(bundle) = state /\ state.ok /\ state.left = <<>>
  BY DEF Recovered, Recovery
<1> HIDE DEF state
<1>4. ToSet(<<>>) = {} /\ Len(<<>>) = 0
  BY EmptySeq DEF ToSet
<1>5. state.found \in Seq(WireIdentifier) /\ Len(state.found) \in Nat
  BY <1>2, LenProperties DEF MatchState
<1>6. ToSet(state.found) = ToSet(bundle.sans)
  BY <1>2, <1>3, <1>4
<1>7. Len(state.found) = Len(bundle.sans)
  BY <1>2, <1>3, <1>4, <1>5
<1> QED
  BY <1>2, <1>3, <1>5, <1>6, <1>7 DEF Found

-----------------------------------------------------------------------------
(* Values *)

\* A value that a caller may ask for is a wire identifier.
LEMMA RequestFacts ==
    ASSUME NEW values \in Requests
    PROVE  /\ values \in Seq(WireIdentifier) /\ values # <<>>
           /\ \A v \in ToSet(values) : Valid(v)
<1>1. values \in Seq(Value) /\ values # <<>> /\ Value \subseteq WireIdentifier
  BY IdentifiersAssumption DEF Value
<1>2. values \in Seq(WireIdentifier)
  BY <1>1, SeqMonotonic
<1>3. \A v \in ToSet(values) : v \in Value
  BY <1>1, LenProperties, ElementOfSeq DEF ToSet
<1> QED
  BY <1>1, <1>2, <1>3 DEF Value

\* The elements of a sequence, and that there is a first one.
LEMMA Elements ==
    ASSUME NEW S, NEW s \in Seq(S)
    PROVE  /\ Len(s) \in Nat /\ DOMAIN s = 1..Len(s)
           /\ \A i \in 1..Len(s) : s[i] \in S
           /\ ToSet(s) = {s[i] : i \in 1..Len(s)} /\ ToSet(s) \subseteq S
           /\ s # <<>> => 1 \in 1..Len(s) /\ s[1] \in ToSet(s) /\ s[1] \in S
           /\ s = <<>> <=> Len(s) = 0
<1>1. Len(s) \in Nat /\ DOMAIN s = 1..Len(s) /\ \A i \in 1..Len(s) : s[i] \in S
  BY LenProperties, ElementOfSeq
<1>2. ToSet(s) = {s[i] : i \in 1..Len(s)}
  BY <1>1 DEF ToSet
<1>3. s # <<>> => 1 \in 1..Len(s)
  <2>1. s # <<>> => Len(s) \in Nat \ {0}
    BY EmptySeq
  <2> QED
    BY <2>1
<1>4. s = <<>> <=> Len(s) = 0
  BY <1>1, EmptySeq
<1> QED
  BY <1>1, <1>2, <1>3, <1>4

\* The texts of values.
LEMMA TextsFacts ==
    ASSUME NEW values \in Seq(WireIdentifier)
    PROVE  /\ Texts(values) \in Seq(Text) /\ Len(Texts(values)) = Len(values)
           /\ \A i \in 1..Len(values) : Texts(values)[i] = values[i].text
           /\ ToSet(Texts(values)) = {v.text : v \in ToSet(values)}
<1> DEFINE n == Len(values)
           texts == [i \in 1..n |-> values[i].text]
<1>1. n \in Nat /\ DOMAIN values = 1..n /\ \A i \in 1..n : values[i] \in WireIdentifier
  BY Elements
<1>2. Texts(values) = texts
  BY <1>1 DEF Texts
<1> HIDE DEF n
<1>3. texts \in [1..n -> Text]
  BY <1>1 DEF WireIdentifier
<1>4. texts \in Seq(Text)
  BY <1>1, <1>3, SeqDef
<1>5. Len(texts) \in Nat /\ DOMAIN texts = 1..Len(texts)
  BY <1>4, LenProperties
<1>6. Len(texts) = n
  BY <1>1, <1>5
<1>7. ToSet(texts) = {v.text : v \in ToSet(values)}
  BY <1>1 DEF ToSet, n
<1> QED
  BY <1>2, <1>4, <1>6, <1>7 DEF n

\* A key has lost its spelling and nothing else.
LEMMA KeyFacts ==
    ASSUME NEW v \in WireIdentifier
    PROVE  /\ Key(v) \in WireIdentifier /\ Key(Key(v)) = Key(v)
           /\ Key(v).type = v.type /\ Key(v).text = Lower(v.text)
           /\ Lower(v.text) \in Text /\ Lower(v.text).name = v.text.name
           /\ Lower(v.text).spelling = "lower" /\ Lower(Lower(v.text)) = Lower(v.text)
           /\ v.text \in Text
           /\ IsWildcard(Key(v)) <=> IsWildcard(v)
           /\ Valid(v) => Valid(Key(v))
<1>1. v.type \in {"dns", "ip", "other"} /\ v.text \in Text
  BY DEF WireIdentifier
<1>2. v.text.name \in Names /\ v.text.spelling \in {"lower", "mixed"}
  BY <1>1 DEF Text
<1>3. /\ Lower(v.text) \in Text /\ Lower(v.text).name = v.text.name
      /\ Lower(v.text).spelling = "lower" /\ Lower(Lower(v.text)) = Lower(v.text)
  BY <1>1, <1>2 DEF Text, Lower
<1>4. Key(v) \in WireIdentifier /\ Key(v).type = v.type /\ Key(v).text = Lower(v.text)
  BY <1>1, <1>3 DEF WireIdentifier, Key
<1>5. Key(Key(v)) = Key(v)
  BY <1>3, <1>4 DEF WireIdentifier, Key
<1>6. IsWildcard(Key(v)) <=> IsWildcard(v)
  BY <1>3, <1>4 DEF IsWildcard
<1>7. Valid(v) => Valid(Key(v))
  BY <1>1, <1>2, <1>3, <1>4 DEF Valid
<1> QED
  BY <1>1, <1>3, <1>4, <1>5, <1>6, <1>7

\* Sequences with the same elements have the same keys.
LEMMA SameKeys ==
    ASSUME NEW s, NEW t, ToSet(s) = ToSet(t)
    PROVE  Keys(s) = Keys(t)
  BY DEF Keys

\* A sequence has keys if and only if it is not empty.
LEMMA KeysOfSome ==
    ASSUME NEW s \in Seq(WireIdentifier)
    PROVE  s # <<>> <=> Keys(s) # {}
<1>1. s # <<>> => s[1] \in ToSet(s)
  BY Elements
<1>2. s = <<>> => ToSet(s) = {}
  <2>1. ToSet(s) = {s[i] : i \in 1..Len(s)} /\ (s = <<>> <=> Len(s) = 0)
    BY Elements
  <2>2. 1..0 = {}
    OBVIOUS
  <2> QED
    BY <2>1, <2>2
<1> QED
  BY <1>1, <1>2 DEF Keys

-----------------------------------------------------------------------------
(* What is asked for, and what is stored *)

\* Saving changes one entry.
LEMMA SavedFacts ==
    ASSUME NEW values, NEW names, Save(values, names)
    PROVE  \A k \in DOMAIN store' :
               \/ k \in DOMAIN store /\ store'[k] = store[k]
               \/ k = values[1].text /\ store'[k] = Bundle(values, names)
<1> DEFINE saved == values[1].text
           bundle == Bundle(values, names)
<1>1. store' = [k \in DOMAIN store \cup {saved} |-> IF k = saved THEN bundle ELSE store[k]]
  BY DEF Save, StoredAs
<1> HIDE DEF saved, bundle
<1>2. ASSUME NEW k \in DOMAIN store'
      PROVE  (k \in DOMAIN store /\ store'[k] = store[k]) \/ (k = saved /\ store'[k] = bundle)
  <2>1. k \in DOMAIN store \cup {saved}
    BY <1>1
  <2>2. store'[k] = IF k = saved THEN bundle ELSE store[k]
    BY <1>1, <2>1
  <2> QED
    BY <2>1, <2>2
<1> QED
  BY <1>2 DEF saved, bundle

\* What a bundle keeps.
LEMMA BundleFacts ==
    ASSUME NEW values \in Seq(WireIdentifier), NEW names
    PROVE  /\ Bundle(values, names).sans = names
           /\ Bundle(values, names).domains = Texts(values)
           /\ Len(Bundle(values, names).domains) = Len(values)
           /\ Len(values) \in Nat
  BY TextsFacts, Elements DEF Bundle

\* What a renewal asks for is what was asked for first.
LEMMA RenewedFacts ==
    ASSUME Origin, NEW key \in DOMAIN store, Recovered(store[key])
    PROVE  /\ NamesWanted(Found(store[key]))
           /\ Len(Found(store[key])) = Len(store[key].domains)
           /\ \A j \in 1..Len(store[key].domains) :
                 Fits(Found(store[key])[j], store[key].domains[j])
<1> DEFINE values == Found(store[key])
<1>1. NamesWanted(store[key].sans) /\ Len(store[key].domains) \in Nat
  BY DEF Origin
<1>2. /\ values \in Seq(WireIdentifier)
      /\ ToSet(values) = ToSet(store[key].sans)
      /\ Len(values) = Len(store[key].domains)
      /\ \A j \in 1..Len(store[key].domains) : Fits(values[j], store[key].domains[j])
  BY <1>1, RecoveredFacts DEF NamesWanted
<1> HIDE DEF values
<1>3. Keys(values) = Keys(store[key].sans)
  BY <1>2, SameKeys
<1>4. values # <<>>
  BY <1>1, <1>2, <1>3, KeysOfSome DEF NamesWanted
<1>5. NamesWanted(values)
  BY <1>1, <1>2, <1>3, <1>4 DEF NamesWanted
<1> QED
  BY <1>2, <1>5 DEF values

\* The keys of a sequence are finitely many.
LEMMA KeysFinite ==
    ASSUME NEW s \in Seq(WireIdentifier)
    PROVE  /\ IsFiniteSet(Keys(s)) /\ Cardinality(Keys(s)) \in Nat
           /\ Keys(s) \subseteq WireIdentifier
<1> DEFINE n == Len(s)
           f == [i \in 1..n |-> Key(s[i])]
<1>1. n \in Nat /\ ToSet(s) = {s[i] : i \in 1..n} /\ ToSet(s) \subseteq WireIdentifier
  BY Elements
<1>2. Keys(s) = {f[i] : i \in 1..n} /\ Keys(s) \subseteq WireIdentifier
  BY <1>1, KeyFacts DEF Keys
<1> HIDE DEF n
<1>3. f \in Surjection(1..n, Keys(s))
  BY <1>2 DEF Surjection
<1>4. IsFiniteSet(1..n)
  BY <1>1, FS_Interval
<1>5. IsFiniteSet(Keys(s))
  BY <1>3, <1>4, FS_Surjection
<1> QED
  BY <1>2, <1>5, FS_CardinalityType

\* What an authority certifies is a sequence of identifiers.
LEMMA CertifiedFacts ==
    ASSUME authority \in Authorities, NEW order \in Seq(WireIdentifier)
    PROVE  Certified(order) \subseteq Seq(WireIdentifier)
<1>1. SetToSeqs(Keys(order)) \subseteq Seq(WireIdentifier)
  <2> DEFINE n == Cardinality(Keys(order))
  <2>1. n \in Nat /\ Keys(order) \subseteq WireIdentifier
    BY KeysFinite
  <2>2. SetToSeqs(Keys(order)) \subseteq [1..n -> Keys(order)]
    BY DEF SetToSeqs
  <2> HIDE DEF n
  <2>3. [1..n -> Keys(order)] \subseteq [1..n -> WireIdentifier]
    BY <2>1
  <2>4. [1..n -> WireIdentifier] \subseteq Seq(WireIdentifier)
    BY <2>1, SeqDef
  <2> QED
    BY <2>2, <2>3, <2>4
<1>2. StraySANs \subseteq Seq(WireIdentifier)
  BY IdentifiersAssumption
<1> QED
  BY <1>1, <1>2 DEF Certified, Authorities

\* What can be certified for a CSR alone is not empty.
LEMMA CertifiableFacts ==
    ASSUME NEW request \in Requesters, NEW names \in CertifiableNames(request)
    PROVE  names \in Seq(WireIdentifier) /\ names # <<>>
<1>1. request.cns \subseteq Text /\ request.sans \in Seq(WireIdentifier)
  BY IdentifiersAssumption
<1>2. CASE request.sans # <<>>
  BY <1>1, <1>2 DEF CertifiableNames
<1>3. CASE request.sans = <<>>
  <2>1. PICK cn \in request.cns : names = <<AsDNS(cn)>>
    BY <1>3 DEF CertifiableNames
  <2>2. AsDNS(cn) \in WireIdentifier
    BY <1>1 DEF AsDNS, WireIdentifier
  <2> QED
    BY <2>1, <2>2
<1> QED
  BY <1>2, <1>3

\* Nothing is asked for at first.
LEMMA OriginInit == Init => Origin
<1>1. <<>> \in Seq(WireIdentifier) /\ DOMAIN <<>> = {}
  BY EmptySeq, LenProperties
<1> QED
  BY <1>1 DEF Init, Origin, UnderWay

\* A certificate for another client, or for a CSR alone, is for what was
\* asked for in that request.
LEMMA OriginOfOthers ==
    ASSUME Origin, authority' = authority, wanted = <<>>,
           NEW names \in Seq(WireIdentifier), names # <<>>,
           \A v \in ToSet(names) : Valid(v), IssuedForOthers(names, names)
    PROVE  Origin'
<1>1. wanted' = names /\ asked' = names /\ pc' = "idle" /\ Save(names, names)
  BY DEF IssuedForOthers
<1>2. DOMAIN store = {}
  BY EmptySeq, LenProperties DEF Origin
<1>3. \A key \in DOMAIN store' : store'[key] = Bundle(names, names)
  <2>1. \A k \in DOMAIN store' :
           \/ k \in DOMAIN store /\ store'[k] = store[k]
           \/ k = names[1].text /\ store'[k] = Bundle(names, names)
    BY <1>1, SavedFacts
  <2> QED
    BY <1>2, <2>1
<1>4. Bundle(names, names).sans = names /\ Len(Bundle(names, names).domains) \in Nat
  BY BundleFacts
<1> QED
  BY <1>1, <1>3, <1>4 DEF Origin, NamesWanted, UnderWay, Keys

\* The authority and the challenge type of the renewals are chosen once.
LEMMA ChosenOnce == [Next]_vars => authority' = authority /\ renewalType' = renewalType
  BY DEF Next, vars, Ask, Authorize, Finalize, CheckAndSave, OtherClient, IssueFromCSR, Renew

\* Every step keeps the identifiers asked for first.
LEMMA OriginStep == Origin /\ [Next]_vars => Origin'
<1> SUFFICES ASSUME Origin, [Next]_vars PROVE Origin'
  OBVIOUS
<1>0. authority' = authority
  BY ChosenOnce
<1>1. CASE Ask
  <2>1. PICK values \in Requests :
           /\ wanted = <<>> /\ wanted' = values /\ asked' = values /\ store' = store
           /\ pc' # "check"
    BY <1>1 DEF Ask, CallIssue
  <2>2. values \in Seq(WireIdentifier) /\ values # <<>> /\ \A v \in ToSet(values) : Valid(v)
    BY RequestFacts
  <2>3. DOMAIN store' = {}
    BY <2>1, EmptySeq, LenProperties DEF Origin
  <2> QED
    BY <1>0, <2>1, <2>2, <2>3 DEF Origin, NamesWanted, UnderWay, Keys
<1>2. CASE Authorize
  <2>1. pc = "authorize" /\ pc' # "check" /\ UNCHANGED <<wanted, asked, store>>
    BY <1>2 DEF Authorize
  <2> QED
    BY <1>0, <2>1 DEF Origin, UnderWay, NamesWanted, Keys
<1>3. CASE Finalize
  <2>1. pc = "finalize" /\ UNCHANGED <<wanted, asked, store>>
        /\ (pc' = "check" => sans' \in Certified(asked))
    BY <1>3 DEF Finalize, Sign
  <2>2. pc' = "check" => sans' \in Seq(WireIdentifier)
    BY <2>1, CertifiedFacts DEF Origin
  <2> QED
    BY <1>0, <2>1, <2>2 DEF Origin, UnderWay, NamesWanted, Keys
<1>4. CASE CheckAndSave
  <2>1. pc = "check" /\ UNCHANGED <<wanted, asked, sans>> /\ pc' \in {"idle", "refused"}
    BY <1>4 DEF CheckAndSave
  <2>2. CASE Matches(sans, asked)
    <3>1. Save(asked, sans)
      BY <1>4, <2>2 DEF CheckAndSave
    <3>2. NamesWanted(asked)
      BY <1>0, <2>1 DEF Origin, UnderWay
    <3>3. NamesWanted(sans)
      BY <2>1, <2>2, <3>2 DEF NamesWanted, Matches, Origin
    <3>4. Bundle(asked, sans).sans = sans /\ Len(Bundle(asked, sans).domains) \in Nat
      BY <3>2, BundleFacts DEF NamesWanted
    <3>5. \A k \in DOMAIN store' :
             \/ k \in DOMAIN store /\ store'[k] = store[k]
             \/ k = asked[1].text /\ store'[k] = Bundle(asked, sans)
      BY <3>1, SavedFacts
    <3>6. wanted # <<>>
      BY <3>2, KeysOfSome DEF NamesWanted, Origin
    <3> QED
      BY <1>0, <2>1, <2>2, <1>4, <3>2, <3>3, <3>4, <3>5, <3>6
      DEF CheckAndSave, Origin, UnderWay, NamesWanted, Keys
  <2>3. CASE ~ Matches(sans, asked)
    <3>1. store' = store
      BY <1>4, <2>3 DEF CheckAndSave
    <3> QED
      BY <1>0, <2>1, <3>1 DEF Origin, UnderWay, NamesWanted, Keys
  <2> QED
    BY <2>2, <2>3
<1>5. CASE OtherClient
  <2>1. PICK order \in WireOrders, request \in Requesters :
           /\ wanted = <<>> /\ pc = "idle"
           /\ IF AcceptedOrder(order) /\ Accepted(request, order)
              THEN IssuedForOthers(order, order)
              ELSE /\ pc' \in {"badCSR", "malformed"}
                   /\ asked' = order
                   /\ UNCHANGED <<wanted, sans, store>>
    BY <1>5 DEF OtherClient
  <2>2. order \in Seq(WireIdentifier)
    BY IdentifiersAssumption
  <2>3. CASE AcceptedOrder(order) /\ Accepted(request, order)
    <3>1. order # <<>> /\ \A v \in ToSet(order) : Valid(v)
      BY <2>3 DEF AcceptedOrder
    <3>2. IssuedForOthers(order, order)
      BY <2>1, <2>3
    <3> QED
      BY <1>0, <2>1, <2>2, <3>1, <3>2, OriginOfOthers
  <2>4. CASE ~ (AcceptedOrder(order) /\ Accepted(request, order))
    <3>1. pc' \in {"badCSR", "malformed"} /\ asked' = order /\ UNCHANGED <<wanted, store>>
      BY <2>1, <2>4
    <3> QED
      BY <1>0, <2>2, <3>1 DEF Origin, UnderWay, NamesWanted, Keys
  <2> QED
    BY <2>3, <2>4
<1>6. CASE IssueFromCSR
  <2>1. PICK request \in Requesters :
           /\ wanted = <<>> /\ pc = "idle"
           /\ \/ \E names \in CertifiableNames(request) :
                    (\A v \in ToSet(names) : Valid(v)) /\ IssuedForOthers(names, names)
              \/ pc' = "refused" /\ UNCHANGED <<wanted, asked, store>>
    BY <1>6 DEF IssueFromCSR
  <2>2. ASSUME NEW names \in CertifiableNames(request), \A v \in ToSet(names) : Valid(v),
               IssuedForOthers(names, names)
        PROVE  Origin'
    <3>1. names \in Seq(WireIdentifier) /\ names # <<>>
      BY CertifiableFacts
    <3> QED
      BY <1>0, <2>1, <2>2, <3>1, OriginOfOthers
  <2>3. CASE pc' = "refused" /\ UNCHANGED <<wanted, asked, store>>
    BY <1>0, <2>3 DEF Origin, UnderWay, NamesWanted, Keys
  <2> QED
    BY <2>1, <2>2, <2>3
<1>7. CASE Renew
  <2>1. PICK key \in DOMAIN store :
           /\ wanted' = wanted
           /\ \/ pc' = "unrecovered" /\ UNCHANGED <<asked, store>>
              \/ /\ Recovered(store[key])
                 /\ pc' # "check" /\ asked' = Found(store[key]) /\ UNCHANGED store
              \/ /\ Recovered(store[key])
                 /\ pc' = "idle" /\ asked' = Found(store[key])
                 /\ Save(Found(store[key]), Found(store[key]))
    BY <1>7 DEF Renew, CallIssue, Found
  <2> DEFINE values == Found(store[key])
  <2>2. CASE pc' = "unrecovered" /\ UNCHANGED <<asked, store>>
    BY <1>0, <2>1, <2>2 DEF Origin, UnderWay, NamesWanted, Keys
  <2>3. CASE Recovered(store[key]) /\ pc' # "check" /\ asked' = values /\ UNCHANGED store
    <3>1. NamesWanted(values)
      BY <2>3, RenewedFacts
    <3> QED
      BY <1>0, <2>1, <2>3, <3>1 DEF Origin, UnderWay, NamesWanted, Keys
  <2>4. CASE Recovered(store[key]) /\ pc' = "idle" /\ asked' = values /\ Save(values, values)
    <3>1. NamesWanted(values)
      BY <2>4, RenewedFacts
    <3> HIDE DEF values
    <3>2. values \in Seq(WireIdentifier)
      BY <3>1 DEF NamesWanted
    <3>3. Bundle(values, values).sans = values /\ Len(Bundle(values, values).domains) \in Nat
      BY <3>2, BundleFacts
    <3>4. \A k \in DOMAIN store' :
             \/ k \in DOMAIN store /\ store'[k] = store[k]
             \/ k = values[1].text /\ store'[k] = Bundle(values, values)
      BY <2>4, SavedFacts
    <3>5. wanted # <<>>
      <4>1. wanted = <<>> => DOMAIN store = {}
        BY EmptySeq, LenProperties DEF Origin
      <4> QED
        BY <4>1
    <3> QED
      BY <1>0, <2>1, <2>4, <3>1, <3>2, <3>3, <3>4, <3>5 DEF Origin, UnderWay, NamesWanted, Keys
  <2> QED
    BY <2>1, <2>2, <2>3, <2>4
<1>8. CASE UNCHANGED vars
  BY <1>8 DEF vars, Origin, UnderWay, NamesWanted, Keys
<1> QED
  BY <1>1, <1>2, <1>3, <1>4, <1>5, <1>6, <1>7, <1>8 DEF Next

-----------------------------------------------------------------------------
(* Handlers *)

\* An authorization leads back to the value it was made for, whatever the
\* server's spelling and although it lists a wildcard under its base name.
LEMMA RoutingFacts ==
    ASSUME NEW v \in WireIdentifier
    PROVE  RoutingKey(Authorization(v)) = Key(v)
<1> DEFINE text == IF authority = "public" THEN Lower(v.text) ELSE v.text
<1>1. /\ v.text \in Text /\ Lower(v.text) \in Text /\ Lower(v.text).name = v.text.name
      /\ Lower(Lower(v.text)) = Lower(v.text)
  BY KeyFacts
<1>2. text \in Text /\ text.name = v.text.name /\ Lower(text) = Lower(v.text)
  BY <1>1
<1>3. Authorization(v).type = v.type /\ Authorization(v).wildcard = IsWildcard(v)
      /\ Authorization(v).text = IF IsWildcard(v) THEN [text EXCEPT !.name = "host"] ELSE text
  BY DEF Authorization
<1> HIDE DEF text
<1>4. CASE IsWildcard(v)
  <2>1. [[text EXCEPT !.name = "host"] EXCEPT !.name = "*.host"] = text
    BY <1>2, <1>4 DEF IsWildcard, Text
  <2> QED
    BY <1>2, <1>3, <1>4, <2>1 DEF RoutingKey, Key, WireIdentifier
<1>5. CASE ~ IsWildcard(v)
  BY <1>2, <1>3, <1>5 DEF RoutingKey, Key, WireIdentifier
<1> QED
  BY <1>4, <1>5

\* The authorizations of an order lead to exactly the values asked for.
LEMMA RoutedFacts ==
    ASSUME asked \in Seq(WireIdentifier)
    PROVE  {RoutingKey(a) : a \in {Authorization(v) : v \in ToSet(asked)}} = Keys(asked)
<1>1. ToSet(asked) \subseteq WireIdentifier
  BY Elements
<1>2. \A v \in ToSet(asked) : RoutingKey(Authorization(v)) = Key(v)
  BY <1>1, RoutingFacts
<1> QED
  BY <1>2 DEF Keys

\* For each value asked for, and for no other, a handler is called with a
\* text the caller used.
LEMMA ProvisionedFacts ==
    ASSUME asked \in Seq(WireIdentifier)
    PROVE  LET texts == {EffectiveText(RoutingKey(a)) :
                            a \in {Authorization(v) : v \in ToSet(asked)}}
           IN  /\ texts \subseteq ToSet(Texts(asked))
               /\ {Lower(t) : t \in texts} = {Lower(t) : t \in ToSet(Texts(asked))}
<1> DEFINE given == {EffectiveText(key) : key \in Keys(asked)}
<1>1. Len(asked) \in Nat /\ DOMAIN asked = 1..Len(asked)
      /\ ToSet(asked) = {asked[i] : i \in 1..Len(asked)} /\ ToSet(asked) \subseteq WireIdentifier
  BY Elements
<1>2. ToSet(Texts(asked)) = {v.text : v \in ToSet(asked)}
  BY TextsFacts
<1>3. \A key \in Keys(asked) :
         \E v \in ToSet(asked) : Key(v) = key /\ EffectiveText(key) = v.text
  BY <1>1, EffectiveFacts
<1>4. \A v \in ToSet(asked) : Key(v) \in Keys(asked) /\ Key(v).text = Lower(v.text)
  BY <1>1, KeyFacts DEF Keys
<1>5. given \subseteq ToSet(Texts(asked))
  BY <1>2, <1>3
<1>6. \A key \in Keys(asked) : Lower(EffectiveText(key)) = key.text
  BY <1>3, <1>4
<1>7. \A key \in Keys(asked) : \E v \in ToSet(asked) : key.text = Lower(v.text)
  BY <1>3, <1>4
<1>8. {Lower(t) : t \in given} = {Lower(t) : t \in ToSet(Texts(asked))}
  <2>1. {Lower(t) : t \in given} = {key.text : key \in Keys(asked)}
    BY <1>6
  <2>2. {key.text : key \in Keys(asked)} = {Lower(v.text) : v \in ToSet(asked)}
    BY <1>4, <1>7
  <2> QED
    BY <1>2, <2>1, <2>2
<1>9. {EffectiveText(RoutingKey(a)) : a \in {Authorization(v) : v \in ToSet(asked)}} = given
  BY RoutedFacts
<1> HIDE DEF given
<1> QED
  BY <1>5, <1>8, <1>9

\* Every step keeps the handlers to what was asked for.
LEMMA ProvidedStep == Origin /\ Provided /\ [Next]_vars => Provided'
<1> SUFFICES ASSUME Origin, Provided, [Next]_vars PROVE Provided'
  OBVIOUS
<1>1. CASE Authorize
  <2> DEFINE texts == {EffectiveText(RoutingKey(a)) :
                          a \in {Authorization(v) : v \in ToSet(asked)}}
  <2>1. PICK offered \in SUBSET {Authorization(v) : v \in ToSet(asked)} :
            /\ authority # "wrong" => offered = {Authorization(v) : v \in ToSet(asked)}
            /\ UNCHANGED <<asked, authority>>
            /\ \/ pc' = "refused"
               \/ provisioned' = {EffectiveText(RoutingKey(a)) : a \in offered}
    BY <1>1 DEF Authorize
  <2>2. /\ texts \subseteq ToSet(Texts(asked))
        /\ {Lower(t) : t \in texts} = {Lower(t) : t \in ToSet(Texts(asked))}
    BY ProvisionedFacts DEF Origin
  <2>3. CASE pc' = "refused"
    BY <2>3 DEF Provided
  <2>4. CASE provisioned' = {EffectiveText(RoutingKey(a)) : a \in offered}
    <3>1. provisioned' \subseteq texts
      BY <2>1, <2>4
    <3>2. authority # "wrong" => provisioned' = texts
      BY <2>1, <2>4
    <3> HIDE DEF texts
    <3> QED
      BY <2>1, <2>2, <3>1, <3>2 DEF Provided
  <2> QED
    BY <2>1, <2>3, <2>4
<1>2. CASE Finalize
  BY <1>2 DEF Finalize, Provided
<1>3. CASE Ask \/ CheckAndSave \/ OtherClient \/ IssueFromCSR \/ Renew
  <2>1. pc' \notin {"finalize", "check"}
    BY <1>3 DEF Ask, CallIssue, CheckAndSave, OtherClient, IssueFromCSR, IssuedForOthers, Renew
  <2> QED
    BY <2>1 DEF Provided
<1>4. CASE UNCHANGED vars
  BY <1>4 DEF vars, Provided
<1> QED
  BY <1>1, <1>2, <1>3, <1>4 DEF Next

\* However often a certificate is renewed, and through whom, what is stored
\* certifies exactly the typed identifiers that were first asked for, and
\* handlers are called with the caller's texts for all of them.
THEOREM RenewalKeepsIdentifiers == Spec => []IdentifiersKept
<1>1. Origin /\ Provided => IdentifiersKept
  BY DEF Origin, NamesWanted, Provided, IdentifiersKept
<1>2. Init => Provided
  BY DEF Init, Provided
<1> QED
  BY <1>1, <1>2, OriginInit, OriginStep, ProvidedStep, PTL DEF Spec

-----------------------------------------------------------------------------
(* CSRs *)

\* For an order of supported identifiers, a CSR is accepted if and only if
\* it describes the order.
LEMMA AcceptedIfDescribes ==
    ASSUME NEW cns \in SUBSET Text, NEW names \in Seq(WireIdentifier),
           NEW order \in Seq(WireIdentifier), \A v \in ToSet(order) : Valid(v)
    PROVE  Accepted([cns |-> cns, sans |-> names], order)
              <=> Describes([cns |-> cns, sans |-> names], order)
<1> DEFINE request == [cns |-> cns, sans |-> names]
           counted == CountedNames(request, order)
           KeyOf(cn) == Key(AsDNS(cn))
<1>1. request.cns = cns /\ request.sans = names
  OBVIOUS
<1>2. \A cn \in cns : /\ AsDNS(cn) \in WireIdentifier
                      /\ KeyOf(cn) = [type |-> "dns", text |-> Lower(cn)]
                      /\ (Valid(AsDNS(cn)) <=> cn.name # "v6")
                      /\ cn.name = Lower(cn).name
  BY DEF AsDNS, WireIdentifier, Key, Valid, Lower, Text
<1>3. \A cn \in cns :
         cn \in counted <=>
            \/ KeyOf(cn) \in Keys(order) /\ KeyOf(cn) \notin Keys(names)
            \/ \A v \in ToSet(names) : Lower(v.text) # Lower(cn)
  BY <1>1, <1>2 DEF CountedNames
<1>4. counted \subseteq cns
  BY <1>1 DEF CountedNames
<1>5. Accepted(request, order) <=>
         /\ \A v \in ToSet(names) : Valid(v)
         /\ \A cn \in counted : Valid(AsDNS(cn))
         /\ Keys(names) \cup {KeyOf(cn) : cn \in counted} = Keys(order)
  BY <1>1 DEF Accepted
<1>6. Describes(request, order) <=>
         /\ \A v \in ToSet(names) : Valid(v)
         /\ \E read \in SUBSET cns :
               /\ \A cn \in cns \ read : \E v \in ToSet(names) : Lower(v.text) = Lower(cn)
               /\ \A cn \in read : Valid(AsDNS(cn))
               /\ Keys(names) \cup {KeyOf(cn) : cn \in read} = Keys(order)
  BY <1>1 DEF Describes
<1>7. \A cn \in cns : KeyOf(cn) \in Keys(order) => Valid(AsDNS(cn))
  <2>1. ASSUME NEW cn \in cns, KeyOf(cn) \in Keys(order) PROVE Valid(AsDNS(cn))
    <3>1. PICK v \in ToSet(order) : Key(v) = KeyOf(cn)
      BY <2>1 DEF Keys
    <3>2. v \in WireIdentifier /\ Valid(v)
      BY Elements
    <3>3. v.type = "dns" /\ Lower(v.text) = Lower(cn) /\ v.text.name = Lower(v.text).name
      BY <1>2, <3>1, <3>2, KeyFacts
    <3> QED
      BY <1>2, <3>2, <3>3 DEF Valid
  <2> QED
    BY <2>1
<1> HIDE DEF request, counted, KeyOf
<1>8. ASSUME Accepted(request, order) PROVE Describes(request, order)
  BY <1>3, <1>4, <1>5, <1>6, <1>8
<1>9. ASSUME Describes(request, order) PROVE Accepted(request, order)
  <2>1. PICK read \in SUBSET cns :
           /\ \A cn \in cns \ read : \E v \in ToSet(names) : Lower(v.text) = Lower(cn)
           /\ \A cn \in read : Valid(AsDNS(cn))
           /\ Keys(names) \cup {KeyOf(cn) : cn \in read} = Keys(order)
    BY <1>6, <1>9
  <2>2. \A cn \in counted : cn \in cns /\ KeyOf(cn) \in Keys(order)
    BY <1>3, <1>4, <2>1
  <2>3. \A k \in Keys(order) \ Keys(names) : \E cn \in counted : KeyOf(cn) = k
    BY <1>3, <2>1
  <2>4. Keys(names) \subseteq Keys(order)
    BY <2>1
  <2> QED
    BY <1>5, <1>6, <1>7, <1>9, <2>2, <2>3, <2>4
<1> QED
  BY <1>8, <1>9 DEF request

\* The same for the CSRs there are.
LEMMA Binding ==
    ASSUME NEW request \in [cns : SUBSET Text, sans : Seq(WireIdentifier)],
           NEW order \in Seq(WireIdentifier), \A v \in ToSet(order) : Valid(v)
    PROVE  Accepted(request, order) <=> Describes(request, order)
<1>1. request = [cns |-> request.cns, sans |-> request.sans]
      /\ request.cns \in SUBSET Text /\ request.sans \in Seq(WireIdentifier)
  OBVIOUS
<1> QED
  BY <1>1, AcceptedIfDescribes

\* The CSR the client makes has the type of a CSR.
LEMMA GeneratedFacts ==
    ASSUME NEW values \in Seq(WireIdentifier), values # <<>>
    PROVE  GeneratedCSR(values) \in [cns : SUBSET Text, sans : Seq(WireIdentifier)]
<1>1. values[1].text \in Text
  BY Elements, KeyFacts
<1> QED
  BY <1>1 DEF GeneratedCSR

\* Every step binds the CSR to the order it was sent for.
LEMMA BindingStep ==
    Origin /\ CSRIsCurrent /\ CSRBinding /\ [Next]_vars => CSRIsCurrent' /\ CSRBinding'
<1> SUFFICES ASSUME Origin, CSRIsCurrent, CSRBinding, [Next]_vars
             PROVE  CSRIsCurrent' /\ CSRBinding'
  OBVIOUS
<1>1. CASE Ask
  <2>1. csr' = NoCSR /\ wanted' # <<>>
    BY <1>1, RequestFacts DEF Ask, CallIssue
  <2> QED
    BY <2>1 DEF CSRIsCurrent, CSRBinding
<1>2. CASE Authorize
  BY <1>2 DEF Authorize, CSRIsCurrent, CSRBinding
<1>3. CASE Finalize
  <2>1. NamesWanted(asked) /\ asked' = asked /\ authority' = authority
    BY <1>3 DEF Finalize, Origin, UnderWay
  <2>2. Accepted(GeneratedCSR(asked), asked) <=> Describes(GeneratedCSR(asked), asked)
    BY <2>1, Binding, GeneratedFacts DEF NamesWanted
  <2>3. csr' = GeneratedCSR(asked)
        /\ (authority = "lacme" => (pc' # "badCSR" <=> Accepted(GeneratedCSR(asked), asked)))
        /\ pc' \in {"badCSR", "check"}
    BY <1>3 DEF Finalize, Sign
  <2> QED
    BY <2>1, <2>2, <2>3 DEF CSRIsCurrent, CSRBinding
<1>4. CASE CheckAndSave
  <2>1. pc = "check" /\ pc' \in {"idle", "refused"} /\ UNCHANGED <<authority, asked, csr, wanted>>
    BY <1>4 DEF CheckAndSave
  <2>2. wanted # <<>>
    BY <2>1, KeysOfSome DEF Origin, UnderWay, NamesWanted
  <2> QED
    BY <2>1, <2>2 DEF CSRIsCurrent, CSRBinding
<1>5. CASE OtherClient
  <2>1. PICK order \in WireOrders, request \in Requesters :
           /\ csr' = request /\ asked' = order
           /\ IF AcceptedOrder(order) /\ Accepted(request, order)
              THEN pc' = "idle" /\ wanted' = order
              ELSE pc' = IF AcceptedOrder(order) THEN "badCSR" ELSE "malformed"
    BY <1>5 DEF OtherClient, IssuedForOthers
  <2>2. order \in Seq(WireIdentifier)
        /\ request \in [cns : SUBSET Text, sans : Seq(WireIdentifier)]
    BY IdentifiersAssumption
  <2>3. AcceptedOrder(order) => (Accepted(request, order) <=> Describes(request, order))
    BY <2>2, Binding DEF AcceptedOrder
  <2>4. AcceptedOrder(order) => order # <<>>
    BY DEF AcceptedOrder
  <2>5. CSRBinding'
    BY <2>1, <2>3 DEF CSRBinding
  <2> QED
    BY <2>1, <2>4, <2>5 DEF CSRIsCurrent
<1>6. CASE IssueFromCSR
  BY <1>6 DEF IssueFromCSR, IssuedForOthers, CSRIsCurrent, CSRBinding
<1>7. CASE Renew
  <2>1. csr' = NoCSR
    BY <1>7 DEF Renew, CallIssue
  <2> QED
    BY <2>1 DEF CSRIsCurrent, CSRBinding
<1>8. CASE UNCHANGED vars
  BY <1>8 DEF vars, CSRIsCurrent, CSRBinding
<1> QED
  BY <1>1, <1>2, <1>3, <1>4, <1>5, <1>6, <1>7, <1>8 DEF Next

\* The responder signs an order's identifiers if and only if the CSR
\* describes the order, for every CSR and every order.
THEOREM CSRsAreBound == Spec => []CSRBinding
<1>1. Init => CSRIsCurrent /\ CSRBinding
  BY DEF Init, CSRIsCurrent, CSRBinding
<1> QED
  BY <1>1, OriginInit, OriginStep, BindingStep, PTL DEF Spec

-----------------------------------------------------------------------------
(* The order of the values *)

\* From the values of an order and their own texts, a recovery gets the
\* values back as they were: each text takes the first that is left.
LEMMA ExactRecovery ==
    ASSUME NEW values \in Seq(WireIdentifier)
    PROVE  Recovered(Bundle(values, values)) /\ Found(Bundle(values, values)) = values
<1> DEFINE bundle == Bundle(values, values)
           n == Len(values)
           at(i) == Taken(bundle)[i]
           Exact(i) == /\ at(i).ok
                       /\ \A j \in 1..i : at(i).found[j] = values[j]
                       /\ \A j \in 1..(n - i) : at(i).left[j] = values[i + j]
           T == {i \in 0..n : Exact(i)}
<1>1. /\ bundle.sans = values /\ Len(bundle.domains) = n /\ n \in Nat
      /\ \A i \in 1..n : bundle.domains[i] = values[i].text
  BY BundleFacts, TextsFacts
<1>2. \A i \in 1..n : values[i] \in WireIdentifier
  BY Elements
<1> HIDE DEF bundle
<1>3. \A i \in 0..n :
         /\ at(i) \in MatchState
         /\ Len(at(i).left) + Len(at(i).found) = n
         /\ at(i).ok => Len(at(i).found) = i
  BY <1>1, TakenFacts
<1>4. /\ at(0) = [left |-> values, found |-> <<>>, ok |-> TRUE]
      /\ \A i \in 1..n : at(i) = TakeMatch(at(i - 1), values[i].text)
  BY <1>1, TakenDef
<1> HIDE DEF n, at
<1>5. 0 \in T
  <2>1. \A j \in 1..(n - 0) : 0 + j = j
    BY <1>1
  <2>2. Exact(0)
    BY <1>4, <2>1
  <2> QED
    BY <1>1, <2>2
<1>6. ASSUME NEW i \in 1..n, i - 1 \in T PROVE i \in T
  <2> DEFINE before == at(i - 1)
             text == values[i].text
  <2>1. i - 1 \in 0..n /\ n - (i - 1) \in 1..n /\ 1 \in 1..(n - (i - 1)) /\ (i - 1) + 1 = i
    BY <1>1
  <2>2. /\ before.ok
        /\ \A j \in 1..(i - 1) : before.found[j] = values[j]
        /\ \A j \in 1..(n - (i - 1)) : before.left[j] = values[i - 1 + j]
    BY <1>6
  <2>3. /\ before.left \in Seq(WireIdentifier) /\ before.found \in Seq(WireIdentifier)
        /\ before \in MatchState
    BY <1>3, <2>1 DEF MatchState
  <2>4. Len(before.found) = i - 1 /\ Len(before.left) = n - (i - 1)
    <3>1. Len(before.left) \in Nat /\ Len(before.left) + Len(before.found) = n
          /\ Len(before.found) = i - 1
      BY <1>3, <2>1, <2>2, <2>3, LenProperties
    <3>2. \A a \in Nat : a + (i - 1) = n => a = n - (i - 1)
      BY <1>1
    <3> QED
      BY <3>1, <3>2
  <2>5. before.left[1] = values[i]
    BY <2>1, <2>2
  <2>6. Fits(before.left[1], text)
    BY <2>5 DEF Fits
  <2>7. at(i) = TakeMatch(before, text)
    BY <1>4
  <2>8. OneTaken(before, text, at(i), 1)
    <3>1. 1 \in 1..Len(before.left)
      BY <2>1, <2>4
    <3>2. ~ NoneTaken(before, text, at(i))
      BY <2>6, <3>1 DEF NoneTaken
    <3>3. PICK k \in 1..Len(before.left) : OneTaken(before, text, at(i), k)
      BY <2>3, <2>7, <3>2, TakesOne
    <3>4. k <= 1
      BY <2>6, <3>1, <3>3 DEF OneTaken
    <3>5. k = 1
      BY <3>3, <3>4
    <3> QED
      BY <3>3, <3>5
  <2> HIDE DEF before, text
  <2>9. /\ at(i).ok /\ at(i).left = RemoveAt(before.left, 1)
        /\ at(i).found = Append(before.found, values[i])
    BY <2>2, <2>5, <2>8 DEF OneTaken
  <2>10. /\ \A j \in 1..(i - 1) : at(i).found[j] = before.found[j]
         /\ at(i).found[i] = values[i]
    <3>1. /\ \A j \in 1..Len(before.found) : Append(before.found, values[i])[j] = before.found[j]
          /\ Append(before.found, values[i])[Len(before.found) + 1] = values[i]
      BY <1>2, <2>3, AppendedFacts
    <3> QED
      BY <2>1, <2>4, <2>9, <3>1
  <2>11. \A j \in 1..(n - i) : at(i).left[j] = before.left[j + 1]
    <3>1. 1 \in 1..Len(before.left)
      BY <2>1, <2>4
    <3>2. \A j \in 1..(Len(before.left) - 1) :
             RemoveAt(before.left, 1)[j] = IF j < 1 THEN before.left[j] ELSE before.left[j + 1]
      BY <2>3, <3>1, RemovedFacts
    <3>3. Len(before.left) - 1 = n - i
      BY <1>1, <2>4
    <3>4. \A j \in 1..(n - i) : ~ (j < 1)
      BY <1>1
    <3> QED
      BY <2>9, <3>2, <3>3, <3>4
  <2>12. \A j \in 1..i : at(i).found[j] = values[j]
    <3>1. \A j \in 1..i : j = i \/ j \in 1..(i - 1)
      OBVIOUS
    <3> QED
      BY <2>2, <2>10, <3>1 DEF before
  <2>13. \A j \in 1..(n - i) : at(i).left[j] = values[i + j]
    <3>1. ASSUME NEW j \in 1..(n - i) PROVE at(i).left[j] = values[i + j]
      <4>1. j + 1 \in 1..(n - (i - 1)) /\ (i - 1) + (j + 1) = i + j
        BY <1>1
      <4>2. before.left[j + 1] = values[(i - 1) + (j + 1)]
        BY <2>2, <4>1
      <4> QED
        BY <2>11, <4>1, <4>2
    <3> QED
      BY <3>1
  <2>14. i \in 0..n
    BY <1>1
  <2>15. Exact(i)
    BY <2>9, <2>12, <2>13
  <2> QED
    BY <2>14, <2>15
<1> HIDE DEF T
<1>7. n \in T
  <2>1. \A i \in 1..n : i - 1 \in T => i \in T
    BY <1>6
  <2>2. \A i \in 0..n : i \in T
    BY <1>1, <1>5, <2>1, AllUpTo
  <2> QED
    BY <1>1, <2>2
<1>8. Exact(n) /\ n \in 0..n
  BY <1>7 DEF T
<1>9. /\ at(n).found \in Seq(WireIdentifier) /\ at(n).left \in Seq(WireIdentifier)
      /\ Len(at(n).found) = n /\ Len(at(n).left) + n = n
  BY <1>3, <1>8 DEF MatchState
<1>10. Len(at(n).left) = 0
  BY <1>1, <1>9, LenProperties
<1>11. at(n).left = <<>>
  BY <1>9, <1>10, Elements
<1>12. at(n).found = values
  BY <1>8, <1>9, SeqEqual DEF n
<1>13. Recovery(bundle) = at(n)
  BY <1>1 DEF Recovery, at
<1> QED
  BY <1>8, <1>11, <1>12, <1>13 DEF Recovered, Found, bundle

\* Canonical values are different from each other, and fit texts that are
\* equal to theirs only.
LEMMA CanonicalFacts ==
    ASSUME NEW values \in Seq(WireIdentifier), Canonical(values)
    PROVE  /\ \A i, j \in 1..Len(values) : values[i] = values[j] => i = j
           /\ \A v \in ToSet(values) : v = Key(v)
           /\ Keys(values) = ToSet(values)
           /\ \A v, w \in ToSet(values) : Fits(v, w.text) <=> v.text = w.text
<1> DEFINE n == Len(values)
<1>1. /\ n \in Nat /\ DOMAIN values = 1..n /\ \A i \in 1..n : values[i] \in WireIdentifier
      /\ ToSet(values) = {values[i] : i \in 1..n} /\ ToSet(values) \subseteq WireIdentifier
      /\ values \in [1..n -> WireIdentifier]
  BY Elements, LenProperties
<1>2. \A i \in 1..n : values[i] = Key(values[i])
  BY <1>1 DEF Canonical
<1>3. \A v \in ToSet(values) : v = Key(v)
  BY <1>1, <1>2
<1>4. Keys(values) = ToSet(values)
  BY <1>3 DEF Keys
<1> HIDE DEF n
<1>5. Cardinality(ToSet(values)) = n
  BY <1>4 DEF Canonical, n
<1>6. values \in Surjection(1..n, ToSet(values))
  BY <1>1 DEF Surjection
<1>7. IsFiniteSet(1..n) /\ Cardinality(1..n) = n
  <2>1. 1 \in Int /\ n \in Int
    BY <1>1
  <2>2. IsFiniteSet(1..n) /\ Cardinality(1..n) = IF 1 > n THEN 0 ELSE n - 1 + 1
    BY <2>1, FS_Interval
  <2> QED
    BY <1>1, <2>2
<1>8. values \in Injection(1..n, ToSet(values))
  BY <1>5, <1>6, <1>7, FS_SurjSameCardinalityImpliesInj
<1>9. \A i, j \in 1..n : values[i] = values[j] => i = j
  BY <1>8 DEF Injection, IsInjective
<1>10. ASSUME NEW v \in ToSet(values), NEW w \in ToSet(values)
       PROVE  Fits(v, w.text) <=> v.text = w.text
  <2>1. Lower(v.text) = v.text /\ Lower(w.text) = w.text
    BY <1>1, <1>3, KeyFacts
  <2> QED
    BY <2>1 DEF Fits
<1> QED
  BY <1>3, <1>4, <1>9, <1>10 DEF n

\* Two values that are supported and have the same text, and a third: two of
\* them are equal.
LEMMA TwoPerText ==
    ASSUME NEW u \in WireIdentifier, NEW v \in WireIdentifier, NEW w \in WireIdentifier,
           Valid(u), Valid(v), Valid(w), u.text = v.text, v.text = w.text
    PROVE  u = v \/ v = w \/ u = w
<1>1. u.type \in {"dns", "ip"} /\ v.type \in {"dns", "ip"} /\ w.type \in {"dns", "ip"}
  BY DEF Valid
<1>2. /\ u = [type |-> u.type, text |-> u.text]
      /\ v = [type |-> v.type, text |-> v.text]
      /\ w = [type |-> w.type, text |-> w.text]
  BY DEF WireIdentifier
<1> QED
  BY <1>1, <1>2

\* From the values asked for in any order, and their texts in the order of
\* the request, a recovery gets back every value, in the order of the texts:
\* no value is taken for a text that another one will need.
LEMMA ArrangedRecovery ==
    ASSUME wanted \in Seq(WireIdentifier), Canonical(wanted),
           \A v \in ToSet(wanted) : Valid(v),
           NEW bundle, bundle.domains = Texts(wanted), Arranged(bundle.sans)
    PROVE  /\ Recovered(bundle)
           /\ Arranged(Found(bundle)) /\ Texts(Found(bundle)) = Texts(wanted)
<1> DEFINE n == Len(wanted)
           at(i) == Taken(bundle)[i]
           T == {i \in 0..n : at(i).ok}
<1>1. /\ n \in Nat /\ \A i \in 1..n : wanted[i] \in WireIdentifier
      /\ ToSet(wanted) = {wanted[i] : i \in 1..n}
  BY Elements
<1>2. /\ Len(bundle.domains) = n /\ \A i \in 1..n : bundle.domains[i] = wanted[i].text
      /\ bundle.sans \in Seq(WireIdentifier) /\ Len(bundle.sans) = n
      /\ ToSet(bundle.sans) = ToSet(wanted)
  BY TextsFacts DEF Arranged
<1>3. /\ \A i, j \in 1..n : wanted[i] = wanted[j] => i = j
      /\ \A v, w \in ToSet(wanted) : Fits(v, w.text) <=> v.text = w.text
  BY CanonicalFacts
<1>4. \A i \in 0..n :
         /\ at(i) \in MatchState
         /\ ToSet(at(i).left) \cup ToSet(at(i).found) = ToSet(wanted)
         /\ Len(at(i).left) + Len(at(i).found) = n
         /\ at(i).ok => /\ Len(at(i).found) = i
                        /\ \A j \in 1..i : Fits(at(i).found[j], wanted[j].text)
  <2>1. ASSUME NEW i \in 0..Len(bundle.domains)
        PROVE  /\ at(i) \in MatchState
               /\ ToSet(at(i).left) \cup ToSet(at(i).found) = ToSet(bundle.sans)
               /\ Len(at(i).left) + Len(at(i).found) = Len(bundle.sans)
               /\ at(i).ok => /\ Len(at(i).found) = i
                              /\ \A j \in 1..i : Fits(at(i).found[j], bundle.domains[j])
    BY <1>1, <1>2, TakenFacts
  <2> HIDE DEF n, at
  <2>2. \A i \in 0..n : \A j \in 1..i : bundle.domains[j] = wanted[j].text
    BY <1>1, <1>2
  <2> QED
    BY <1>2, <2>1, <2>2
<1>5. /\ at(0).ok
      /\ \A i \in 1..n : at(i) = TakeMatch(at(i - 1), wanted[i].text)
  <2>1. Len(bundle.domains) \in Nat
    BY <1>1, <1>2
  <2>2. /\ at(0) = [left |-> bundle.sans, found |-> <<>>, ok |-> TRUE]
        /\ \A i \in 1..Len(bundle.domains) : at(i) = TakeMatch(at(i - 1), bundle.domains[i])
    BY <2>1, TakenDef
  <2> HIDE DEF n, at
  <2> QED
    BY <1>2, <2>2
<1> HIDE DEF n, at
<1>6. ASSUME NEW i \in 1..n, i - 1 \in T PROVE i \in T
  <2> DEFINE before == at(i - 1)
             text == wanted[i].text
  <2>1. i - 1 \in 0..n /\ i \in 0..n
    BY <1>1
  <2>2. before.ok /\ before \in MatchState /\ at(i) = TakeMatch(before, text)
    BY <1>4, <1>5, <1>6, <2>1
  <2>3. /\ before.left \in Seq(WireIdentifier) /\ before.found \in Seq(WireIdentifier)
        /\ Len(before.found) = i - 1
        /\ \A j \in 1..(i - 1) : Fits(before.found[j], wanted[j].text)
        /\ ToSet(before.left) \cup ToSet(before.found) = ToSet(wanted)
    BY <1>4, <2>1, <2>2 DEF MatchState
  <2>4. /\ ToSet(before.left) = {before.left[j] : j \in 1..Len(before.left)}
        /\ ToSet(before.found) = {before.found[j] : j \in 1..(i - 1)}
    BY <2>3, Elements
  <2> HIDE DEF before
  <2>5. ASSUME NoneTaken(before, text, at(i)) PROVE FALSE
    <3>1. \A j \in 1..Len(before.left) : ~ Fits(before.left[j], text)
      BY <2>5 DEF NoneTaken
    <3>2. ASSUME NEW k \in 1..n, wanted[k].text = text
          PROVE  \E j \in 1..(i - 1) : before.found[j] = wanted[k] /\ wanted[j].text = text
      <4>1. wanted[k] \in ToSet(wanted) /\ Fits(wanted[k], text)
        BY <1>1, <3>2 DEF Fits
      <4>2. wanted[k] \notin ToSet(before.left)
        BY <2>4, <3>1, <4>1
      <4>3. PICK j \in 1..(i - 1) : before.found[j] = wanted[k]
        BY <2>3, <2>4, <4>1, <4>2
      <4>4. j \in 1..n
        BY <1>1
      <4>5. Fits(wanted[k], wanted[j].text) /\ wanted[j] \in ToSet(wanted)
        BY <1>1, <2>3, <4>3, <4>4
      <4>6. wanted[k].text = wanted[j].text
        BY <1>3, <4>1, <4>5
      <4> QED
        BY <3>2, <4>3, <4>6
    <3>3. PICK j0 \in 1..(i - 1) : before.found[j0] = wanted[i] /\ wanted[j0].text = text
      BY <3>2
    <3>4. j0 \in 1..n /\ j0 # i
      BY <1>1
    <3>5. PICK j1 \in 1..(i - 1) : before.found[j1] = wanted[j0] /\ wanted[j1].text = text
      BY <3>2, <3>3, <3>4
    <3>6. j1 \in 1..n /\ j1 # i
      BY <1>1
    <3>7. wanted[j0] # wanted[i] /\ wanted[j1] # wanted[i]
      BY <1>3, <3>4, <3>6
    <3>8. wanted[j0] # wanted[j1]
      BY <1>3, <3>3, <3>4, <3>5, <3>6, <3>7
    <3>9. Valid(wanted[i]) /\ Valid(wanted[j0]) /\ Valid(wanted[j1])
      BY <1>1, <3>4, <3>6
    <3> QED
      BY <1>1, <3>3, <3>4, <3>5, <3>6, <3>7, <3>8, <3>9, TwoPerText
  <2>6. PICK k \in 1..Len(before.left) : OneTaken(before, text, at(i), k)
    BY <2>2, <2>5, TakesOne
  <2>7. at(i).ok
    BY <2>2, <2>6 DEF OneTaken
  <2> QED
    BY <2>1, <2>7
<1>7. n \in T
  <2>1. 0 \in T
    BY <1>1, <1>5
  <2>2. \A i \in 1..n : i - 1 \in T => i \in T
    BY <1>6
  <2> HIDE DEF T
  <2>3. \A i \in 0..n : i \in T
    BY <1>1, <2>1, <2>2, AllUpTo
  <2> QED
    BY <1>1, <2>3
<1>8. at(n).ok /\ Len(at(n).found) = n /\ Len(at(n).left) + Len(at(n).found) = n
      /\ at(n).left \in Seq(WireIdentifier)
  BY <1>4, <1>7 DEF MatchState
<1>9. at(n).left = <<>>
  BY <1>1, <1>8, Elements
<1>10. Recovered(bundle)
  BY <1>2, <1>8, <1>9 DEF Recovered, Recovery, at
<1>11. /\ Found(bundle) \in Seq(WireIdentifier) /\ Len(Found(bundle)) = n
       /\ ToSet(Found(bundle)) = ToSet(wanted)
       /\ \A j \in 1..n : Fits(Found(bundle)[j], wanted[j].text)
  BY <1>1, <1>2, <1>10, RecoveredFacts
<1>12. Arranged(Found(bundle))
  BY <1>11 DEF Arranged, n
<1>13. \A j \in 1..n : Found(bundle)[j] \in ToSet(wanted) /\ wanted[j] \in ToSet(wanted)
  <2>1. ToSet(Found(bundle)) = {Found(bundle)[j] : j \in 1..n}
    BY <1>11, Elements
  <2> QED
    BY <1>1, <1>11, <2>1
<1>14. \A j \in 1..n : Found(bundle)[j].text = wanted[j].text
  BY <1>3, <1>11, <1>13
<1>15. /\ Texts(wanted) \in Seq(Text) /\ Len(Texts(wanted)) = n
       /\ \A j \in 1..n : Texts(wanted)[j] = wanted[j].text
  BY TextsFacts DEF n
<1>16. /\ Texts(Found(bundle)) \in Seq(Text) /\ Len(Texts(Found(bundle))) = n
       /\ \A j \in 1..n : Texts(Found(bundle))[j] = Found(bundle)[j].text
  BY <1>11, TextsFacts
<1>17. Texts(Found(bundle)) = Texts(wanted)
  <2>1. \A j \in 1..n : Texts(Found(bundle))[j] = Texts(wanted)[j]
    BY <1>14, <1>15, <1>16
  <2> HIDE DEF n
  <2> QED
    BY <1>15, <1>16, <2>1, SeqEqual
<1> QED
  BY <1>10, <1>12, <1>17

\* A public authority certifies canonical values as they are, in some order.
LEMMA PublicArranges ==
    ASSUME wanted \in Seq(WireIdentifier), Canonical(wanted), authority = "public",
           NEW order \in Seq(WireIdentifier), Keys(order) = Keys(wanted),
           NEW names \in Certified(order)
    PROVE  Arranged(names)
<1> DEFINE S == Keys(wanted)
           n == Len(wanted)
<1>1. Cardinality(S) = n /\ n \in Nat /\ S = ToSet(wanted) /\ S \subseteq WireIdentifier
  BY CanonicalFacts, KeysFinite, Elements DEF Canonical
<1>2. IsFiniteSet(S)
  BY KeysFinite
<1>3. names \in SetToSeqs(S)
  BY DEF Certified
<1> HIDE DEF S, n
<1>4. names \in [1..n -> S] /\ IsInjective(names)
  <2>1. names \in {f \in [1..n -> S] : \A i, j \in 1..n : i # j => f[i] # f[j]}
    BY <1>1, <1>3 DEF SetToSeqs
  <2> QED
    BY <2>1 DEF IsInjective
<1>5. DOMAIN names = 1..n
  BY <1>4
<1>6. names \in Injection(1..n, S)
  BY <1>4, <1>5 DEF Injection, IsInjective
<1>7. Cardinality(1..n) = n
  <2>1. 1 \in Int /\ n \in Int
    BY <1>1
  <2>2. Cardinality(1..n) = IF 1 > n THEN 0 ELSE n - 1 + 1
    BY <2>1, FS_Interval
  <2> QED
    BY <1>1, <2>2
<1>8. names \in Surjection(1..n, S)
  BY <1>1, <1>2, <1>6, <1>7, FS_Injection
<1>9. names \in Seq(WireIdentifier) /\ Len(names) = n
  BY <1>1, <1>4
<1>10. ToSet(names) = S
  <2>1. ToSet(names) = {names[i] : i \in 1..n}
    BY <1>9, Elements
  <2>2. \A x \in S : \E i \in 1..n : names[i] = x
    BY <1>8 DEF Surjection
  <2>3. \A i \in 1..n : names[i] \in S
    BY <1>4
  <2> QED
    BY <2>1, <2>2, <2>3
<1> QED
  BY <1>1, <1>9, <1>10 DEF Arranged, n

\* The responder accepts the CSR the client makes: the common name is the
\* text of a SAN, and is read as a DNS name only if it is one of the order.
LEMMA GeneratedAccepted ==
    ASSUME NEW values, NamesWanted(values)
    PROVE  Accepted(GeneratedCSR(values), values)
<1> DEFINE request == GeneratedCSR(values)
           counted == {AsDNS(cn) : cn \in CountedNames(request, values)}
<1>1. /\ values \in Seq(WireIdentifier) /\ values # <<>>
      /\ \A v \in ToSet(values) : Valid(v)
      /\ values[1] \in ToSet(values)
  BY Elements DEF NamesWanted
<1>2. request.cns = {values[1].text} /\ request.sans = values
  BY DEF GeneratedCSR
<1> HIDE DEF request
<1>3. CountedNames(request, values) = {}
  BY <1>1, <1>2 DEF CountedNames
<1>4. counted = {}
  BY <1>3
<1> QED
  BY <1>1, <1>2, <1>4 DEF Accepted, request

\* What a recovery gets back, in what order.
LEMMA RecoveredInOrder ==
    ASSUME Origin, OrderKept, NEW key \in DOMAIN store
    PROVE  /\ authority = "lacme" => Recovered(store[key]) /\ Found(store[key]) = wanted
           /\ authority = "public" /\ Canonical(wanted) =>
                 /\ Recovered(store[key])
                 /\ Arranged(Found(store[key]))
                 /\ Texts(Found(store[key])) = Texts(wanted)
<1>1. wanted \in Seq(WireIdentifier) /\ NamesWanted(store[key].sans)
  BY DEF Origin
<1>2. CASE authority = "lacme"
  <2>1. store[key] = Bundle(wanted, wanted)
    BY <1>2 DEF OrderKept
  <2> QED
    BY <1>1, <1>2, <2>1, ExactRecovery
<1>3. CASE authority = "public" /\ Canonical(wanted)
  <2>1. store[key].domains = Texts(wanted) /\ Arranged(store[key].sans)
    BY <1>3 DEF OrderKept
  <2>2. \A v \in ToSet(wanted) : Valid(v)
    BY <1>1, <2>1 DEF Arranged, NamesWanted
  <2> QED
    BY <1>1, <1>3, <2>1, <2>2, ArrangedRecovery
<1> QED
  BY <1>2, <1>3

\* Two sequences of values with the same texts start with the same.
LEMMA SameFirst ==
    ASSUME NEW s \in Seq(WireIdentifier), NEW t \in Seq(WireIdentifier),
           s # <<>>, t # <<>>, Texts(s) = Texts(t)
    PROVE  s[1].text = t[1].text
<1>1. 1 \in 1..Len(s) /\ 1 \in 1..Len(t)
  BY Elements
<1> QED
  BY <1>1, TextsFacts

\* A certificate for another client of the responder is the first stored.
LEMMA OrderOfOthers ==
    ASSUME Origin, wanted = <<>>, authority = "lacme", authority' = authority,
           NEW names, IssuedForOthers(names, names)
    PROVE  OrderKept' /\ StoredUnderItsName'
<1>1. /\ wanted' = names /\ asked' = names /\ pc' = "idle"
      /\ Save(names, names)
  BY DEF IssuedForOthers
<1>2. DOMAIN store = {}
  BY EmptySeq, LenProperties DEF Origin
<1>3. \A k \in DOMAIN store' : k = names[1].text /\ store'[k] = Bundle(names, names)
  <2>1. \A k \in DOMAIN store' :
           \/ k \in DOMAIN store /\ store'[k] = store[k]
           \/ k = names[1].text /\ store'[k] = Bundle(names, names)
    BY <1>1, SavedFacts
  <2> QED
    BY <1>2, <2>1
<1> QED
  BY <1>1, <1>3 DEF OrderKept, StoredUnderItsName, UnderWay

\* Every step keeps the order of the values.
LEMMA OrderKeptStep == Origin /\ OrderKept /\ [Next]_vars => OrderKept'
<1> SUFFICES ASSUME Origin, OrderKept, [Next]_vars PROVE OrderKept'
  OBVIOUS
<1>0. authority' = authority /\ authority \in Authorities /\ wanted \in Seq(WireIdentifier)
  BY ChosenOnce DEF Origin
<1>1. CASE Ask
  <2>1. PICK values \in Requests :
           wanted = <<>> /\ wanted' = values /\ asked' = values /\ store' = store /\ pc' # "check"
    BY <1>1 DEF Ask, CallIssue
  <2>2. DOMAIN store' = {} /\ values \in Seq(WireIdentifier)
    BY <2>1, RequestFacts, EmptySeq, LenProperties DEF Origin
  <2> QED
    BY <2>1, <2>2 DEF OrderKept, Arranged
<1>2. CASE Authorize
  <2>1. pc = "authorize" /\ pc' # "check" /\ UNCHANGED <<wanted, asked, store>>
    BY <1>2 DEF Authorize
  <2> QED
    BY <1>0, <2>1 DEF OrderKept, UnderWay, Arranged, Canonical, Keys
<1>3. CASE Finalize
  <2>1. pc = "finalize" /\ UNCHANGED <<wanted, asked, store>>
        /\ (pc' = "check" => sans' \in Certified(asked))
    BY <1>3 DEF Finalize, Sign
  <2>2. NamesWanted(asked)
    BY <2>1 DEF Origin, UnderWay
  <2>3. pc' = "check" /\ authority = "lacme" => sans' = wanted
    BY <2>1 DEF Certified, OrderKept, UnderWay
  <2>4. pc' = "check" /\ authority = "public" /\ Canonical(wanted) => Arranged(sans')
    BY <1>0, <2>1, <2>2, PublicArranges DEF NamesWanted
  <2> QED
    BY <1>0, <2>1, <2>3, <2>4 DEF OrderKept, UnderWay, Arranged, Canonical, Keys
<1>4. CASE CheckAndSave
  <2>1. pc = "check" /\ UNCHANGED <<wanted, asked>> /\ pc' \in {"idle", "refused"}
        /\ (store' = store \/ Save(asked, sans))
    BY <1>4 DEF CheckAndSave
  <2>2. NamesWanted(asked)
    BY <2>1 DEF Origin, UnderWay
  <2>3. asked \in Seq(WireIdentifier) /\ asked # <<>> /\ wanted # <<>>
    BY <1>0, <2>2, KeysOfSome DEF NamesWanted
  <2>4. \A k \in DOMAIN store' :
           \/ k \in DOMAIN store /\ store'[k] = store[k]
           \/ k = asked[1].text /\ store'[k] = Bundle(asked, sans)
    BY <2>1, SavedFacts
  <2>5. CASE authority = "lacme"
    <3>1. asked = wanted /\ sans = wanted
      BY <2>1, <2>5 DEF OrderKept, UnderWay
    <3> QED
      BY <1>0, <2>1, <2>4, <2>5, <3>1 DEF OrderKept, UnderWay
  <2>6. CASE authority = "public" /\ Canonical(wanted)
    <3>1. Texts(asked) = Texts(wanted) /\ Arranged(sans)
      BY <2>1, <2>6 DEF OrderKept, UnderWay
    <3>2. asked[1].text = wanted[1].text
      BY <1>0, <2>3, <3>1, SameFirst
    <3>3. Bundle(asked, sans).domains = Texts(wanted) /\ Bundle(asked, sans).sans = sans
      BY <2>3, <3>1, BundleFacts
    <3> QED
      BY <1>0, <2>1, <2>4, <2>6, <3>1, <3>2, <3>3 DEF OrderKept, UnderWay, Arranged
  <2>7. Canonical(wanted)' <=> Canonical(wanted)
    BY <2>1 DEF Canonical, Keys
  <2> QED
    BY <1>0, <2>1, <2>5, <2>6, <2>7 DEF OrderKept
<1>5. CASE OtherClient
  <2>1. PICK order \in WireOrders :
           /\ wanted = <<>> /\ authority = "lacme"
           /\ \/ IssuedForOthers(order, order)
              \/ pc' \in {"badCSR", "malformed"} /\ UNCHANGED <<wanted, store>>
    BY <1>5 DEF OtherClient
  <2>2. CASE IssuedForOthers(order, order)
    BY <1>0, <2>1, <2>2, OrderOfOthers
  <2>3. CASE pc' \in {"badCSR", "malformed"} /\ UNCHANGED <<wanted, store>>
    BY <1>0, <2>1, <2>3 DEF OrderKept, UnderWay
  <2> QED
    BY <2>1, <2>2, <2>3
<1>6. CASE IssueFromCSR
  <2>1. /\ wanted = <<>> /\ authority = "lacme"
        /\ \/ \E names : IssuedForOthers(names, names)
           \/ pc' = "refused" /\ UNCHANGED <<wanted, store>>
    BY <1>6 DEF IssueFromCSR
  <2>2. ASSUME NEW names, IssuedForOthers(names, names) PROVE OrderKept'
    BY <1>0, <2>1, <2>2, OrderOfOthers
  <2>3. CASE pc' = "refused" /\ UNCHANGED <<wanted, store>>
    BY <1>0, <2>1, <2>3 DEF OrderKept, UnderWay
  <2> QED
    BY <2>1, <2>2, <2>3
<1>7. CASE Renew
  <2>1. PICK key \in DOMAIN store :
           /\ wanted' = wanted /\ pc' # "check"
           /\ \/ pc' = "unrecovered" /\ store' = store
              \/ asked' = Found(store[key]) /\ store' = store
              \/ /\ authority = "lacme" /\ pc' = "idle"
                 /\ asked' = Found(store[key])
                 /\ Save(Found(store[key]), Found(store[key]))
    BY <1>7 DEF Renew, CallIssue, Found
  <2>2. /\ authority = "lacme" => Found(store[key]) = wanted
        /\ authority = "public" /\ Canonical(wanted) =>
              Arranged(Found(store[key])) /\ Texts(Found(store[key])) = Texts(wanted)
    BY RecoveredInOrder
  <2>3. Canonical(wanted)' <=> Canonical(wanted)
    BY <2>1 DEF Canonical, Keys
  <2>4. \A k \in DOMAIN store' :
           \/ k \in DOMAIN store /\ store'[k] = store[k]
           \/ /\ authority = "lacme" /\ k = wanted[1].text
              /\ store'[k] = Bundle(wanted, wanted)
    <3>1. CASE store' = store
      BY <3>1
    <3>2. CASE authority = "lacme" /\ Save(Found(store[key]), Found(store[key]))
      <4>1. Save(wanted, wanted)
        BY <2>2, <3>2
      <4> QED
        BY <3>2, <4>1, SavedFacts
    <3> QED
      BY <2>1, <3>1, <3>2
  <2>5. UnderWay' => asked' = Found(store[key])
    BY <2>1 DEF UnderWay
  <2> HIDE DEF Found
  <2> QED
    BY <1>0, <2>1, <2>2, <2>3, <2>4, <2>5 DEF OrderKept, Arranged
<1>8. CASE UNCHANGED vars
  BY <1>8 DEF vars, OrderKept, UnderWay, Arranged, Canonical, Keys
<1> QED
  BY <1>1, <1>2, <1>3, <1>4, <1>5, <1>6, <1>7, <1>8 DEF Next

\* A challenge type that suits a value suits all with its key.
LEMMA SuitableKeys ==
    ASSUME NEW v \in WireIdentifier, NEW w \in WireIdentifier, Key(v) = Key(w), NEW type
    PROVE  Suitable(v, type) <=> Suitable(w, type)
<1>1. v.type = w.type /\ (IsWildcard(v) <=> IsWildcard(w))
  BY KeyFacts
<1> QED
  BY <1>1 DEF Suitable

\* While what was asked for first stays, it stays regular, or not.
LEMMA RegularStays ==
    ASSUME authority' = authority, renewalType' = renewalType, wanted' = wanted
    PROVE  Regular' <=> Regular
BY DEF Regular, Keys

\* Every step of a regular order ends in a certificate stored under its name.
LEMMA ReplacesStep ==
    Origin /\ OrderKept /\ RenewalReplaces /\ [Next]_vars => RenewalReplaces'
<1> SUFFICES ASSUME Origin, OrderKept, RenewalReplaces, [Next]_vars, store' # <<>>, Regular'
             PROVE  StoredUnderItsName' /\ pc' \notin {"unrecovered", "refused", "badCSR"}
  BY DEF RenewalReplaces
<1>0. authority' = authority /\ renewalType' = renewalType /\ wanted \in Seq(WireIdentifier)
  BY ChosenOnce DEF Origin
<1>1. wanted = <<>> => store = <<>> /\ DOMAIN store = {}
  BY EmptySeq, LenProperties DEF Origin
<1>2. ASSUME wanted' = wanted, wanted # <<>> PROVE StoredUnderItsName'
  <2>1. OrderKept'
    BY OrderKeptStep
  <2>2. Regular
    BY <1>0, <1>2, RegularStays
  <2>3. authority = "lacme" \/ (authority = "public" /\ Canonical(wanted))
    BY <2>2 DEF Regular, Canonical
  <2>4. Canonical(wanted)' <=> Canonical(wanted)
    BY <1>2 DEF Canonical, Keys
  <2> QED
    BY <1>0, <1>2, <2>1, <2>3, <2>4 DEF OrderKept, StoredUnderItsName
<1>3. CASE Ask
  <2>1. wanted = <<>> /\ store' = store
    BY <1>3 DEF Ask
  <2> QED
    BY <1>1, <2>1
<1>4. CASE Authorize
  <2>1. /\ pc = "authorize" /\ UNCHANGED <<wanted, asked, store>>
        /\ \/ pc' = "finalize"
           \/ /\ \/ authority = "wrong"
                 \/ ~ {RoutingKey(a) : a \in {Authorization(v) : v \in ToSet(asked)}}
                       \subseteq Keys(asked)
              /\ pc' = "refused"
    BY <1>4 DEF Authorize
  <2>2. NamesWanted(asked)
    BY <2>1 DEF Origin, UnderWay
  <2>3. {RoutingKey(a) : a \in {Authorization(v) : v \in ToSet(asked)}} = Keys(asked)
    BY <2>2, RoutedFacts DEF NamesWanted
  <2>4. authority # "wrong"
    BY <1>0 DEF Regular
  <2>5. pc' = "finalize"
    BY <2>1, <2>3, <2>4
  <2> QED
    BY <1>0, <1>1, <1>2, <2>1, <2>5
<1>5. CASE Finalize
  <2>1. /\ pc = "finalize" /\ UNCHANGED <<wanted, asked, store>>
        /\ \/ ~ Accepted(GeneratedCSR(asked), asked)
           \/ pc' = "check"
    BY <1>5 DEF Finalize, Sign
  <2>2. NamesWanted(asked)
    BY <2>1 DEF Origin, UnderWay
  <2>3. pc' = "check"
    BY <2>1, <2>2, GeneratedAccepted
  <2> QED
    BY <1>1, <1>2, <2>1, <2>3
<1>6. CASE CheckAndSave
  <2>1. pc = "check" /\ UNCHANGED <<wanted, asked>>
        /\ (Matches(sans, asked) => pc' = "idle")
    BY <1>6 DEF CheckAndSave
  <2>2. NamesWanted(asked)
    BY <2>1 DEF Origin, UnderWay
  <2>3. wanted # <<>>
    BY <1>0, <2>2, KeysOfSome DEF NamesWanted
  <2>4. Regular
    BY <1>0, <2>1, RegularStays
  <2>5. sans = asked \/ (Arranged(sans) /\ Arranged(asked))
    BY <2>1, <2>4 DEF Regular, Canonical, OrderKept, UnderWay
  <2>6. sans # <<>> /\ ToSet(sans) = ToSet(asked)
    <3>1. CASE Arranged(sans) /\ Arranged(asked)
      <4>1. Len(sans) # 0
        BY <1>0, <2>3, <3>1, Elements DEF Arranged
      <4>2. sans # <<>>
        BY <3>1, <4>1, Elements DEF Arranged
      <4> QED
        BY <3>1, <4>2 DEF Arranged
    <3> QED
      BY <2>2, <2>5, <3>1 DEF NamesWanted
  <2>7. Matches(sans, asked)
    BY <2>2, <2>6 DEF Matches, NamesWanted, Keys
  <2> QED
    BY <1>2, <2>1, <2>3, <2>7
<1>7. CASE OtherClient
  <2>1. PICK order \in WireOrders :
           /\ wanted = <<>> /\ authority = "lacme"
           /\ IssuedForOthers(order, order) \/ store' = store
    BY <1>7 DEF OtherClient
  <2>2. IssuedForOthers(order, order)
    BY <1>1, <2>1
  <2>3. pc' = "idle"
    BY <2>2 DEF IssuedForOthers
  <2> QED
    BY <1>0, <2>1, <2>2, <2>3, OrderOfOthers
<1>8. CASE IssueFromCSR
  <2>1. /\ wanted = <<>> /\ authority = "lacme"
        /\ (\E names : IssuedForOthers(names, names)) \/ store' = store
    BY <1>8 DEF IssueFromCSR
  <2>2. PICK names : IssuedForOthers(names, names)
    BY <1>1, <2>1
  <2>3. pc' = "idle"
    BY <2>2 DEF IssuedForOthers
  <2> QED
    BY <1>0, <2>1, <2>2, <2>3, OrderOfOthers
<1>9. CASE Renew
  <2>1. PICK key \in DOMAIN store :
           /\ wanted' = wanted
           /\ \/ ~ Recovered(store[key])
              \/ Recovered(store[key]) /\ pc' = "idle"
              \/ /\ Recovered(store[key])
                 /\ LET values == Found(store[key])
                    IN  pc' = IF \A v \in ToSet(values) :
                                    Suitable(v, [k \in Keys(values) |-> renewalType][Key(v)])
                              THEN "authorize" ELSE "refused"
    BY <1>9 DEF Renew, CallIssue, Found
  <2> DEFINE values == Found(store[key])
  <2>2. Regular /\ wanted # <<>>
    BY <1>0, <1>1, <2>1, RegularStays
  <2>3. Recovered(store[key])
    BY <2>2, RecoveredInOrder DEF Regular, Canonical
  <2>4. NamesWanted(values)
    BY <2>3, RenewedFacts
  <2> HIDE DEF values
  <2>5. values \in Seq(WireIdentifier) /\ ToSet(values) \subseteq WireIdentifier
        /\ ToSet(wanted) \subseteq WireIdentifier
    BY <1>0, <2>4, Elements DEF NamesWanted
  <2>6. ASSUME NEW v \in ToSet(values)
        PROVE  Suitable(v, [k \in Keys(values) |-> renewalType][Key(v)])
    <3>1. Key(v) \in Keys(values) /\ Keys(values) = Keys(wanted)
      BY <2>4 DEF Keys, NamesWanted
    <3>2. PICK w \in ToSet(wanted) : Key(w) = Key(v)
      BY <3>1 DEF Keys
    <3>3. Suitable(w, renewalType)
      BY <2>2 DEF Regular
    <3>4. Suitable(v, renewalType)
      BY <2>5, <3>2, <3>3, SuitableKeys
    <3> QED
      BY <3>1, <3>4
  <2>7. pc' \in {"idle", "authorize"}
    BY <2>1, <2>3, <2>6 DEF values
  <2> QED
    BY <1>2, <2>1, <2>2, <2>7
<1>10. CASE UNCHANGED vars
  BY <1>10 DEF vars, RenewalReplaces, Regular, StoredUnderItsName, Keys
<1> QED
  BY <1>3, <1>4, <1>5, <1>6, <1>7, <1>8, <1>9, <1>10 DEF Next

\* Where the authority renders the order's identifiers one by one, and one
\* challenge type fits them all, every renewal succeeds and replaces the
\* certificate it renews, however often that happens: the bundle's texts and
\* SANs (certificate_bundle_identifier_values) always lead back to the values.
THEOREM RenewalsReplace == Spec => []RenewalReplaces
<1>1. Init => OrderKept /\ RenewalReplaces
  <2>1. Init => pc = "idle" /\ store = <<>> /\ DOMAIN store = {}
    BY EmptySeq, LenProperties DEF Init
  <2> QED
    BY <2>1 DEF OrderKept, RenewalReplaces, UnderWay
<1> QED
  BY <1>1, OriginInit, OriginStep, OrderKeptStep, ReplacesStep, PTL DEF Spec
=============================================================================
