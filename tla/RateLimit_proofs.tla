-------------------------- MODULE RateLimit_proofs --------------------------
(***************************************************************************)
(* Theorems about RateLimit, for any threads, orders, suffixes, limit,     *)
(* windows and scenarios.                                                  *)
(***************************************************************************)
EXTENDS RateLimit, FiniteSetTheorems, SequenceTheorems, WellFoundedInduction, TLAPS

-----------------------------------------------------------------------------
(* Inductive invariants *)

ThreadState == [pc : {"idle", "check", "issue", "issued", "load", "save"},
                names : Orders \cup {{}},
                todo : SUBSET UNION {RegisteredDomains(o) : o \in Orders},
                at : 0..MaxTime, id : Nat, records : SUBSET Record]

\* Record r was made for one of the certificates in certs.
MadeFor(r, certs) ==
    \E i \in certs : i.id = r.id /\ r.domain \in RegisteredDomains(i.names) /\ i.at <= r.at

\* Thread w works on an order, and knows of certificates in certs only; the
\* clock says t.
Plausible(w, certs, t) ==
    /\ w.todo \subseteq RegisteredDomains(w.names)
    /\ w.pc # "idle" => w.names \in Orders
    /\ w.pc \in {"issue", "issued", "load", "save"} => w.names # {}
    /\ w.pc \in {"load", "save"} => w.todo # {}
    /\ w.pc \in {"issued", "load", "save"} =>
          \E i \in certs : /\ i.id = w.id /\ i.names = w.names
                           /\ w.pc # "issued" => i.at <= w.at
    /\ w.at <= t
    /\ \A r \in w.records : MadeFor(r, certs)
    /\ IsFiniteSet(w.records)

\* The bookkeeping of certificates and threads.
Bookkeeping ==
    /\ thread \in [Threads -> ThreadState]
    /\ \A t \in Threads : Plausible(thread[t], issuances, now)
    /\ IsFiniteSet(issuances) /\ IsFiniteSet(file)
    /\ \A i \in issuances : i.id <= Cardinality(issuances)

Exclusive == scenario.shared \/ scenario.serial

\* A thread that is about to write the file has read what is in it, and no
\* other thread is about to write; issuances one after another are alone.
Locked ==
    /\ scenario.serial =>
          \A s, t \in Threads : thread[s].pc # "idle" /\ thread[t].pc # "idle" => s = t
    /\ Exclusive /\ "read" \notin scenario.faults =>
          \A s, t \in Threads : thread[t].pc = "save" =>
              thread[t].records = file /\ (thread[s].pc = "save" => s = t)

\* A thread in state w has a certificate that has not all its records yet.
Recording(w) == w.pc \in {"issued", "load", "save"}

\* A thread in state w has yet to make the records it makes next: r is none
\* of them.
Unmade(w, r) ==
    Recording(w) /\ r.id = w.id => w.pc # "issued" /\ r.domain \notin w.todo

\* No two records are for one domain of one certificate.
Single(records) == \A q, r \in records : q.id = r.id /\ q.domain = r.domain => q = r

\* The file as it is, and as the threads have read it.
Files == {file} \cup {thread[t].records : t \in Threads}

\* Every certificate has its own number.
OwnNumbers == \A i, j \in issuances : i.id = j.id => i = j

\* Every certificate has at most one record for each of its registered
\* domains, and one thread makes them.
OneRecordEach ==
    /\ \A s, t \in Threads :
          Recording(thread[s]) /\ Recording(thread[t]) /\ thread[s].id = thread[t].id => s = t
    /\ \A records \in Files :
          Single(records) /\ \A s \in Threads, r \in records : Unmade(thread[s], r)

Obliging == /\ scenario.block /\ scenario.serial /\ scenario.faults = {}
            /\ scenario.window <= PruneAge

\* Certificates for the registered domain d since a time.
IssuedFor(d, since) == {i \in issuances : d \in RegisteredDomains(i.names) /\ i.at >= since}

\* A thread in state w still has to make the record of certificate i for
\* domain d.
Owes(w, i, d) == Recording(w) /\ w.id = i.id /\ (w.pc # "issued" => d \in w.todo)

\* Every certificate in the window has a record for each of its registered
\* domains, or there is a thread that still has to make it.
RecordsComplete == Obliging =>
    \A i \in issuances : i.at >= Since(scenario.window) =>
        \A d \in RegisteredDomains(i.names) :
            \/ \E r \in file : r.id = i.id /\ r.domain = d /\ r.at >= i.at
            \/ \E t \in Threads : Owes(thread[t], i, d)

\* There is room for the certificate that was checked, and never more than
\* the limit.
WithinLimit == Obliging =>
    /\ \A d \in UNION {RegisteredDomains(o) : o \in Orders} :
          Cardinality(IssuedFor(d, Since(scenario.window))) <= Limit
    /\ \A t \in Threads : \A d \in RegisteredDomains(thread[t].names) :
          thread[t].pc = "issue" \/ (thread[t].pc = "check" /\ d \notin thread[t].todo) =>
              Cardinality(IssuedFor(d, Since(scenario.window))) < Limit
    /\ \A t \in Threads : thread[t].pc = "check" =>
          WindowStart(t) <= Since(scenario.window)
-----------------------------------------------------------------------------
(* The clock and the threads *)

\* The registered domains of all orders.
AllDomains == UNION {RegisteredDomains(o) : o \in Orders}

\* What the type says of single variables, with less to unfold.
LEMMA TypeFacts ==
    ASSUME TypeOK
    PROVE  /\ now \in 0..MaxTime /\ now \in Nat /\ MaxTime \in Nat
           /\ Limit \in Nat /\ PruneAge \in Nat
           /\ scenario.window \in Nat /\ scenario.max \in Nat
           /\ scenario.shared \in BOOLEAN /\ scenario.serial \in BOOLEAN
           /\ scenario.faults \subseteq FaultKinds
           /\ file \subseteq Record /\ recorded \subseteq Record
           /\ \A i \in issuances :
                 i.id \in 1..scenario.max /\ i.id \in Nat /\ i.names \in Orders
                 /\ i.at \in 0..now /\ i.at \in Nat
           /\ \A r \in file \cup recorded : MadeFor(r, issuances)
<1>1. /\ {Limit, PruneAge, MaxTime} \subseteq Nat /\ Scenarios \subseteq Scenario
      /\ scenario \in Scenarios /\ now \in 0..MaxTime
  BY RateLimitAssumption DEF TypeOK
<1>2. scenario \in Scenario
  BY <1>1
<1>3. /\ scenario.window \in Nat /\ scenario.max \in Nat
      /\ scenario.shared \in BOOLEAN /\ scenario.serial \in BOOLEAN
      /\ scenario.faults \subseteq FaultKinds
  BY <1>2 DEF Scenario
<1>4. now \in Nat /\ MaxTime \in Nat /\ Limit \in Nat /\ PruneAge \in Nat
  BY <1>1
<1>5. \A i \in issuances : i.id \in 1..scenario.max /\ i.names \in Orders /\ i.at \in 0..now
  BY DEF TypeOK
<1>6. \A i \in issuances : i.id \in Nat /\ i.at \in Nat
  BY <1>3, <1>4, <1>5
<1>7. file \subseteq Record /\ recorded \subseteq Record
      /\ \A r \in file \cup recorded : MadeFor(r, issuances)
  BY DEF TypeOK, MadeFor
<1> QED
  BY <1>1, <1>3, <1>4, <1>5, <1>6, <1>7

\* The start of a window is a time that has passed, and never goes back; a
\* longer window begins earlier.
LEMMA SinceFacts ==
    ASSUME TypeOK, NEW age \in Nat
    PROVE  /\ Since(age) \in 0..now /\ Since(age) \in 0..MaxTime /\ Since(age) \in Nat
           /\ now' = now + 1 => Since(age)' \in Nat /\ Since(age) <= Since(age)'
           /\ \A shorter \in Nat : shorter <= age => Since(age) <= Since(shorter)
           /\ \A shorter \in Nat : shorter <= age /\ now' = now => Since(age)' <= Since(shorter)'
<1>1. now \in Nat /\ now \in 0..MaxTime /\ MaxTime \in Nat
  BY TypeFacts
<1> QED
  BY <1>1 DEF Since, Ago

\* The fields of a thread have their types.
LEMMA ThreadFields ==
    ASSUME NEW w \in ThreadState
    PROVE  /\ w.pc \in {"idle", "check", "issue", "issued", "load", "save"}
           /\ w.names \in Orders \cup {{}} /\ w.todo \subseteq AllDomains
           /\ w.at \in 0..MaxTime /\ w.id \in Nat /\ w.records \subseteq Record
  BY DEF ThreadState, AllDomains

\* The registered domains of an order are among all of them.
LEMMA DomainsOfOrder ==
    /\ \A o \in Orders : RegisteredDomains(o) \subseteq AllDomains
    /\ RegisteredDomains({}) = {}
    /\ \A o : o = {} \/ RegisteredDomains(o) # {}
  BY DEF AllDomains, RegisteredDomains

\* A thread that does nothing has a type, and nothing in its hands.
LEMMA IdleFacts ==
    /\ Idle \in ThreadState /\ Idle.pc = "idle" /\ Idle.names = {} /\ Idle.todo = {}
    /\ Idle.at = 0 /\ Idle.id = 0 /\ Idle.records = {}
<1>1. 0 \in 0..MaxTime
  BY RateLimitAssumption
<1> QED
  BY <1>1 DEF Idle, ThreadState

\* A thread that does nothing is plausible.
LEMMA IdlePlausible == ASSUME NEW certs, NEW t \in Nat PROVE Plausible(Idle, certs, t)
  BY IdleFacts, FS_EmptySet DEF Plausible

\* Certificates and time only add to what makes a thread plausible.
LEMMA PlausibleMore ==
    ASSUME NEW w \in ThreadState, NEW certs, NEW more, certs \subseteq more,
           NEW t \in Nat, NEW later \in Nat, t <= later, Plausible(w, certs, t)
    PROVE  Plausible(w, more, later)
<1>1. w.at \in 0..MaxTime /\ w.at <= t /\ MaxTime \in Nat
  BY ThreadFields, RateLimitAssumption DEF Plausible
<1>2. w.at <= later
  BY <1>1
<1>3. \A r \in w.records : MadeFor(r, more)
  BY DEF Plausible, MadeFor
<1> QED
  BY <1>2, <1>3 DEF Plausible

\* Thread t goes on as w, and the others stay where they are.
Turns(t, w) ==
    /\ thread' \in [Threads -> ThreadState]
    /\ thread'[t] = w
    /\ \A s \in Threads \ {t} : thread'[s] = thread[s]

\* An assignment to one thread is a turn of that thread.
LEMMA OneThreadTurns ==
    ASSUME Bookkeeping, NEW t \in Threads, NEW w \in ThreadState,
           thread' = [thread EXCEPT ![t] = w]
    PROVE  Turns(t, w)
  BY DEF Turns, Bookkeeping

\* The books are in order after the turn of a thread that is plausible.
LEMMA BooksKept ==
    ASSUME TypeOK, Bookkeeping, NEW t \in Threads, NEW w \in ThreadState, Turns(t, w),
           issuances \subseteq issuances', now' = now, Plausible(w, issuances', now),
           IsFiniteSet(issuances'), IsFiniteSet(file'),
           \A i \in issuances' : i.id <= Cardinality(issuances')
    PROVE  Bookkeeping'
<1>1. now \in Nat /\ now <= now
  BY TypeFacts
<1>2. \A s \in Threads \ {t} : Plausible(thread[s], issuances', now)
  BY <1>1, PlausibleMore DEF Bookkeeping
<1> QED
  BY <1>2 DEF Bookkeeping, Turns

\* The window a check looks at starts in the past.
LEMMA WindowFacts ==
    ASSUME TypeOK, Bookkeeping, NEW t \in Threads
    PROVE  thread[t].at \in Nat /\ WindowStart(t) \in Nat
<1>1. thread[t].at \in Nat /\ scenario.window \in Nat
  BY ThreadFields, TypeFacts DEF Bookkeeping
<1> QED
  BY <1>1 DEF WindowStart, Ago

-----------------------------------------------------------------------------
(* What a thread does *)

\* check begins: the window ends now, and every registered domain
\* of the order is to do.
LEMMA BeginCheckEffect ==
    ASSUME TypeOK, Bookkeeping, NEW t \in Threads, NEW names \in Orders, BeginCheck(t, names)
    PROVE  /\ thread[t].pc = "idle"
           /\ scenario.serial => \A s \in Threads : thread[s].pc = "idle"
           /\ UNCHANGED <<scenario, now, file, issuances, recorded>>
           /\ \E w \in ThreadState :
                 /\ Turns(t, w) /\ Plausible(w, issuances, now)
                 /\ w.pc = "check" /\ w.names = names /\ w.todo = RegisteredDomains(names)
                 /\ w.at = now /\ w.records = {}
<1> DEFINE w == [Idle EXCEPT !.pc = "check", !.names = names,
                             !.todo = RegisteredDomains(names), !.at = now]
<1>1. /\ thread[t].pc = "idle"
      /\ scenario.serial => \A s \in Threads : thread[s].pc = "idle"
      /\ UNCHANGED <<scenario, now, file, issuances, recorded>>
      /\ thread' = [thread EXCEPT ![t] = w]
  BY DEF BeginCheck
<1>2. now \in 0..MaxTime /\ now \in 0..now
  BY TypeFacts
<1>3. RegisteredDomains(names) \subseteq AllDomains
  BY DomainsOfOrder
<1>4. Idle \in ThreadState /\ Idle.records = {}
  BY IdleFacts
<1>5. /\ w \in ThreadState /\ w.pc = "check" /\ w.names = names
      /\ w.todo = RegisteredDomains(names) /\ w.at = now /\ w.records = {}
  BY <1>2, <1>3, <1>4 DEF ThreadState, AllDomains
<1> HIDE DEF w
<1>6. w.at <= now
  BY <1>2, <1>5, TypeFacts
<1>7. Plausible(w, issuances, now)
  BY <1>5, <1>6, FS_EmptySet DEF Plausible
<1> QED
  BY <1>1, <1>5, <1>7, OneThreadTurns

\* One registered domain is checked: the order is refused, or one less is to
\* do.
LEMMA CheckDomainEffect ==
    ASSUME TypeOK, Bookkeeping, NEW t \in Threads, CheckDomain(t)
    PROVE  /\ thread[t].pc = "check" /\ LockIsFree(t)
           /\ UNCHANGED <<scenario, now, file, issuances, recorded>>
           /\ \E d \in thread[t].todo, records \in Readable(file), w \in ThreadState :
                 /\ Turns(t, w) /\ Plausible(w, issuances, now)
                 /\ \/ Count(records, d, WindowStart(t)) >= Limit /\ scenario.block /\ w = Idle
                    \/ /\ Count(records, d, WindowStart(t)) < Limit \/ ~scenario.block
                       /\ w.pc = IF thread[t].todo = {d} THEN "issue" ELSE "check"
                       /\ w.todo = thread[t].todo \ {d} /\ w.names = thread[t].names
                       /\ w.at = thread[t].at /\ w.records = thread[t].records
<1>0. /\ thread[t].pc = "check" /\ LockIsFree(t)
      /\ UNCHANGED <<scenario, now, file, issuances, recorded>>
  BY DEF CheckDomain
<1>1. PICK d \in thread[t].todo, records \in Readable(file) :
         \/ /\ Count(records, d, WindowStart(t)) >= Limit /\ scenario.block
            /\ thread' = [thread EXCEPT ![t] = Idle]
         \/ /\ Count(records, d, WindowStart(t)) < Limit \/ ~scenario.block
            /\ thread' = [thread EXCEPT
                            ![t].todo = @ \ {d},
                            ![t].pc = IF thread[t].todo = {d} THEN "issue" ELSE "check"]
  BY DEF CheckDomain
<1>2. thread \in [Threads -> ThreadState] /\ Plausible(thread[t], issuances, now)
  BY DEF Bookkeeping
<1>3. CASE /\ Count(records, d, WindowStart(t)) >= Limit /\ scenario.block
           /\ thread' = [thread EXCEPT ![t] = Idle]
  BY <1>0, <1>1, <1>3, IdleFacts, IdlePlausible, OneThreadTurns, TypeFacts
<1>4. CASE /\ Count(records, d, WindowStart(t)) < Limit \/ ~scenario.block
           /\ thread' = [thread EXCEPT
                            ![t].todo = @ \ {d},
                            ![t].pc = IF thread[t].todo = {d} THEN "issue" ELSE "check"]
  <2> DEFINE w == [thread[t] EXCEPT
                     !.todo = @ \ {d},
                     !.pc = IF thread[t].todo = {d} THEN "issue" ELSE "check"]
  <2>1. thread' = [thread EXCEPT ![t] = w]
    BY <1>2, <1>4
  <2>2. /\ w \in ThreadState /\ w.pc = (IF thread[t].todo = {d} THEN "issue" ELSE "check")
        /\ w.todo = thread[t].todo \ {d} /\ w.names = thread[t].names
        /\ w.at = thread[t].at /\ w.records = thread[t].records
    BY <1>2 DEF ThreadState
  <2> HIDE DEF w
  <2>3. thread[t].names # {}
    BY <1>2, DomainsOfOrder DEF Plausible
  <2>4. Plausible(w, issuances, now)
    BY <1>0, <1>2, <2>2, <2>3 DEF Plausible
  <2> QED
    BY <1>0, <1>4, <2>1, <2>2, <2>4, OneThreadTurns
<1> QED
  BY <1>1, <1>3, <1>4
\* The CA has numbered the certificates one after another; the next number
\* is new.
LEMMA CaIssuesEffect ==
    ASSUME TypeOK, Bookkeeping, NEW t \in Threads, CaIssues(t)
    PROVE  /\ thread[t].pc = "issue"
           /\ UNCHANGED <<scenario, now, file, recorded>>
           /\ \E w \in ThreadState :
                 /\ Turns(t, w) /\ Plausible(w, issuances', now)
                 /\ \/ /\ w.id = Cardinality(issuances) + 1 /\ w.id \in 1..scenario.max
                       /\ issuances' = issuances \cup
                            {[id |-> w.id, names |-> thread[t].names, at |-> now]}
                       /\ \A i \in issuances : i.id < w.id
                       /\ w.pc = "issued" /\ w.names = thread[t].names
                       /\ w.records = thread[t].records
                    \/ w = Idle /\ issuances' = issuances
<1> DEFINE id == Cardinality(issuances) + 1
<1>0. thread[t].pc = "issue" /\ UNCHANGED <<scenario, now, file, recorded>>
  BY DEF CaIssues
<1>1. /\ thread \in [Threads -> ThreadState] /\ Plausible(thread[t], issuances, now)
      /\ \A i \in issuances : i.id <= Cardinality(issuances) /\ i.id \in Nat
      /\ Cardinality(issuances) \in Nat
  BY FS_CardinalityType, TypeFacts DEF Bookkeeping
<1>2. CASE thread' = [thread EXCEPT ![t] = Idle] /\ UNCHANGED issuances
  BY <1>0, <1>2, IdleFacts, IdlePlausible, OneThreadTurns, TypeFacts
<1>3. CASE /\ id <= scenario.max
           /\ issuances' = issuances \cup
                {[id |-> id, names |-> thread[t].names, at |-> now]}
           /\ thread' = [thread EXCEPT ![t].pc = "issued", ![t].id = id]
  <2> DEFINE w == [thread[t] EXCEPT !.pc = "issued", !.id = id]
             i == [id |-> id, names |-> thread[t].names, at |-> now]
  <2>1. id \in Nat /\ id \in 1..scenario.max /\ \A j \in issuances : j.id < id
    BY <1>1, <1>3, TypeFacts
  <2> HIDE DEF id
  <2>2. thread' = [thread EXCEPT ![t] = w]
    BY <1>1, <1>3
  <2>3. /\ w \in ThreadState /\ w.pc = "issued" /\ w.id = id /\ w.at = thread[t].at
        /\ w.todo = thread[t].todo /\ w.names = thread[t].names
        /\ w.records = thread[t].records
    BY <1>1, <2>1 DEF ThreadState
  <2>4. i \in issuances' /\ issuances \subseteq issuances' /\ i.id = id /\ i.names = w.names
    BY <1>3, <2>3
  <2> HIDE DEF w, i
  <2>5. \A r \in w.records : MadeFor(r, issuances')
    BY <1>1, <2>3, <2>4 DEF Plausible, MadeFor
  <2>6. Plausible(w, issuances', now)
    BY <1>0, <1>1, <2>3, <2>4, <2>5 DEF Plausible
  <2>7. issuances' = issuances \cup {[id |-> w.id, names |-> thread[t].names, at |-> now]}
    BY <1>3, <2>3
  <2>8. w.id = Cardinality(issuances) + 1
    BY <2>3 DEF id
  <2>9. Turns(t, w)
    BY <2>2, <2>3, OneThreadTurns
  <2> QED
    BY <1>0, <2>1, <2>3, <2>6, <2>7, <2>8, <2>9
<1> QED
  BY <1>2, <1>3 DEF CaIssues

\* record begins: every registered domain of the certificate is to do.
LEMMA BeginRecordEffect ==
    ASSUME TypeOK, Bookkeeping, NEW t \in Threads, BeginRecord(t)
    PROVE  /\ thread[t].pc = "issued"
           /\ UNCHANGED <<scenario, now, file, issuances, recorded>>
           /\ \E w \in ThreadState :
                 /\ Turns(t, w) /\ Plausible(w, issuances, now)
                 /\ w.pc = "load" /\ w.id = thread[t].id /\ w.names = thread[t].names
                 /\ w.todo = RegisteredDomains(thread[t].names) /\ w.at = now
                 /\ w.records = thread[t].records
<1> DEFINE w == [thread[t] EXCEPT !.pc = "load", !.at = now,
                                  !.todo = RegisteredDomains(thread[t].names)]
<1>1. /\ thread[t].pc = "issued" /\ UNCHANGED <<scenario, now, file, issuances, recorded>>
      /\ thread \in [Threads -> ThreadState] /\ Plausible(thread[t], issuances, now)
      /\ now \in 0..MaxTime /\ now <= now
  BY TypeFacts DEF BeginRecord, Bookkeeping
<1>2. thread' = [thread EXCEPT ![t] = w]
  BY <1>1 DEF BeginRecord
<1>3. thread[t].names \in Orders /\ thread[t].names # {}
  BY <1>1 DEF Plausible
<1>4. RegisteredDomains(thread[t].names) \subseteq AllDomains
      /\ RegisteredDomains(thread[t].names) # {}
  BY <1>3, DomainsOfOrder
<1>5. /\ w \in ThreadState /\ w.pc = "load" /\ w.at = now /\ w.id = thread[t].id
      /\ w.todo = RegisteredDomains(thread[t].names) /\ w.names = thread[t].names
      /\ w.records = thread[t].records
  BY <1>1, <1>4 DEF ThreadState, AllDomains
<1> HIDE DEF w
<1>6. \E i \in issuances : i.id = w.id /\ i.names = w.names /\ i.at <= w.at
  <2>1. PICK i \in issuances : i.id = thread[t].id /\ i.names = thread[t].names
    BY <1>1 DEF Plausible
  <2>2. i.at <= now
    BY TypeFacts
  <2> QED
    BY <1>5, <2>1, <2>2
<1>7. Plausible(w, issuances, now)
  BY <1>1, <1>3, <1>4, <1>5, <1>6 DEF Plausible
<1> QED
  BY <1>1, <1>2, <1>5, <1>7, OneThreadTurns

\* The file is read under the lock.
LEMMA LoadEffect ==
    ASSUME TypeOK, Bookkeeping, NEW t \in Threads, Load(t)
    PROVE  /\ thread[t].pc = "load" /\ LockIsFree(t)
           /\ UNCHANGED <<scenario, now, file, issuances, recorded>>
           /\ \E w \in ThreadState :
                 /\ Turns(t, w) /\ Plausible(w, issuances, now)
                 /\ w.pc = "save" /\ w.id = thread[t].id /\ w.names = thread[t].names
                 /\ w.todo = thread[t].todo /\ w.at = thread[t].at
                 /\ w.records \in Readable(file)
<1>1. /\ thread[t].pc = "load" /\ LockIsFree(t)
      /\ UNCHANGED <<scenario, now, file, issuances, recorded>>
      /\ thread \in [Threads -> ThreadState] /\ Plausible(thread[t], issuances, now)
  BY DEF Load, Bookkeeping
<1>2. PICK records \in Readable(file) :
         thread' = [thread EXCEPT ![t].pc = "save", ![t].records = records]
  BY DEF Load
<1>3. /\ records \subseteq Record /\ IsFiniteSet(records)
      /\ \A r \in records : MadeFor(r, issuances)
  BY TypeFacts, FS_EmptySet DEF Readable, Bookkeeping
<1> DEFINE w == [thread[t] EXCEPT !.pc = "save", !.records = records]
<1>4. thread' = [thread EXCEPT ![t] = w]
  BY <1>1, <1>2
<1>5. /\ w \in ThreadState /\ w.pc = "save" /\ w.at = thread[t].at /\ w.id = thread[t].id
      /\ w.todo = thread[t].todo /\ w.names = thread[t].names /\ w.records = records
  BY <1>1, <1>3 DEF ThreadState
<1> HIDE DEF w
<1>6. Plausible(w, issuances, now)
  BY <1>1, <1>3, <1>5 DEF Plausible
<1> QED
  BY <1>1, <1>2, <1>4, <1>5, <1>6, OneThreadTurns

\* The record made for domain d of the certificate of thread t.
NewRecord(t, d) == [id |-> thread[t].id, domain |-> d, at |-> thread[t].at]

\* One record is written, for a certificate that was issued; one less is to
\* do.
LEMMA SaveEffect ==
    ASSUME TypeOK, Bookkeeping, NEW t \in Threads, Save(t)
    PROVE  /\ thread[t].pc = "save"
           /\ UNCHANGED <<scenario, now, issuances>>
           /\ \E d \in thread[t].todo, w \in ThreadState :
                 /\ Turns(t, w) /\ Plausible(w, issuances, now)
                 /\ file' = {r \in thread[t].records \cup {NewRecord(t, d)} :
                                r.at >= Since(PruneAge)}
                 /\ recorded' = recorded \cup {NewRecord(t, d)}
                 /\ NewRecord(t, d) \in Record /\ MadeFor(NewRecord(t, d), issuances)
                 /\ w.records = {}
                 /\ \/ thread[t].todo = {d} /\ w.pc = "idle"
                    \/ /\ w.pc = "load" /\ w.id = thread[t].id /\ w.names = thread[t].names
                       /\ w.todo = thread[t].todo \ {d} /\ w.at = thread[t].at
<1>1. /\ thread[t].pc = "save" /\ UNCHANGED <<scenario, now, issuances>>
      /\ thread \in [Threads -> ThreadState] /\ Plausible(thread[t], issuances, now)
      /\ thread[t] \in ThreadState
  BY DEF Save, Bookkeeping
<1>2. PICK d \in thread[t].todo :
         /\ file' = {r \in thread[t].records \cup {NewRecord(t, d)} : r.at >= Since(PruneAge)}
         /\ recorded' = recorded \cup {NewRecord(t, d)}
         /\ thread' = [thread EXCEPT
                         ![t] = IF thread[t].todo = {d} THEN Idle
                                ELSE [thread[t] EXCEPT !.pc = "load", !.todo = @ \ {d},
                                                       !.records = {}]]
  BY DEF Save, NewRecord
<1>3. NewRecord(t, d) \in Record
  <2>1. thread[t].id \in Nat /\ thread[t].at \in 0..MaxTime /\ d \in AllDomains
    BY <1>1, ThreadFields
  <2> QED
    BY <2>1 DEF NewRecord, Record, AllDomains
<1>4. MadeFor(NewRecord(t, d), issuances)
  BY <1>1 DEF NewRecord, MadeFor, Plausible
<1>5. CASE thread[t].todo = {d}
  <2>1. thread' = [thread EXCEPT ![t] = Idle]
    BY <1>1, <1>2, <1>5
  <2> QED
    BY <1>1, <1>2, <1>3, <1>4, <1>5, <2>1, IdleFacts, IdlePlausible, OneThreadTurns, TypeFacts
<1>6. CASE thread[t].todo # {d}
  <2> DEFINE w == [thread[t] EXCEPT !.pc = "load", !.todo = @ \ {d}, !.records = {}]
  <2>1. thread' = [thread EXCEPT ![t] = w]
    BY <1>1, <1>2, <1>6
  <2>2. /\ w \in ThreadState /\ w.pc = "load" /\ w.at = thread[t].at /\ w.id = thread[t].id
        /\ w.todo = thread[t].todo \ {d} /\ w.names = thread[t].names /\ w.records = {}
    BY <1>1 DEF ThreadState
  <2> HIDE DEF w
  <2>3. w.todo # {}
    BY <1>2, <1>6, <2>2
  <2>4. Plausible(w, issuances, now)
    BY <1>1, <2>2, <2>3, FS_EmptySet DEF Plausible
  <2> QED
    BY <1>1, <1>2, <1>3, <1>4, <2>1, <2>2, <2>4, OneThreadTurns
<1> QED
  BY <1>5, <1>6

\* A thread that fails, or dies, alone or with those of its process.
LEMMA StopEffect ==
    ASSUME TypeOK, Bookkeeping, NEW t \in Threads, SaveFails(t) \/ Crash(t)
    PROVE  /\ UNCHANGED <<scenario, now, file, issuances, recorded>>
           /\ thread' \in [Threads -> ThreadState] /\ thread'[t] = Idle
           /\ \A s \in Threads : thread'[s] \in {Idle, thread[s]}
<1>1. thread \in [Threads -> ThreadState] /\ Idle \in ThreadState
  BY IdleFacts DEF Bookkeeping
<1> QED
  BY <1>1 DEF SaveFails, Crash

-----------------------------------------------------------------------------
(* The types, and the bookkeeping *)

\* Certificates and records may be added; a record is for a certificate.
LEMMA TypeKept ==
    ASSUME TypeOK, Bookkeeping', scenario' = scenario,
           now' \in 0..MaxTime, now <= now', issuances \subseteq issuances',
           \A i \in issuances' \ issuances :
              i.id \in 1..scenario.max /\ i.names \in Orders /\ i.at \in 0..now',
           file' \subseteq Record, recorded' \subseteq Record,
           \A r \in (file' \cup recorded') \ (file \cup recorded) : MadeFor(r, issuances')
    PROVE  TypeOK'
<1>1. now \in Nat /\ now' \in Nat /\ scenario \in Scenarios
  BY TypeFacts, RateLimitAssumption DEF TypeOK
<1>2. \A i \in issuances' :
         i.id \in 1..scenario'.max /\ i.names \in Orders /\ i.at \in 0..now'
  <2> SUFFICES ASSUME NEW i \in issuances, NEW a \in 0..now, a = i.at
               PROVE  i.id \in 1..scenario'.max /\ i.names \in Orders /\ a \in 0..now'
    BY TypeFacts
  <2> QED
    BY <1>1, TypeFacts
<1>3. \A r \in file' \cup recorded' : MadeFor(r, issuances')
  BY TypeFacts DEF MadeFor
<1>4. \A t \in Threads :
         /\ thread'[t] \in ThreadState /\ Plausible(thread'[t], issuances', now')
  BY DEF Bookkeeping
<1>5. \A t \in Threads :
         /\ thread'[t].pc \in {"idle", "check", "issue", "issued", "load", "save"}
         /\ thread'[t].names \in Orders \cup {{}}
         /\ thread'[t].todo \subseteq RegisteredDomains(thread'[t].names)
         /\ thread'[t].pc \in {"load", "save"} => thread'[t].todo # {}
         /\ thread'[t].records \subseteq Record
  BY <1>4, ThreadFields DEF Plausible
<1> QED
  BY <1>1, <1>2, <1>3, <1>5 DEF TypeOK, MadeFor

\* Initially there is nothing.
LEMMA TypeInit == Init => TypeOK /\ Bookkeeping
<1> SUFFICES ASSUME Init PROVE TypeOK /\ Bookkeeping
  OBVIOUS
<1>1. MaxTime \in Nat /\ 0 \in 0..MaxTime
  BY RateLimitAssumption
<1>2. \A t \in Threads : thread[t] = Idle
  BY DEF Init
<1>3. Bookkeeping
  BY <1>2, IdleFacts, IdlePlausible, FS_EmptySet DEF Init, Bookkeeping
<1>4. TypeOK
  BY <1>1, <1>2, IdleFacts DEF Init, TypeOK
<1> QED
  BY <1>3, <1>4

\* Every step keeps the types and the books.
LEMMA TypeStep ==
    ASSUME TypeOK, Bookkeeping, [Next]_vars
    PROVE  TypeOK' /\ Bookkeeping'
<1>0. /\ now \in Nat /\ now \in 0..MaxTime /\ now <= now /\ MaxTime \in Nat
      /\ file \subseteq Record /\ recorded \subseteq Record
      /\ \A r \in file \cup recorded : MadeFor(r, issuances)
      /\ thread \in [Threads -> ThreadState]
      /\ IsFiniteSet(issuances) /\ IsFiniteSet(file)
      /\ \A t \in Threads : Plausible(thread[t], issuances, now)
      /\ \A i \in issuances : i.id <= Cardinality(issuances)
  BY TypeFacts DEF Bookkeeping
<1>1. ASSUME NEW t \in Threads, NEW w \in ThreadState, Turns(t, w),
             Plausible(w, issuances, now), UNCHANGED <<scenario, now, file, issuances, recorded>>
      PROVE  TypeOK' /\ Bookkeeping'
  <2>1. Bookkeeping'
    BY <1>0, <1>1, BooksKept
  <2> QED
    BY <1>0, <1>1, <2>1, TypeKept
<1>2. CASE UNCHANGED vars
  BY <1>2 DEF TypeOK, Bookkeeping, vars
<1>3. CASE Tick
  <2>1. /\ now' = now + 1 /\ now' \in 0..MaxTime /\ now' \in Nat /\ now <= now'
        /\ UNCHANGED <<scenario, file, thread, issuances, recorded>>
    BY <1>0, <1>3 DEF Tick
  <2>2. \A t \in Threads : thread[t] \in ThreadState /\ Plausible(thread[t], issuances, now')
    BY <1>0, <2>1, PlausibleMore
  <2>3. Bookkeeping'
    BY <1>0, <2>1, <2>2 DEF Bookkeeping
  <2> QED
    BY <1>0, <2>1, <2>3, TypeKept
<1>4. ASSUME NEW t \in Threads, \E names \in Orders : BeginCheck(t, names)
      PROVE  TypeOK' /\ Bookkeeping'
  BY <1>1, <1>4, BeginCheckEffect
<1>5. ASSUME NEW t \in Threads, CheckDomain(t)
      PROVE  TypeOK' /\ Bookkeeping'
  BY <1>1, <1>5, CheckDomainEffect
<1>6. ASSUME NEW t \in Threads, CaIssues(t)
      PROVE  TypeOK' /\ Bookkeeping'
  <2>1. PICK w \in ThreadState :
           /\ Turns(t, w) /\ Plausible(w, issuances', now)
           /\ \/ /\ w.id = Cardinality(issuances) + 1 /\ w.id \in 1..scenario.max
                 /\ issuances' = issuances \cup
                      {[id |-> w.id, names |-> thread[t].names, at |-> now]}
                 /\ \A i \in issuances : i.id < w.id
                 /\ w.pc = "issued" /\ w.names = thread[t].names
                 /\ w.records = thread[t].records
              \/ w = Idle /\ issuances' = issuances
    BY <1>6, CaIssuesEffect
  <2>2. thread[t].pc = "issue" /\ UNCHANGED <<scenario, now, file, recorded>>
    BY <1>6, CaIssuesEffect
  <2>3. CASE issuances' = issuances
    BY <1>1, <2>1, <2>2, <2>3
  <2>4. ASSUME w.id = Cardinality(issuances) + 1, w.id \in 1..scenario.max,
               issuances' = issuances \cup
                      {[id |-> w.id, names |-> thread[t].names, at |-> now]},
               \A i \in issuances : i.id < w.id
        PROVE  TypeOK' /\ Bookkeeping'
    <3> DEFINE i == [id |-> w.id, names |-> thread[t].names, at |-> now]
    <3>1. i.id = w.id /\ i.names = thread[t].names /\ i.at = now /\ issuances' = issuances \cup {i}
      BY <2>4
    <3> HIDE DEF i
    <3>2. i \notin issuances
      <4> SUFFICES ASSUME i \in issuances PROVE FALSE
        OBVIOUS
      <4>1. i.id < i.id /\ i.id \in Nat
        BY <2>4, <3>1, TypeFacts
      <4> QED
        BY <4>1
    <3>3. Cardinality(issuances) \in Nat /\ IsFiniteSet(issuances')
          /\ Cardinality(issuances') = Cardinality(issuances) + 1
      BY <1>0, <3>1, <3>2, FS_AddElement, FS_CardinalityType
    <3>4. \A j \in issuances' : j.id <= Cardinality(issuances')
      <4>1. i.id <= Cardinality(issuances')
        BY <2>4, <3>1, <3>3
      <4>2. ASSUME NEW j \in issuances PROVE j.id <= Cardinality(issuances')
        <5>1. j.id \in Nat /\ j.id <= Cardinality(issuances)
          BY <1>0, TypeFacts
        <5> QED
          BY <3>3, <5>1
      <4> QED
        BY <3>1, <4>1, <4>2
    <3>5. Bookkeeping'
      BY <1>0, <2>1, <2>2, <3>1, <3>3, <3>4, BooksKept
    <3>6. thread[t].names \in Orders
      BY <1>0, <2>2 DEF Plausible
    <3>7. i.at \in 0..now
      BY <1>0, <3>1
    <3>8. \A j \in issuances' \ issuances :
             j.id \in 1..scenario.max /\ j.names \in Orders /\ j.at \in 0..now'
      BY <2>2, <2>4, <3>1, <3>6, <3>7
    <3> QED
      BY <1>0, <2>2, <3>1, <3>5, <3>8, TypeKept
  <2> QED
    BY <2>1, <2>3, <2>4
<1>7. ASSUME NEW t \in Threads, BeginRecord(t)
      PROVE  TypeOK' /\ Bookkeeping'
  BY <1>1, <1>7, BeginRecordEffect
<1>8. ASSUME NEW t \in Threads, Load(t)
      PROVE  TypeOK' /\ Bookkeeping'
  BY <1>1, <1>8, LoadEffect
<1>9. ASSUME NEW t \in Threads, Save(t)
      PROVE  TypeOK' /\ Bookkeeping'
  <2>1. PICK d \in thread[t].todo, w \in ThreadState :
           /\ Turns(t, w) /\ Plausible(w, issuances, now)
           /\ file' = {r \in thread[t].records \cup {NewRecord(t, d)} :
                          r.at >= Since(PruneAge)}
           /\ recorded' = recorded \cup {NewRecord(t, d)}
           /\ NewRecord(t, d) \in Record /\ MadeFor(NewRecord(t, d), issuances)
    BY <1>9, SaveEffect
  <2>2. UNCHANGED <<scenario, now, issuances>>
    BY <1>9, SaveEffect
  <2>3. IsFiniteSet(thread[t].records) /\ thread[t].records \subseteq Record
        /\ \A r \in thread[t].records : MadeFor(r, issuances)
    BY <1>0, ThreadFields DEF Plausible
  <2>4. IsFiniteSet(thread[t].records \cup {NewRecord(t, d)})
    BY <2>3, FS_AddElement
  <2>5. file' \subseteq thread[t].records \cup {NewRecord(t, d)}
    BY <2>1
  <2>6. IsFiniteSet(file')
    BY <2>4, <2>5, FS_Subset
  <2>7. Bookkeeping'
    BY <1>0, <2>1, <2>2, <2>6, BooksKept
  <2>8. file' \subseteq Record /\ recorded' \subseteq Record
        /\ \A r \in (file' \cup recorded') \ (file \cup recorded) : MadeFor(r, issuances')
    BY <1>0, <2>1, <2>2, <2>3, <2>5
  <2> QED
    BY <1>0, <2>2, <2>7, <2>8, TypeKept
<1>10. ASSUME NEW t \in Threads, SaveFails(t) \/ Crash(t)
       PROVE  TypeOK' /\ Bookkeeping'
  <2>1. /\ UNCHANGED <<scenario, now, file, issuances, recorded>>
        /\ thread' \in [Threads -> ThreadState]
        /\ \A s \in Threads : thread'[s] \in {Idle, thread[s]}
    BY <1>10, StopEffect
  <2>2. \A s \in Threads : Plausible(thread'[s], issuances, now)
    BY <1>0, <2>1, IdlePlausible
  <2>3. Bookkeeping'
    BY <1>0, <2>1, <2>2 DEF Bookkeeping
  <2> QED
    BY <1>0, <2>1, <2>3, TypeKept
<1> QED
  BY <1>2, <1>3, <1>4, <1>5, <1>6, <1>7, <1>8, <1>9, <1>10 DEF Next

\* Every variable has its type, and every record in the file, or about to be
\* written, was made for a certificate of the CA that has that domain.
THEOREM TypeCorrect == Spec => []TypeOK
<1> DEFINE I == TypeOK /\ Bookkeeping
<1>1. Init => I
  BY TypeInit
<1>2. I /\ [Next]_vars => I'
  BY TypeStep
<1>3. Spec => []I
  BY <1>1, <1>2, PTL DEF Spec
<1> QED
  BY <1>3, PTL

-----------------------------------------------------------------------------
(* The lock of the store *)

\* Nobody who works starts to write, and the file stays as it is.
LEMMA LockedTurn ==
    ASSUME Bookkeeping, Locked, NEW t \in Threads, NEW w, Turns(t, w), scenario' = scenario,
           thread[t].pc # "idle" \/ w.pc = "idle"
              \/ (scenario.serial => \A s \in Threads : thread[s].pc = "idle"),
           file' = file \/ thread[t].pc = "save", w.pc # "save"
    PROVE  Locked'
<1>1. ASSUME scenario.serial
      PROVE  \A s, r \in Threads : thread'[s].pc # "idle" /\ thread'[r].pc # "idle" => s = r
  BY <1>1 DEF Locked, Turns
<1>2. ASSUME Exclusive, "read" \notin scenario.faults, NEW r \in Threads, thread'[r].pc = "save"
      PROVE  /\ thread'[r].records = file'
             /\ \A s \in Threads : thread'[s].pc = "save" => s = r
  <2>1. r # t /\ thread'[r] = thread[r]
    BY <1>2 DEF Turns
  <2>2. thread[r].records = file /\ \A s \in Threads : thread[s].pc = "save" => s = r
    BY <1>2, <2>1 DEF Locked
  <2>3. thread[t].pc # "save"
    BY <2>1, <2>2
  <2> QED
    BY <1>2, <2>1, <2>2, <2>3 DEF Turns
<1> QED
  BY <1>1, <1>2 DEF Locked, Exclusive

\* Every step keeps the lock: who writes has read the file as it is.
LEMMA LockedStep ==
    ASSUME TypeOK, Bookkeeping, Locked, [Next]_vars
    PROVE  Locked'
<1>1. CASE UNCHANGED vars \/ Tick
  BY <1>1 DEF Tick, Locked, Exclusive, vars
<1>2. ASSUME NEW t \in Threads, NEW names \in Orders, BeginCheck(t, names)
      PROVE  Locked'
  <2>1. PICK w \in ThreadState : Turns(t, w) /\ w.pc = "check"
    BY <1>2, BeginCheckEffect
  <2>2. /\ UNCHANGED <<scenario, file>>
        /\ scenario.serial => \A s \in Threads : thread[s].pc = "idle"
    BY <1>2, BeginCheckEffect
  <2> QED
    BY <2>1, <2>2, LockedTurn
<1>3. ASSUME NEW t \in Threads, CheckDomain(t) PROVE Locked'
  <2>1. PICK w \in ThreadState : Turns(t, w) /\ w.pc \in {"idle", "check", "issue"}
    BY <1>3, CheckDomainEffect, IdleFacts
  <2>2. UNCHANGED <<scenario, file>> /\ thread[t].pc = "check"
    BY <1>3, CheckDomainEffect
  <2> QED
    BY <2>1, <2>2, LockedTurn
<1>4. ASSUME NEW t \in Threads, CaIssues(t) PROVE Locked'
  <2>1. PICK w \in ThreadState : Turns(t, w) /\ w.pc \in {"idle", "issued"}
    BY <1>4, CaIssuesEffect, IdleFacts
  <2>2. UNCHANGED <<scenario, file>> /\ thread[t].pc = "issue"
    BY <1>4, CaIssuesEffect
  <2> QED
    BY <2>1, <2>2, LockedTurn
<1>5. ASSUME NEW t \in Threads, BeginRecord(t) PROVE Locked'
  <2>1. PICK w \in ThreadState : Turns(t, w) /\ w.pc = "load"
    BY <1>5, BeginRecordEffect
  <2>2. UNCHANGED <<scenario, file>> /\ thread[t].pc = "issued"
    BY <1>5, BeginRecordEffect
  <2> QED
    BY <2>1, <2>2, LockedTurn
<1>6. ASSUME NEW t \in Threads, Load(t) PROVE Locked'
  <2>1. PICK w \in ThreadState : Turns(t, w) /\ w.pc = "save" /\ w.records \in Readable(file)
    BY <1>6, LoadEffect
  <2>2. UNCHANGED <<scenario, file>> /\ thread[t].pc = "load" /\ LockIsFree(t)
    BY <1>6, LoadEffect
  <2>3. scenario.serial =>
          \A s, r \in Threads : thread'[s].pc # "idle" /\ thread'[r].pc # "idle" => s = r
    BY <2>1, <2>2 DEF Locked, Turns
  <2>4. ASSUME Exclusive, "read" \notin scenario.faults, NEW r \in Threads,
               thread'[r].pc = "save"
        PROVE  /\ thread'[r].records = file'
               /\ \A s \in Threads : thread'[s].pc = "save" => s = r
    <3>1. ASSUME NEW s \in Threads \ {t} PROVE thread'[s].pc # "save"
      <4>1. CASE scenario.shared
        BY <2>1, <2>2, <3>1, <4>1 DEF LockIsFree, Turns
      <4>2. CASE scenario.serial
        BY <2>1, <2>2, <3>1, <4>2 DEF Locked, Turns
      <4> QED
        BY <2>4, <4>1, <4>2 DEF Exclusive
    <3>2. w.records = file
      BY <2>1, <2>4 DEF Readable
    <3> QED
      BY <2>1, <2>2, <2>4, <3>1, <3>2 DEF Turns
  <2> QED
    BY <2>2, <2>3, <2>4 DEF Locked, Exclusive
<1>7. ASSUME NEW t \in Threads, Save(t) PROVE Locked'
  <2>1. PICK w \in ThreadState : Turns(t, w) /\ w.pc \in {"idle", "load"}
    BY <1>7, SaveEffect
  <2>2. scenario' = scenario /\ thread[t].pc = "save"
    BY <1>7, SaveEffect
  <2> QED
    BY <2>1, <2>2, LockedTurn
<1>8. ASSUME NEW t \in Threads, SaveFails(t) \/ Crash(t) PROVE Locked'
  <2>1. /\ UNCHANGED <<scenario, file>>
        /\ \A s \in Threads : thread'[s] = Idle \/ thread'[s] = thread[s]
    BY <1>8, StopEffect
  <2>2. \A s \in Threads : thread'[s].pc # "idle" => thread'[s] = thread[s]
    BY <2>1, IdleFacts
  <2> QED
    BY <2>1, <2>2 DEF Locked, Exclusive
<1> QED
  BY <1>1, <1>2, <1>3, <1>4, <1>5, <1>6, <1>7, <1>8 DEF Next

\* Every step keeps the records that are young enough.
LEMMA ForgottenStep ==
    ASSUME TypeOK, Bookkeeping, Locked, NothingForgotten, [Next]_vars
    PROVE  NothingForgotten'
<1> SUFFICES ASSUME scenario'.shared, "read" \notin scenario'.faults,
                    NEW r \in recorded', r.at >= Since(PruneAge)'
             PROVE  r \in file'
  BY DEF NothingForgotten
<1>1. PruneAge \in Nat /\ Since(PruneAge) \in Nat /\ recorded \subseteq Record
  BY TypeFacts, SinceFacts
<1>2. CASE UNCHANGED vars
  BY <1>2 DEF NothingForgotten, Since, vars
<1>3. CASE Tick
  <2>1. now' = now + 1 /\ UNCHANGED <<scenario, file, recorded>>
    BY <1>3 DEF Tick
  <2>2. Since(PruneAge)' \in Nat /\ Since(PruneAge) <= Since(PruneAge)'
    BY <1>1, <2>1, SinceFacts
  <2>3. r.at \in 0..MaxTime /\ MaxTime \in Nat
    BY <1>1, <2>1, TypeFacts DEF Record
  <2>4. r.at >= Since(PruneAge)
    BY <1>1, <2>2, <2>3
  <2> QED
    BY <2>1, <2>4 DEF NothingForgotten
<1>4. CASE UNCHANGED <<scenario, now, file, recorded>>
  BY <1>4 DEF NothingForgotten, Since
<1>5. ASSUME NEW t \in Threads, Save(t) PROVE r \in file'
  <2>1. PICK d \in thread[t].todo :
           /\ file' = {q \in thread[t].records \cup {NewRecord(t, d)} :
                          q.at >= Since(PruneAge)}
           /\ recorded' = recorded \cup {NewRecord(t, d)}
    BY <1>5, SaveEffect
  <2>2. UNCHANGED <<scenario, now>> /\ thread[t].pc = "save"
    BY <1>5, SaveEffect
  <2>3. r.at >= Since(PruneAge)
    BY <2>2 DEF Since
  <2>4. thread[t].records = file
    BY <2>2 DEF Locked, Exclusive
  <2>5. r \in recorded => r \in file
    BY <2>2, <2>3 DEF NothingForgotten
  <2> QED
    BY <2>1, <2>3, <2>4, <2>5
<1>6. ASSUME NEW t \in Threads,
             \/ \E names \in Orders : BeginCheck(t, names)
             \/ CheckDomain(t) \/ CaIssues(t) \/ BeginRecord(t)
             \/ Load(t) \/ SaveFails(t) \/ Crash(t)
      PROVE  r \in file'
  <2>1. UNCHANGED <<scenario, now, file, recorded>>
    BY <1>6 DEF BeginCheck, CheckDomain, CaIssues, BeginRecord, Load, SaveFails, Crash
  <2> QED
    BY <1>4, <2>1
<1> QED
  BY <1>2, <1>3, <1>5, <1>6 DEF Next

\* In one process that can read its file, a record that was made stays in the
\* file until it is too old: the lock lets no thread write back what it read
\* before another thread wrote.
THEOREM RecordsKept == Spec => []NothingForgotten
<1> DEFINE I == TypeOK /\ Bookkeeping /\ Locked /\ NothingForgotten
<1>1. Init => I
  <2> SUFFICES ASSUME Init PROVE I
    OBVIOUS
  <2>1. \A t \in Threads : thread[t].pc = "idle"
    BY IdleFacts DEF Init
  <2>2. Locked
    BY <2>1 DEF Locked
  <2>3. NothingForgotten
    BY DEF Init, NothingForgotten
  <2> QED
    BY <2>2, <2>3, TypeInit
<1>2. I /\ [Next]_vars => I'
  BY TypeStep, LockedStep, ForgottenStep
<1>3. Spec => []I
  BY <1>1, <1>2, PTL DEF Spec
<1> QED
  BY <1>3, PTL

-----------------------------------------------------------------------------
(* Records and certificates *)

\* The CA never gives a number twice.
LEMMA OwnNumbersStep ==
    ASSUME TypeOK, Bookkeeping, OwnNumbers, [Next]_vars
    PROVE  OwnNumbers'
<1>1. ASSUME issuances' = issuances PROVE OwnNumbers'
  BY <1>1 DEF OwnNumbers
<1>2. ASSUME NEW t \in Threads, CaIssues(t) PROVE OwnNumbers'
  <2>1. PICK w \in ThreadState :
           \/ /\ issuances' = issuances \cup
                    {[id |-> w.id, names |-> thread[t].names, at |-> now]}
              /\ \A i \in issuances : i.id < w.id
           \/ issuances' = issuances
    BY <1>2, CaIssuesEffect
  <2> DEFINE new == [id |-> w.id, names |-> thread[t].names, at |-> now]
  <2>2. ASSUME issuances' = issuances \cup {new}, \A i \in issuances : i.id < w.id
        PROVE  OwnNumbers'
    <3>1. \A i \in issuances : i.id # new.id
      <4> SUFFICES ASSUME NEW i \in issuances, NEW k, k = i.id, k = new.id PROVE FALSE
        OBVIOUS
      <4>1. k \in Nat /\ k < k
        BY <2>2, TypeFacts
      <4> QED
        BY <4>1
    <3> HIDE DEF new
    <3> QED
      BY <2>2, <3>1 DEF OwnNumbers
  <2> QED
    BY <1>1, <2>1, <2>2
<1>3. CASE Tick \/ UNCHANGED vars
  BY <1>1, <1>3 DEF Tick, vars
<1>4. ASSUME NEW t \in Threads,
             \/ \E names \in Orders : BeginCheck(t, names)
             \/ CheckDomain(t) \/ BeginRecord(t)
             \/ Load(t) \/ Save(t) \/ SaveFails(t) \/ Crash(t)
      PROVE  OwnNumbers'
  <2>1. issuances' = issuances
    BY <1>4 DEF BeginCheck, CheckDomain, BeginRecord, Load, Save, SaveFails, Crash
  <2> QED
    BY <1>1, <2>1
<1> QED
  BY <1>2, <1>3, <1>4 DEF Next

\* A thread goes on; what is in its copy of the file, and in the file, is
\* single, and is not what it or another thread makes next.
LEMMA OneRecordTurn ==
    ASSUME OneRecordEach, NEW t \in Threads, NEW w, Turns(t, w),
           Recording(w) => \A s \in Threads \ {t} : Recording(thread[s]) => thread[s].id # w.id,
           \A records \in Files : \A r \in records : Unmade(w, r),
           w.records \in Files \cup {{}},
           Single(file'), \A r \in file' : Unmade(w, r),
           \A s \in Threads \ {t}, r \in file' : Unmade(thread[s], r)
    PROVE  OneRecordEach'
<1>1. \A s \in Threads : thread'[s] = IF s = t THEN w ELSE thread[s]
  BY DEF Turns
<1>2. \A s, r \in Threads :
         Recording(thread'[s]) /\ Recording(thread'[r]) /\ thread'[s].id = thread'[r].id => s = r
  BY <1>1 DEF OneRecordEach
<1>3. ASSUME NEW records \in Files
      PROVE  Single(records) /\ \A s \in Threads, r \in records : Unmade(thread'[s], r)
  BY <1>1, <1>3 DEF OneRecordEach
<1>4. Single(file') /\ \A s \in Threads, r \in file' : Unmade(thread'[s], r)
  BY <1>1
<1>5. Single({}) /\ \A s \in Threads, r \in {} : Unmade(thread'[s], r)
  BY DEF Single
<1>6. {file'} \cup {thread'[s].records : s \in Threads} \subseteq Files \cup {{}, file'}
  BY <1>1 DEF Files
<1>7. \A records \in Files \cup {{}, file'} :
         Single(records) /\ \A s \in Threads, r \in records : Unmade(thread'[s], r)
  BY <1>3, <1>4, <1>5
<1> QED
  BY <1>2, <1>6, <1>7 DEF OneRecordEach, Files

\* A thread that does not begin to make records leaves the others their own.
LEMMA OneRecordKept ==
    ASSUME OneRecordEach, NEW t \in Threads, NEW w, Turns(t, w), file' = file,
           Recording(w) =>
              /\ Recording(thread[t]) /\ w.id = thread[t].id /\ w.pc # "issued"
              /\ thread[t].pc # "issued" => w.todo \subseteq thread[t].todo,
           w.records \in Files \cup {{}}
    PROVE  OneRecordEach'
<1>1. \A records \in Files : \A r \in records : Unmade(thread[t], r) => Unmade(w, r)
  BY DEF Unmade
<1>2. \A records \in Files :
         Single(records) /\ \A s \in Threads, r \in records : Unmade(thread[s], r)
  BY DEF OneRecordEach
<1>3. file \in Files
  BY DEF Files
<1>4. Recording(w) => \A s \in Threads \ {t} : Recording(thread[s]) => thread[s].id # w.id
  BY DEF OneRecordEach
<1>5. \A records \in Files : \A r \in records : Unmade(w, r)
  BY <1>1, <1>2
<1>6. Single(file') /\ (\A r \in file' : Unmade(w, r))
      /\ \A s \in Threads \ {t}, r \in file' : Unmade(thread[s], r)
  BY <1>2, <1>3, <1>5
<1> QED
  BY <1>4, <1>5, <1>6, OneRecordTurn

\* Every step keeps the records apart.
LEMMA OneRecordStep ==
    ASSUME TypeOK, Bookkeeping, OneRecordEach, [Next]_vars
    PROVE  OneRecordEach'
<1>0. \A t \in Threads : thread[t].records \in Files
  BY DEF Files
<1>1. CASE UNCHANGED vars \/ Tick
  BY <1>1 DEF Tick, OneRecordEach, Files, vars
<1>2. ASSUME NEW t \in Threads, NEW names \in Orders, BeginCheck(t, names)
      PROVE  OneRecordEach'
  <2>1. PICK w \in ThreadState : Turns(t, w) /\ w.pc = "check" /\ w.records = {}
    BY <1>2, BeginCheckEffect
  <2> QED
    BY <1>2, <2>1, BeginCheckEffect, OneRecordKept DEF Recording
<1>3. ASSUME NEW t \in Threads, CheckDomain(t) PROVE OneRecordEach'
  <2>1. PICK w \in ThreadState :
           Turns(t, w) /\ w.pc \in {"idle", "check", "issue"} /\ w.records \in {thread[t].records, {}}
    BY <1>3, CheckDomainEffect, IdleFacts
  <2> QED
    BY <1>0, <1>3, <2>1, CheckDomainEffect, OneRecordKept DEF Recording
<1>4. ASSUME NEW t \in Threads, CaIssues(t) PROVE OneRecordEach'
  <2>1. PICK w \in ThreadState :
           \/ /\ Turns(t, w) /\ w.id \in 1..scenario.max /\ w.pc = "issued"
              /\ w.records = thread[t].records
              /\ \A i \in issuances : i.id < w.id
           \/ Turns(t, w) /\ w = Idle
    BY <1>4, CaIssuesEffect
  <2>2. file' = file
    BY <1>4, CaIssuesEffect
  <2>3. CASE Turns(t, w) /\ w = Idle
    BY <2>2, <2>3, IdleFacts, OneRecordKept DEF Recording
  <2>4. ASSUME Turns(t, w), w.pc = "issued", w.records = thread[t].records,
               \A i \in issuances : i.id < w.id
        PROVE  OneRecordEach'
    <3>1. \A i \in issuances : i.id # w.id
      <4> SUFFICES ASSUME NEW i \in issuances, NEW k, k = i.id, k = w.id PROVE FALSE
        OBVIOUS
      <4>1. k \in Nat /\ k < k
        BY <2>4, TypeFacts
      <4> QED
        BY <4>1
    <3>2. \A records \in Files : \A r \in records : MadeFor(r, issuances)
      BY TypeFacts DEF Files, Bookkeeping, Plausible
    <3>3. \A records \in Files : \A r \in records : r.id # w.id
      BY <3>1, <3>2 DEF MadeFor
    <3>4. \A records \in Files : \A r \in records : Unmade(w, r)
      BY <3>3 DEF Unmade
    <3>5. \A s \in Threads : Recording(thread[s]) => thread[s].id # w.id
      BY <3>1 DEF Bookkeeping, Plausible, Recording
    <3>6. file \in Files
      BY DEF Files
    <3>7. Single(file') /\ (\A r \in file' : Unmade(w, r))
          /\ \A s \in Threads \ {t}, r \in file' : Unmade(thread[s], r)
      BY <2>2, <3>4, <3>6 DEF OneRecordEach
    <3> QED
      BY <1>0, <2>4, <3>4, <3>5, <3>7, OneRecordTurn
  <2> QED
    BY <2>1, <2>3, <2>4
<1>5. ASSUME NEW t \in Threads, BeginRecord(t) PROVE OneRecordEach'
  <2>1. PICK w \in ThreadState :
           /\ Turns(t, w) /\ w.pc = "load" /\ w.id = thread[t].id
           /\ w.records = thread[t].records
    BY <1>5, BeginRecordEffect
  <2> QED
    BY <1>0, <1>5, <2>1, BeginRecordEffect, OneRecordKept DEF Recording
<1>6. ASSUME NEW t \in Threads, Load(t) PROVE OneRecordEach'
  <2>1. PICK w \in ThreadState :
           /\ Turns(t, w) /\ w.pc = "save" /\ w.id = thread[t].id /\ w.todo = thread[t].todo
           /\ w.records \in Readable(file)
    BY <1>6, LoadEffect
  <2>2. w.records \in Files \cup {{}}
    BY <2>1 DEF Readable, Files
  <2>3. thread[t].pc = "load" /\ file' = file
    BY <1>6, LoadEffect
  <2> QED
    BY <2>1, <2>2, <2>3, OneRecordKept DEF Recording
<1>7. ASSUME NEW t \in Threads, Save(t) PROVE OneRecordEach'
  <2>1. PICK d \in thread[t].todo, w \in ThreadState :
           /\ Turns(t, w)
           /\ file' = {r \in thread[t].records \cup {NewRecord(t, d)} :
                          r.at >= Since(PruneAge)}
           /\ w.records = {}
           /\ \/ w.pc = "idle"
              \/ w.pc = "load" /\ w.id = thread[t].id /\ w.todo = thread[t].todo \ {d}
    BY <1>7, SaveEffect
  <2>2. thread[t].pc = "save" /\ Recording(thread[t])
    BY <1>7, SaveEffect DEF Recording
  <2>3. /\ file' \subseteq thread[t].records \cup {NewRecord(t, d)}
        /\ NewRecord(t, d).id = thread[t].id /\ NewRecord(t, d).domain = d
    BY <2>1 DEF NewRecord
  <2>4. \A r \in thread[t].records : ~ (r.id = thread[t].id /\ r.domain = d)
    BY <1>0, <2>1, <2>2 DEF OneRecordEach, Unmade
  <2>5. Single(file')
    BY <1>0, <2>3, <2>4 DEF OneRecordEach, Single
  <2>6. \A records \in Files : \A r \in records : Unmade(w, r)
    BY <2>1, <2>2 DEF OneRecordEach, Unmade, Recording
  <2>7. \A r \in file' : Unmade(w, r)
    BY <1>0, <2>1, <2>3, <2>6 DEF Unmade, Recording
  <2>8. \A s \in Threads \ {t}, r \in file' : Unmade(thread[s], r)
    BY <1>0, <2>2, <2>3 DEF OneRecordEach, Unmade
  <2>9. Recording(w) =>
           \A s \in Threads \ {t} : Recording(thread[s]) => thread[s].id # w.id
    BY <2>1, <2>2 DEF OneRecordEach, Recording
  <2> QED
    BY <2>1, <2>5, <2>6, <2>7, <2>8, <2>9, OneRecordTurn
<1>8. ASSUME NEW t \in Threads, SaveFails(t) \/ Crash(t) PROVE OneRecordEach'
  <2>1. /\ file' = file
        /\ \A s \in Threads : thread'[s] = Idle \/ thread'[s] = thread[s]
    BY <1>8, StopEffect
  <2>2. \A s \in Threads :
           /\ Recording(thread'[s]) => thread'[s] = thread[s]
           /\ thread'[s].records \in {thread[s].records, {}}
    BY <2>1, IdleFacts DEF Recording
  <2>3. {file'} \cup {thread'[s].records : s \in Threads} \subseteq Files \cup {{}}
    BY <2>1, <2>2 DEF Files
  <2>4. \A records \in Files \cup {{}} :
           Single(records) /\ \A s \in Threads, r \in records : Unmade(thread[s], r)
    BY DEF OneRecordEach, Single
  <2>5. \A records \in Files \cup {{}} :
           Single(records) /\ \A s \in Threads, r \in records : Unmade(thread'[s], r)
    BY <2>2, <2>4 DEF Unmade
  <2>6. \A s, r \in Threads :
           Recording(thread'[s]) /\ Recording(thread'[r]) /\ thread'[s].id = thread'[r].id
              => s = r
    BY <2>2 DEF OneRecordEach
  <2> QED
    BY <2>3, <2>5, <2>6 DEF OneRecordEach, Files
<1> QED
  BY <1>1, <1>2, <1>3, <1>4, <1>5, <1>6, <1>7, <1>8 DEF Next

-----------------------------------------------------------------------------
(* No refusal without need *)

\* A function that tells the elements of S apart counts them.
LEMMA CountByInjection ==
    ASSUME NEW S, NEW T, IsFiniteSet(T), NEW f \in [S -> T],
           \A a, b \in S : f[a] = f[b] => a = b
    PROVE  Cardinality(S) <= Cardinality(T)
<1>1. f \in Injection(S, T)
  BY DEF Injection, IsInjective
<1> QED
  BY <1>1, FS_Injection

\* The tracker keeps apart at least what the CA keeps apart: names of one
\* registered domain are counted together by the CA.
Finer == \A m, n \in UNION Orders :
            RegisteredDomain(m) = RegisteredDomain(n) => CaDomain(m) = CaDomain(n)

\* If records are made at most lag after their certificates, no more of them
\* are counted for the registered domain of a name than the CA has issued
\* certificates for it in a window that begins earlier by lag.
LEMMA CountIsIssued ==
    ASSUME TypeOK, Bookkeeping, OneRecordEach, Finer, NEW o \in Orders, NEW n \in o,
           NEW since \in Nat, NEW lag \in Nat, RecordedWithin(lag),
           NEW records \in Readable(file)
    PROVE  Count(records, RegisteredDomain(n), since) <= CaCount(CaDomain(n), Ago(since, lag))
<1> DEFINE S == {r \in records : r.domain = RegisteredDomain(n) /\ r.at >= since}
           T == {i \in issuances : /\ \E m \in i.names : CaDomain(m) = CaDomain(n)
                                   /\ i.at >= Ago(since, lag)}
           f == [r \in S |-> CHOOSE i \in T : i.id = r.id]
<1>1. IsFiniteSet(T)
  BY FS_Subset DEF Bookkeeping
<1>2. records \subseteq file /\ Single(file)
  BY DEF Readable, OneRecordEach, Files
<1>3. ASSUME NEW r \in S PROVE \E i \in T : i.id = r.id
  <2>1. PICK i \in issuances : i.id = r.id /\ r.domain \in RegisteredDomains(i.names)
    BY <1>2, TypeFacts DEF MadeFor
  <2>2. PICK m \in i.names : RegisteredDomain(m) = RegisteredDomain(n)
    BY <2>1 DEF RegisteredDomains
  <2>3. m \in UNION Orders /\ n \in UNION Orders
    BY TypeFacts
  <2>4. CaDomain(m) = CaDomain(n)
    BY <2>2, <2>3 DEF Finer
  <2>5. i.at \in Nat /\ r.at \in Nat
    BY <1>2, TypeFacts DEF Record
  <2>6. r.at <= i.at + lag /\ r.at >= since
    BY <1>2, <2>1 DEF RecordedWithin
  <2>7. i.at >= Ago(since, lag)
    BY <2>5, <2>6 DEF Ago
  <2> QED
    BY <2>1, <2>4, <2>7
<1>4. \A r \in S : f[r] \in T /\ f[r].id = r.id
  BY <1>3
<1>5. \A q, r \in S : q.id = r.id => q = r
  BY <1>2 DEF Single
<1>6. f \in [S -> T]
  BY <1>4
<1>7. \A q, r \in S : f[q] = f[r] => q = r
  <2> HIDE DEF S, T, f
  <2> QED
    BY <1>4, <1>5
<1>8. Cardinality(S) <= Cardinality(T)
  <2> HIDE DEF S, T, f
  <2> QED
    BY <1>1, <1>6, <1>7, CountByInjection
<1> QED
  BY <1>8 DEF Count, CaCount

\* check refuses an order only if the tracker blocks and the CA has issued as
\* many certificates as the limit allows for one of its names within the
\* window, which begins earlier by the time the records took, when the tracker
\* merges nothing the CA keeps apart.
THEOREM NeverTooStrict == Finer => (Spec => RefusalIsDue)
<1> SUFFICES ASSUME Finer PROVE Spec => RefusalIsDue
  OBVIOUS
<1> DEFINE I == TypeOK /\ Bookkeeping /\ OneRecordEach
           Refused(t, lag) ==
               /\ scenario.block
               /\ \E n \in thread[t].names :
                     CaCount(CaDomain(n), Ago(WindowStart(t), lag)) >= Limit
           Due == \A t \in Threads, lag \in 0..MaxTime :
               /\ "crash" \notin scenario.faults
               /\ thread[t].pc = "check" /\ thread'[t].pc = "idle"
               /\ RecordedWithin(lag)
               => Refused(t, lag)
<1>1. Init => I
  <2> SUFFICES ASSUME Init PROVE OneRecordEach
    BY TypeInit
  <2>1. file = {} /\ \A t \in Threads : thread[t].pc = "idle" /\ thread[t].records = {}
    BY IdleFacts DEF Init
  <2>2. Files \subseteq {{}}
    BY <2>1 DEF Files
  <2> QED
    BY <2>1, <2>2 DEF OneRecordEach, Single, Recording
<1>2. I /\ [Next]_vars => I'
  BY TypeStep, OneRecordStep
<1>3. I /\ [Next]_vars => [Due]_vars
  <2> SUFFICES ASSUME I, Next, NEW t \in Threads, NEW lag \in 0..MaxTime,
                      "crash" \notin scenario.faults,
                      thread[t].pc = "check", thread'[t].pc = "idle", RecordedWithin(lag)
               PROVE  Refused(t, lag)
    OBVIOUS
  <2>1. ASSUME NEW s \in Threads, NEW w, Turns(s, w), s # t PROVE FALSE
    BY <2>1 DEF Turns
  <2>2. ASSUME NEW s \in Threads, CheckDomain(s) PROVE Refused(t, lag)
    <3>1. PICK d \in thread[s].todo, records \in Readable(file), w \in ThreadState :
             /\ Turns(s, w)
             /\ \/ Count(records, d, WindowStart(s)) >= Limit /\ scenario.block
                \/ w.pc \in {"issue", "check"}
      BY <2>2, CheckDomainEffect
    <3>2. s = t
      BY <2>1, <3>1
    <3>3. Count(records, d, WindowStart(t)) >= Limit /\ scenario.block
      BY <3>1, <3>2 DEF Turns
    <3>4. thread[t].names \in Orders /\ thread[t].todo \subseteq RegisteredDomains(thread[t].names)
          /\ thread[t] \in ThreadState
      BY DEF Bookkeeping, Plausible
    <3>5. PICK n \in thread[t].names : d = RegisteredDomain(n)
      BY <3>1, <3>2, <3>4 DEF RegisteredDomains
    <3>6. WindowStart(t) \in Nat /\ lag \in Nat
      BY WindowFacts, TypeFacts
    <3> DEFINE issued == {i \in issuances :
                            /\ \E m \in i.names : CaDomain(m) = CaDomain(n)
                            /\ i.at >= Ago(WindowStart(t), lag)}
               counted == {r \in records : r.domain = d /\ r.at >= WindowStart(t)}
    <3>7. Cardinality(counted) <= Cardinality(issued) /\ Cardinality(counted) >= Limit
      BY <3>3, <3>4, <3>5, <3>6, CountIsIssued DEF Count, CaCount
    <3>8. IsFiniteSet(issued) /\ IsFiniteSet(counted)
      <4>1. counted \subseteq file
        BY DEF Readable
      <4> QED
        BY <4>1, FS_Subset DEF Bookkeeping
    <3>9. Cardinality(issued) \in Nat /\ Cardinality(counted) \in Nat
      BY <3>8, FS_CardinalityType
    <3>10. Cardinality(issued) >= Limit
      <4> HIDE DEF issued, counted
      <4> QED
        BY <3>7, <3>9, TypeFacts
    <3> QED
      BY <3>3, <3>10 DEF CaCount
  <2>3. CASE Tick
    BY <2>3 DEF Tick
  <2>4. ASSUME NEW s \in Threads, NEW names \in Orders, BeginCheck(s, names) PROVE FALSE
    BY <2>1, <2>4, BeginCheckEffect
  <2>5. ASSUME NEW s \in Threads, CaIssues(s) PROVE FALSE
    BY <2>1, <2>5, CaIssuesEffect
  <2>6. ASSUME NEW s \in Threads, BeginRecord(s) PROVE FALSE
    BY <2>1, <2>6, BeginRecordEffect
  <2>7. ASSUME NEW s \in Threads, Load(s) PROVE FALSE
    BY <2>1, <2>7, LoadEffect
  <2>8. ASSUME NEW s \in Threads, Save(s) PROVE FALSE
    BY <2>1, <2>8, SaveEffect
  <2>9. ASSUME NEW s \in Threads, SaveFails(s) PROVE FALSE
    BY <2>9 DEF SaveFails, Bookkeeping
  <2> QED
    BY <2>2, <2>3, <2>4, <2>5, <2>6, <2>7, <2>8, <2>9 DEF Next, Crash
<1> QED
  BY <1>1, <1>2, <1>3, PTL DEF Spec, RefusalIsDue

-----------------------------------------------------------------------------
(* The limit is kept *)

\* What an obliging application gives: no failures, and one thread at work.
LEMMA ObligingFacts ==
    ASSUME Obliging, Locked
    PROVE  /\ "read" \notin scenario.faults /\ "save" \notin scenario.faults
           /\ "crash" \notin scenario.faults
           /\ \A s, t \in Threads : thread[s].pc # "idle" /\ thread[t].pc # "idle" => s = t
           /\ \A t \in Threads : thread[t].pc = "save" => thread[t].records = file
  BY DEF Obliging, Locked, Exclusive

\* A thread that owes as much as before leaves the records complete.
LEMMA CompleteTurn ==
    ASSUME RecordsComplete, NEW t \in Threads, NEW w, Turns(t, w),
           UNCHANGED <<scenario, now, file, issuances>>,
           \A i \in issuances : \A d \in RegisteredDomains(i.names) :
              Owes(thread[t], i, d) => Owes(w, i, d)
    PROVE  RecordsComplete'
<1> SUFFICES ASSUME Obliging, NEW i \in issuances, i.at >= Since(scenario.window),
                    NEW d \in RegisteredDomains(i.names)
             PROVE  \/ \E r \in file : r.id = i.id /\ r.domain = d /\ r.at >= i.at
                    \/ \E s \in Threads : Owes(thread'[s], i, d)
  BY DEF RecordsComplete, Obliging, Since
<1>1. ASSUME NEW s \in Threads, Owes(thread[s], i, d)
      PROVE  \E q \in Threads : Owes(thread'[q], i, d)
  BY <1>1 DEF Turns
<1> QED
  BY <1>1 DEF RecordsComplete

\* Every step keeps the records complete.
LEMMA CompleteStep ==
    ASSUME TypeOK, Bookkeeping, Locked, OwnNumbers, RecordsComplete, [Next]_vars
    PROVE  RecordsComplete'
<1>0. /\ now \in Nat /\ scenario.window \in Nat /\ PruneAge \in Nat
      /\ Since(scenario.window) \in Nat /\ Since(PruneAge) \in Nat
      /\ \A i \in issuances : i.at \in Nat
  BY TypeFacts, SinceFacts
<1>1. ASSUME NEW t \in Threads, NEW w, Turns(t, w), ~ Recording(thread[t]),
             UNCHANGED <<scenario, now, file, issuances>>
      PROVE  RecordsComplete'
  BY <1>1, CompleteTurn DEF Owes
<1>2. CASE UNCHANGED vars
  BY <1>2 DEF RecordsComplete, Obliging, Since, Owes, vars
<1>3. CASE Tick
  <2> SUFFICES ASSUME Obliging, NEW i \in issuances, i.at >= Since(scenario.window)',
                      NEW d \in RegisteredDomains(i.names)
               PROVE  \/ \E r \in file : r.id = i.id /\ r.domain = d /\ r.at >= i.at
                      \/ \E s \in Threads : Owes(thread[s], i, d)
    BY <1>3 DEF Tick, RecordsComplete, Obliging, Owes
  <2>1. now' = now + 1 /\ UNCHANGED scenario
    BY <1>3 DEF Tick
  <2>2. Since(scenario.window)' \in Nat /\ Since(scenario.window) <= Since(scenario.window)'
    BY <1>0, <2>1, SinceFacts DEF Since
  <2>3. i.at >= Since(scenario.window)
    BY <1>0, <2>2
  <2> QED
    BY <2>3 DEF RecordsComplete
<1>4. ASSUME NEW t \in Threads, NEW names \in Orders, BeginCheck(t, names)
      PROVE  RecordsComplete'
  BY <1>1, <1>4, BeginCheckEffect DEF Recording
<1>5. ASSUME NEW t \in Threads, CheckDomain(t) PROVE RecordsComplete'
  BY <1>1, <1>5, CheckDomainEffect DEF Recording
<1>6. ASSUME NEW t \in Threads, CaIssues(t) PROVE RecordsComplete'
  <2>1. PICK w \in ThreadState :
           \/ /\ Turns(t, w)
              /\ issuances' = issuances \cup
                    {[id |-> w.id, names |-> thread[t].names, at |-> now]}
              /\ w.pc = "issued"
           \/ Turns(t, w) /\ issuances' = issuances
    BY <1>6, CaIssuesEffect
  <2>2. thread[t].pc = "issue" /\ UNCHANGED <<scenario, now, file, recorded>>
    BY <1>6, CaIssuesEffect
  <2>3. CASE Turns(t, w) /\ issuances' = issuances
    BY <1>1, <2>2, <2>3 DEF Recording
  <2>4. ASSUME Turns(t, w), w.pc = "issued", NEW new, issuances' = issuances \cup {new},
               new.id = w.id
        PROVE  RecordsComplete'
    <3>1. \A s \in Threads : Recording(thread[s]) => thread'[s] = thread[s]
      BY <2>2, <2>4 DEF Turns, Recording
    <3>2. \A d : Owes(thread'[t], new, d)
      BY <2>4 DEF Turns, Owes, Recording
    <3> SUFFICES ASSUME Obliging, NEW i \in issuances', i.at >= Since(scenario.window),
                        NEW d \in RegisteredDomains(i.names)
                 PROVE  \/ \E r \in file : r.id = i.id /\ r.domain = d /\ r.at >= i.at
                        \/ \E s \in Threads : Owes(thread'[s], i, d)
      BY <2>2 DEF RecordsComplete, Obliging, Since
    <3>3. CASE i = new
      BY <3>2, <3>3
    <3>4. CASE i \in issuances
      BY <3>1, <3>4 DEF RecordsComplete, Owes
    <3> QED
      BY <2>4, <3>3, <3>4
  <2> QED
    BY <2>1, <2>3, <2>4
<1>7. ASSUME NEW t \in Threads, BeginRecord(t) PROVE RecordsComplete'
  <2>1. PICK w \in ThreadState :
           /\ Turns(t, w) /\ w.pc = "load" /\ w.id = thread[t].id
           /\ w.todo = RegisteredDomains(thread[t].names)
    BY <1>7, BeginRecordEffect
  <2>2. thread[t].pc = "issued" /\ UNCHANGED <<scenario, now, file, issuances>>
    BY <1>7, BeginRecordEffect
  <2>3. PICK j \in issuances : j.id = thread[t].id /\ j.names = thread[t].names
    BY <2>2 DEF Bookkeeping, Plausible
  <2>4. ASSUME NEW i \in issuances, NEW d \in RegisteredDomains(i.names),
               Owes(thread[t], i, d)
        PROVE  Owes(w, i, d)
    <3>1. i = j
      BY <2>3, <2>4 DEF Owes, OwnNumbers
    <3> QED
      BY <2>1, <2>3, <2>4, <3>1 DEF Owes, Recording
  <2> QED
    BY <2>1, <2>2, <2>4, CompleteTurn
<1>8. ASSUME NEW t \in Threads, Load(t) PROVE RecordsComplete'
  <2>1. PICK w \in ThreadState :
           Turns(t, w) /\ w.pc = "save" /\ w.id = thread[t].id /\ w.todo = thread[t].todo
    BY <1>8, LoadEffect
  <2>2. thread[t].pc = "load" /\ UNCHANGED <<scenario, now, file, issuances>>
    BY <1>8, LoadEffect
  <2>3. \A i, d : Owes(thread[t], i, d) => Owes(w, i, d)
    BY <2>1, <2>2 DEF Owes, Recording
  <2> QED
    BY <2>1, <2>2, <2>3, CompleteTurn
<1>9. ASSUME NEW t \in Threads, Save(t) PROVE RecordsComplete'
  <2>1. PICK e \in thread[t].todo, w \in ThreadState :
           /\ Turns(t, w)
           /\ file' = {r \in thread[t].records \cup {NewRecord(t, e)} :
                          r.at >= Since(PruneAge)}
           /\ NewRecord(t, e) \in Record
           /\ \/ thread[t].todo = {e}
              \/ w.pc = "load" /\ w.id = thread[t].id /\ w.todo = thread[t].todo \ {e}
    BY <1>9, SaveEffect
  <2>2. thread[t].pc = "save" /\ UNCHANGED <<scenario, now, issuances>>
    BY <1>9, SaveEffect
  <2> SUFFICES ASSUME Obliging, NEW i \in issuances, i.at >= Since(scenario.window),
                      NEW d \in RegisteredDomains(i.names)
               PROVE  \/ \E r \in file' : r.id = i.id /\ r.domain = d /\ r.at >= i.at
                      \/ \E s \in Threads : Owes(thread'[s], i, d)
    BY <2>2 DEF RecordsComplete, Obliging, Since
  <2>3. Since(PruneAge) <= Since(scenario.window)
    BY <1>0, SinceFacts DEF Obliging
  <2>4. i.at >= Since(PruneAge)
    BY <1>0, <2>3
  <2>5. ASSUME NEW r \in thread[t].records \cup {NewRecord(t, e)},
               r.id = i.id, r.domain = d, r.at >= i.at
        PROVE  \E q \in file' : q.id = i.id /\ q.domain = d /\ q.at >= i.at
    <3>1. r \in Record
      BY <2>1, <2>2, ThreadFields DEF Bookkeeping
    <3>2. r.at \in Nat
      BY <3>1, TypeFacts DEF Record
    <3>3. r.at >= Since(PruneAge)
      BY <1>0, <2>4, <2>5, <3>2
    <3> QED
      BY <2>1, <2>5, <3>3
  <2>6. CASE \E r \in file : r.id = i.id /\ r.domain = d /\ r.at >= i.at
    BY <2>2, <2>5, <2>6, ObligingFacts
  <2>7. ASSUME NEW s \in Threads, Owes(thread[s], i, d)
        PROVE  \/ \E r \in file' : r.id = i.id /\ r.domain = d /\ r.at >= i.at
               \/ \E q \in Threads : Owes(thread'[q], i, d)
    <3>1. s = t
      BY <2>2, <2>7, ObligingFacts DEF Owes, Recording
    <3>2. thread[t].id = i.id /\ d \in thread[t].todo
      BY <2>2, <2>7, <3>1 DEF Owes
    <3>3. CASE d = e
      <4>1. PICK j \in issuances : j.id = thread[t].id /\ j.at <= thread[t].at
        BY <2>2 DEF Bookkeeping, Plausible
      <4>2. i = j
        BY <3>2, <4>1 DEF OwnNumbers
      <4>3. thread[t].at \in Nat
        BY ThreadFields, TypeFacts DEF Bookkeeping
      <4>4. /\ NewRecord(t, e).id = i.id /\ NewRecord(t, e).domain = d
            /\ NewRecord(t, e).at = thread[t].at
        BY <3>2, <3>3 DEF NewRecord
      <4>5. i.at <= thread[t].at
        BY <4>1, <4>2
      <4>6. thread[t].at >= i.at
        BY <1>0, <4>3, <4>5
      <4> QED
        BY <2>5, <4>4, <4>6
    <3>4. CASE d # e
      BY <2>1, <3>2, <3>4 DEF Turns, Owes, Recording
    <3> QED
      BY <3>3, <3>4
  <2> QED
    BY <2>6, <2>7 DEF RecordsComplete
<1>10. ASSUME NEW t \in Threads, SaveFails(t) \/ Crash(t) PROVE RecordsComplete'
  <2>1. ~ Obliging /\ scenario' = scenario
    BY <1>10, ObligingFacts DEF SaveFails, Crash
  <2> QED
    BY <2>1 DEF RecordsComplete, Obliging
<1> QED
  BY <1>2, <1>3, <1>4, <1>5, <1>6, <1>7, <1>8, <1>9, <1>10 DEF Next

\* The certificates of a window can be counted.
LEMMA IssuedCount ==
    ASSUME TypeOK, Bookkeeping, NEW d, NEW since
    PROVE  /\ IsFiniteSet(IssuedFor(d, since))
           /\ Cardinality(IssuedFor(d, since)) \in Nat
<1>1. IsFiniteSet(IssuedFor(d, since))
  BY FS_Subset DEF Bookkeeping, IssuedFor
<1> QED
  BY <1>1, FS_CardinalityType

\* If every certificate of a window has its record, no fewer records are
\* counted from an earlier time on.
LEMMA IssuedIsCounted ==
    ASSUME TypeOK, Bookkeeping, OwnNumbers, NEW d, NEW since \in Nat, NEW at \in Nat, at <= since,
           \A i \in IssuedFor(d, since) :
              \E r \in file : r.id = i.id /\ r.domain = d /\ r.at >= i.at
    PROVE  Cardinality(IssuedFor(d, since)) <= Count(file, d, at)
<1> DEFINE S == IssuedFor(d, since)
           T == {r \in file : r.domain = d /\ r.at >= at}
           f == [i \in S |-> CHOOSE r \in T : r.id = i.id]
<1>1. IsFiniteSet(T)
  BY FS_Subset DEF Bookkeeping
<1>2. ASSUME NEW i \in S PROVE \E r \in T : r.id = i.id
  <2>1. PICK r \in file : r.id = i.id /\ r.domain = d /\ r.at >= i.at
    OBVIOUS
  <2>2. i.at \in Nat /\ i.at >= since
    BY TypeFacts DEF IssuedFor
  <2>3. r \in Record /\ MaxTime \in Nat
    BY TypeFacts
  <2>4. r.at \in Nat
    BY <2>3 DEF Record
  <2>5. r.at >= at
    BY <2>1, <2>2, <2>4
  <2> QED
    BY <2>1, <2>5
<1>3. \A i \in S : f[i] \in T /\ f[i].id = i.id
  BY <1>2
<1>4. \A i, j \in S : i.id = j.id => i = j
  BY DEF OwnNumbers, IssuedFor
<1>5. f \in [S -> T]
  BY <1>3
<1>6. Cardinality(S) <= Cardinality(T)
  <2> HIDE DEF S, T, f
  <2>1. \A i, j \in S : f[i] = f[j] => i = j
    BY <1>3, <1>4
  <2> QED
    BY <1>1, <1>5, <2>1, CountByInjection
<1> QED
  BY <1>6 DEF Count

\* A thread that leaves check, or goes on after issuing, counts no longer.
LEMMA WithinTurn ==
    ASSUME WithinLimit, NEW t \in Threads, NEW w, Turns(t, w),
           UNCHANGED <<scenario, now, issuances>>, w.pc \notin {"check", "issue"}
    PROVE  WithinLimit'
<1> SUFFICES ASSUME Obliging
             PROVE  WithinLimit'
  BY DEF WithinLimit, Obliging
<1>1. \A d \in UNION {RegisteredDomains(o) : o \in Orders} :
         Cardinality(IssuedFor(d, Since(scenario.window))') <= Limit
  BY DEF WithinLimit, IssuedFor, Since
<1>2. ASSUME NEW s \in Threads, NEW d \in RegisteredDomains(thread'[s].names),
             thread'[s].pc = "issue" \/ (thread'[s].pc = "check" /\ d \notin thread'[s].todo)
      PROVE  Cardinality(IssuedFor(d, Since(scenario.window))') < Limit
  BY <1>2 DEF WithinLimit, IssuedFor, Since, Turns
<1>3. ASSUME NEW s \in Threads, thread'[s].pc = "check"
      PROVE  WindowStart(s)' <= Since(scenario.window)'
  BY <1>3 DEF WithinLimit, Since, WindowStart, Turns
<1> QED
  BY <1>1, <1>2, <1>3 DEF WithinLimit

\* Every step stays within the limit.
LEMMA WithinStep ==
    ASSUME TypeOK, Bookkeeping, Locked, OwnNumbers, RecordsComplete, WithinLimit, [Next]_vars
    PROVE  WithinLimit'
<1>0. /\ now \in Nat /\ scenario.window \in Nat /\ Limit \in Nat
      /\ Since(scenario.window) \in Nat
  BY TypeFacts, SinceFacts
<1> DEFINE Old(d) == IssuedFor(d, Since(scenario.window))
           New(d) == IssuedFor(d, Since(scenario.window))'
<1>1. CASE UNCHANGED vars
  BY <1>1 DEF WithinLimit, Obliging, IssuedFor, Since, WindowStart, vars
<1>2. CASE Tick
  <2>1. now' = now + 1 /\ UNCHANGED <<scenario, thread, issuances>>
    BY <1>2 DEF Tick
  <2>2. Since(scenario.window)' \in Nat /\ Since(scenario.window) <= Since(scenario.window)'
    BY <1>0, <2>1, SinceFacts DEF Since
  <2>3. \A d : New(d) \subseteq Old(d)
    <3> SUFFICES ASSUME NEW i \in issuances, i.at >= Since(scenario.window)'
                 PROVE  i.at >= Since(scenario.window)
      BY <2>1 DEF IssuedFor
    <3>1. i.at \in Nat
      BY TypeFacts
    <3> QED
      BY <1>0, <2>2, <3>1
  <2>4. \A d : /\ Cardinality(New(d)) <= Cardinality(Old(d))
               /\ Cardinality(New(d)) \in Nat /\ Cardinality(Old(d)) \in Nat
    <3> SUFFICES ASSUME NEW d
                 PROVE  /\ Cardinality(New(d)) <= Cardinality(Old(d))
                        /\ Cardinality(New(d)) \in Nat /\ Cardinality(Old(d)) \in Nat
      OBVIOUS
    <3>1. IsFiniteSet(Old(d)) /\ New(d) \subseteq Old(d)
      BY <2>3, IssuedCount
    <3> HIDE DEF Old, New
    <3> QED
      BY <3>1, FS_Subset, FS_CardinalityType
  <2> SUFFICES ASSUME Obliging PROVE WithinLimit'
    BY <2>1 DEF WithinLimit, Obliging
  <2>5. \A d \in AllDomains : Cardinality(New(d)) <= Limit
    <3>1. \A d \in AllDomains : Cardinality(Old(d)) <= Limit
      BY DEF WithinLimit, AllDomains
    <3> HIDE DEF Old, New
    <3> QED
      BY <1>0, <2>4, <3>1
  <2>6. ASSUME NEW s \in Threads, NEW d \in RegisteredDomains(thread'[s].names),
               thread'[s].pc = "issue" \/ (thread'[s].pc = "check" /\ d \notin thread'[s].todo)
        PROVE  Cardinality(New(d)) < Limit
    <3>1. Cardinality(Old(d)) < Limit
      BY <2>1, <2>6 DEF WithinLimit
    <3> HIDE DEF Old, New
    <3> QED
      BY <1>0, <2>4, <3>1
  <2>7. ASSUME NEW s \in Threads, thread'[s].pc = "check"
        PROVE  WindowStart(s)' <= Since(scenario.window)'
    <3>1. WindowStart(s) <= Since(scenario.window) /\ WindowStart(s)' = WindowStart(s)
      BY <2>1, <2>7 DEF WithinLimit, WindowStart
    <3>2. WindowStart(s) \in Nat
      BY WindowFacts
    <3> QED
      BY <1>0, <2>2, <3>1, <3>2
  <2> QED
    BY <2>5, <2>6, <2>7 DEF WithinLimit, AllDomains
<1>3. ASSUME NEW t \in Threads, NEW names \in Orders, BeginCheck(t, names)
      PROVE  WithinLimit'
  <2>1. PICK w \in ThreadState :
           /\ Turns(t, w) /\ w.pc = "check" /\ w.names = names
           /\ w.todo = RegisteredDomains(names) /\ w.at = now
    BY <1>3, BeginCheckEffect
  <2>2. UNCHANGED <<scenario, now, file, issuances, recorded>>
    BY <1>3, BeginCheckEffect
  <2> SUFFICES ASSUME Obliging PROVE WithinLimit'
    BY <2>2 DEF WithinLimit, Obliging
  <2>3. \A d : New(d) = Old(d)
    BY <2>2 DEF IssuedFor, Since
  <2>4. \A d \in AllDomains : Cardinality(New(d)) <= Limit
    BY <2>3 DEF WithinLimit, AllDomains
  <2>5. ASSUME NEW s \in Threads, NEW d \in RegisteredDomains(thread'[s].names),
               thread'[s].pc = "issue" \/ (thread'[s].pc = "check" /\ d \notin thread'[s].todo)
        PROVE  Cardinality(New(d)) < Limit
    <3>1. s # t /\ thread'[s] = thread[s]
      BY <2>1, <2>5 DEF Turns
    <3> QED
      BY <2>3, <2>5, <3>1 DEF WithinLimit
  <2>6. ASSUME NEW s \in Threads, thread'[s].pc = "check"
        PROVE  WindowStart(s)' <= Since(scenario.window)'
    <3>1. Since(scenario.window)' = Since(scenario.window)
      BY <2>2 DEF Since
    <3>2. CASE s = t
      BY <1>0, <2>1, <2>2, <3>1, <3>2 DEF Turns, WindowStart, Since
    <3>3. CASE s # t
      BY <2>1, <2>2, <2>6, <3>1, <3>3 DEF Turns, WithinLimit, WindowStart
    <3> QED
      BY <3>2, <3>3
  <2> QED
    BY <2>4, <2>5, <2>6 DEF WithinLimit, AllDomains
<1>4. ASSUME NEW t \in Threads, CheckDomain(t) PROVE WithinLimit'
  <2>1. PICK d \in thread[t].todo, records \in Readable(file), w \in ThreadState :
           /\ Turns(t, w)
           /\ \/ w = Idle
              \/ /\ Count(records, d, WindowStart(t)) < Limit \/ ~scenario.block
                 /\ w.pc = IF thread[t].todo = {d} THEN "issue" ELSE "check"
                 /\ w.todo = thread[t].todo \ {d} /\ w.names = thread[t].names
                 /\ w.at = thread[t].at
    BY <1>4, CheckDomainEffect
  <2>2. thread[t].pc = "check" /\ UNCHANGED <<scenario, now, file, issuances, recorded>>
    BY <1>4, CheckDomainEffect
  <2>3. CASE w = Idle
    BY <2>1, <2>2, <2>3, IdleFacts, WithinTurn
  <2>4. ASSUME Count(records, d, WindowStart(t)) < Limit \/ ~scenario.block,
               w.pc = IF thread[t].todo = {d} THEN "issue" ELSE "check",
               w.todo = thread[t].todo \ {d}, w.names = thread[t].names,
               w.at = thread[t].at
        PROVE  WithinLimit'
    <3> SUFFICES ASSUME Obliging PROVE WithinLimit'
      BY <2>2 DEF WithinLimit, Obliging
    <3>1. \A e : New(e) = Old(e)
      BY <2>2 DEF IssuedFor, Since
    <3>2. records = file
      BY ObligingFacts DEF Readable
    <3>3. \A s \in Threads : ~ Recording(thread[s])
      BY <2>2, ObligingFacts DEF Recording
    <3>4. \A i \in Old(d) : \E r \in file : r.id = i.id /\ r.domain = d /\ r.at >= i.at
      BY <3>3 DEF RecordsComplete, Owes, IssuedFor
    <3>5. WindowStart(t) \in Nat /\ WindowStart(t) <= Since(scenario.window)
      BY <2>2, WindowFacts DEF WithinLimit
    <3>6. Cardinality(Old(d)) <= Count(file, d, WindowStart(t))
      BY <1>0, <3>4, <3>5, IssuedIsCounted
    <3>7. Cardinality(Old(d)) \in Nat /\ Count(file, d, WindowStart(t)) \in Nat
      BY IssuedCount, FS_Subset, FS_CardinalityType DEF Count, Bookkeeping
    <3>8. Cardinality(Old(d)) < Limit
      <4> HIDE DEF Old
      <4> QED
        BY <1>0, <2>4, <3>2, <3>6, <3>7 DEF Obliging
    <3>9. \A e \in AllDomains : Cardinality(New(e)) <= Limit
      BY <3>1 DEF WithinLimit, AllDomains
    <3>10. ASSUME NEW s \in Threads, NEW e \in RegisteredDomains(thread'[s].names),
                 thread'[s].pc = "issue" \/ (thread'[s].pc = "check" /\ e \notin thread'[s].todo)
          PROVE  Cardinality(New(e)) < Limit
      <4>1. CASE s # t
        BY <2>1, <3>1, <3>10, <4>1 DEF Turns, WithinLimit
      <4>2. CASE s = t
        <5>1. e \in RegisteredDomains(thread[t].names) /\ e \notin thread[t].todo \ {d}
          BY <2>1, <2>4, <3>10, <4>2 DEF Turns
        <5>2. CASE e = d
          BY <3>1, <3>8, <5>2
        <5>3. CASE e \notin thread[t].todo
          BY <2>2, <3>1, <5>1, <5>3 DEF WithinLimit
        <5> QED
          BY <5>1, <5>2, <5>3
      <4> QED
        BY <4>1, <4>2
    <3>11. ASSUME NEW s \in Threads, thread'[s].pc = "check"
           PROVE  WindowStart(s)' <= Since(scenario.window)'
      <4>1. Since(scenario.window)' = Since(scenario.window)
        BY <2>2 DEF Since
      <4>2. CASE s = t
        BY <2>1, <2>2, <2>4, <3>5, <4>1, <4>2 DEF Turns, WindowStart
      <4>3. CASE s # t
        BY <2>1, <2>2, <3>11, <4>1, <4>3 DEF Turns, WithinLimit, WindowStart
      <4> QED
        BY <4>2, <4>3
    <3> QED
      BY <3>9, <3>10, <3>11 DEF WithinLimit, AllDomains
  <2> QED
    BY <2>1, <2>3, <2>4
<1>5. ASSUME NEW t \in Threads, CaIssues(t) PROVE WithinLimit'
  <2>1. PICK w \in ThreadState :
           \/ /\ Turns(t, w) /\ w.pc = "issued"
              /\ issuances' = issuances \cup
                    {[id |-> w.id, names |-> thread[t].names, at |-> now]}
           \/ Turns(t, w) /\ w = Idle /\ issuances' = issuances
    BY <1>5, CaIssuesEffect
  <2>2. thread[t].pc = "issue" /\ UNCHANGED <<scenario, now, file, recorded>>
    BY <1>5, CaIssuesEffect
  <2>3. CASE Turns(t, w) /\ w = Idle /\ issuances' = issuances
    BY <2>2, <2>3, IdleFacts, WithinTurn
  <2>4. ASSUME Turns(t, w), w.pc = "issued", NEW new, issuances' = issuances \cup {new},
               new.names = thread[t].names
        PROVE  WithinLimit'
    <3> SUFFICES ASSUME Obliging PROVE WithinLimit'
      BY <2>2 DEF WithinLimit, Obliging
    <3>1. Since(scenario.window)' = Since(scenario.window)
      BY <2>2 DEF Since
    <3>2. \A s \in Threads : thread'[s].pc \notin {"check", "issue"}
      BY <2>2, <2>4, ObligingFacts DEF Turns
    <3>3. ASSUME NEW d \in AllDomains PROVE Cardinality(New(d)) <= Limit
      <4>0. /\ IsFiniteSet(Old(d)) /\ Cardinality(Old(d)) \in Nat
            /\ Cardinality(Old(d)) <= Limit
        BY IssuedCount DEF WithinLimit, AllDomains
      <4>1. CASE d \in RegisteredDomains(thread[t].names)
        <5>1. Cardinality(Old(d)) < Limit
          BY <2>2, <4>1 DEF WithinLimit
        <5>2. New(d) \subseteq Old(d) \cup {new}
          BY <2>4, <3>1 DEF IssuedFor
        <5> HIDE DEF Old, New
        <5>3. /\ IsFiniteSet(Old(d) \cup {new})
              /\ Cardinality(Old(d) \cup {new}) <= Cardinality(Old(d)) + 1
          <6> DEFINE k == Cardinality(Old(d))
          <6>1. /\ IsFiniteSet(Old(d) \cup {new})
                /\ Cardinality(Old(d) \cup {new}) \in {k, k + 1}
            BY <4>0, FS_AddElement
          <6>2. k \in Nat
            BY <4>0
          <6> HIDE DEF k
          <6>3. Cardinality(Old(d) \cup {new}) <= k + 1
            BY <6>1, <6>2
          <6> QED
            BY <6>1, <6>3 DEF k
        <5>4. /\ Cardinality(New(d)) <= Cardinality(Old(d) \cup {new})
              /\ Cardinality(New(d)) \in Nat /\ Cardinality(Old(d) \cup {new}) \in Nat
          BY <5>2, <5>3, FS_Subset, FS_CardinalityType
        <5> QED
          BY <1>0, <4>0, <5>1, <5>3, <5>4
      <4>2. CASE d \notin RegisteredDomains(thread[t].names)
        <5>1. New(d) = Old(d)
          BY <2>4, <3>1, <4>2 DEF IssuedFor
        <5> QED
          BY <4>0, <5>1
      <4> QED
        BY <4>1, <4>2
    <3> QED
      BY <3>2, <3>3 DEF WithinLimit, AllDomains
  <2> QED
    BY <2>1, <2>3, <2>4
<1>6. ASSUME NEW t \in Threads, BeginRecord(t) \/ Load(t) \/ Save(t) PROVE WithinLimit'
  <2>1. PICK w \in ThreadState : Turns(t, w) /\ w.pc \in {"idle", "load", "save"}
    BY <1>6, BeginRecordEffect, LoadEffect, SaveEffect
  <2>2. UNCHANGED <<scenario, now, issuances>>
    BY <1>6, BeginRecordEffect, LoadEffect, SaveEffect
  <2> QED
    BY <2>1, <2>2, WithinTurn
<1>7. ASSUME NEW t \in Threads, SaveFails(t) \/ Crash(t) PROVE WithinLimit'
  <2>1. ~ Obliging /\ scenario' = scenario
    BY <1>7, ObligingFacts DEF SaveFails, Crash
  <2> QED
    BY <2>1 DEF WithinLimit, Obliging
<1> QED
  BY <1>1, <1>2, <1>3, <1>4, <1>5, <1>6, <1>7 DEF Next

\* The tracker keeps apart at most what the CA keeps apart: names the CA
\* counts together have one registered domain.
Coarser == \A m, n \in UNION Orders :
              CaDomain(m) = CaDomain(n) => RegisteredDomain(m) = RegisteredDomain(n)

\* Issuances one after another, whose records are all made, never exceed the
\* limit of the CA, when the tracker counts together what the CA counts
\* together.
THEOREM LimitIsKept == Coarser => (Spec => []LimitKept)
<1> SUFFICES ASSUME Coarser PROVE Spec => []LimitKept
  OBVIOUS
<1> DEFINE I == /\ TypeOK /\ Bookkeeping /\ Locked /\ OwnNumbers
                /\ RecordsComplete /\ WithinLimit
<1>1. Init => I
  <2> SUFFICES ASSUME Init PROVE Locked /\ OwnNumbers /\ RecordsComplete /\ WithinLimit
    BY TypeInit
  <2>1. issuances = {} /\ (\A t \in Threads : thread[t].pc = "idle") /\ Limit \in Nat
    BY IdleFacts, RateLimitAssumption DEF Init
  <2>2. Locked /\ OwnNumbers /\ RecordsComplete
    BY <2>1 DEF Locked, OwnNumbers, RecordsComplete
  <2>3. \A d, since : Cardinality(IssuedFor(d, since)) <= Limit
    <3>1. \A d, since : IssuedFor(d, since) = {}
      BY <2>1 DEF IssuedFor
    <3> QED
      BY <2>1, <3>1, FS_EmptySet
  <2> QED
    BY <2>1, <2>2, <2>3 DEF WithinLimit
<1>2. I /\ [Next]_vars => I'
  BY TypeStep, LockedStep, OwnNumbersStep, CompleteStep, WithinStep
<1>3. I => LimitKept
  <2> SUFFICES ASSUME I, Obliging, NEW n \in UNION Orders
               PROVE  CaCount(CaDomain(n), Since(scenario.window)) <= Limit
    BY DEF LimitKept, Obliging
  <2> DEFINE S == {i \in issuances : /\ \E m \in i.names : CaDomain(m) = CaDomain(n)
                                     /\ i.at >= Since(scenario.window)}
             T == IssuedFor(RegisteredDomain(n), Since(scenario.window))
  <2>1. S \subseteq T
    <3> SUFFICES ASSUME NEW i \in issuances, NEW m \in i.names, CaDomain(m) = CaDomain(n)
                 PROVE  RegisteredDomain(n) \in RegisteredDomains(i.names)
      BY DEF IssuedFor
    <3>1. m \in UNION Orders
      BY TypeFacts
    <3> QED
      BY <3>1 DEF Coarser, RegisteredDomains
  <2>2. IsFiniteSet(T) /\ Cardinality(T) \in Nat
    BY IssuedCount
  <2>3. RegisteredDomain(n) \in AllDomains
    BY DEF AllDomains, RegisteredDomains
  <2>4. Cardinality(T) <= Limit
    BY <2>3 DEF WithinLimit, AllDomains
  <2> HIDE DEF S, T
  <2>5. Cardinality(S) <= Cardinality(T) /\ Cardinality(S) \in Nat
    BY <2>1, <2>2, FS_Subset, FS_CardinalityType
  <2>6. Cardinality(S) <= Limit
    BY <2>2, <2>4, <2>5, TypeFacts
  <2> QED
    BY <2>6 DEF S, CaCount
<1>4. Spec => []I
  BY <1>1, <1>2, PTL DEF Spec
<1> QED
  BY <1>3, <1>4, PTL

-----------------------------------------------------------------------------
(* The lists of suffixes *)

\* A name as both sides look at it.
Plain(name) == Bare(Lower(name))

\* The known second-level domains are public suffixes, and every name is
\* below a public suffix.
SuffixesListed ==
    /\ KnownSlds \subseteq PublicSuffixes
    /\ \A n \in UNION Orders :
          /\ n # <<>>
          /\ \E k \in 1..Len(Plain(n)) : LastLabels(Plain(n), k) \in PublicSuffixes
          /\ LastLabels(Plain(n), Len(Plain(n))) \notin PublicSuffixes

\* The public suffixes in use are top-level domains and known second-level
\* domains.
SuffixesKnown ==
    \A n \in UNION Orders : \A k \in 1..Len(Plain(n)) :
        LastLabels(Plain(n), k) \in PublicSuffixes =>
            k = 1 \/ (k = 2 /\ LastLabels(Plain(n), k) \in KnownSlds)

\* A bounded set of numbers has a greatest one.
LEMMA Greatest ==
    ASSUME NEW n \in Nat, NEW T \in SUBSET (1..n), T # {}
    PROVE  \E k \in T : \A j \in T : j <= k
<1> DEFINE D == {n - k : k \in T}
<1>1. D \subseteq Nat /\ D # {}
  <2>1. \A k \in T : n - k \in Nat
    OBVIOUS
  <2> QED
    BY <2>1
<1>2. PICK x \in D : \A y \in D : ~ (<<y, x>> \in OpToRel(<, Nat))
  BY <1>1, WFMin, NatLessThanWellFounded
<1>3. ASSUME NEW y \in D PROVE x <= y
  <2>1. x \in Nat /\ y \in Nat
    BY <1>1
  <2>2. ~ (y < x)
    BY <1>2, <2>1 DEF OpToRel
  <2> QED
    BY <2>1, <2>2
<1>4. PICK k \in T : x = n - k
  OBVIOUS
<1>5. ASSUME NEW j \in T PROVE j <= k
  <2>1. x <= n - j
    BY <1>3
  <2> QED
    BY <1>4, <2>1
<1> QED
  BY <1>5

\* The last labels of a name: how many, and which.
LEMMA LastLabelsFacts ==
    ASSUME NEW S, NEW b \in Seq(S), NEW k \in 1..Len(b)
    PROVE  /\ LastLabels(b, k) \in Seq(S) /\ Len(LastLabels(b, k)) = k
           /\ \A j \in 1..k : LastLabels(LastLabels(b, k), j) = LastLabels(b, j)
<1> DEFINE m == Len(b) - k + 1
<1>1. Len(b) \in Nat /\ m \in 1..Len(b) /\ Len(b) \in 1..Len(b)
  BY LenProperties
<1>2. \A i \in m..Len(b) : b[i] \in S
  BY <1>1, ElementOfSeq
<1>3. LastLabels(b, k) \in Seq(S) /\ Len(LastLabels(b, k)) = k
  BY <1>1, <1>2, SubSeqProperties DEF LastLabels
<1>4. ASSUME NEW j \in 1..k PROVE LastLabels(LastLabels(b, k), j) = LastLabels(b, j)
  <2>1. k - j + 1 \in 1..(Len(b) - m + 1) /\ k \in 1..(Len(b) - m + 1)
    BY <1>1
  <2>2. SubSeq(SubSeq(b, m, Len(b)), k - j + 1, k) = SubSeq(b, m + (k - j + 1) - 1, m + k - 1)
    BY <1>1, <2>1, SubSeqOfSubSeq
  <2>3. m + (k - j + 1) - 1 = Len(b) - j + 1 /\ m + k - 1 = Len(b)
    BY <1>1
  <2> QED
    BY <1>3, <2>2, <2>3 DEF LastLabels
<1> QED
  BY <1>3, <1>4

\* The longest public suffix of a name is one, and leaves a label; the name
\* the CA counts under is one label longer.
LEMMA SuffixFacts ==
    ASSUME SuffixesListed, NEW n \in UNION Orders
    PROVE  \E S : LET b == Plain(n)
                      s == SuffixLength(b) IN
           /\ b \in Seq(S) /\ Len(b) \in Nat
           /\ s \in Nat /\ 1 <= s /\ s < Len(b)
           /\ LastLabels(b, s) \in PublicSuffixes
           /\ \A k \in 1..Len(b) : LastLabels(b, k) \in PublicSuffixes => k <= s
           /\ CaDomain(n) = LastLabels(b, s + 1)
<1> DEFINE b == Plain(n)
           s == SuffixLength(b)
           S == {LowerCase[l] : l \in STRING}
           lengths == {k \in 1..Len(b) : LastLabels(b, k) \in PublicSuffixes}
<1>1. n \in Seq(STRING) /\ n # <<>>
  BY RateLimitAssumption DEF SuffixesListed
<1>2. Lower(n) \in Seq(S) /\ Len(Lower(n)) = Len(n)
  <2>1. DOMAIN n = 1..Len(n) /\ Len(n) \in Nat /\ \A i \in 1..Len(n) : n[i] \in STRING
    BY <1>1, LenProperties, ElementOfSeq
  <2>2. Lower(n) = [i \in 1..Len(n) |-> LowerCase[n[i]]]
    BY <2>1 DEF Lower
  <2>3. \A i \in 1..Len(n) : LowerCase[n[i]] \in S
    BY <2>1
  <2> QED
    BY <2>1, <2>2, <2>3
<1>3. Lower(n) # <<>>
  BY <1>1, <1>2
<1>4. b \in Seq(S)
  BY <1>2, <1>3, HeadTailProperties DEF Plain, Bare
<1>5. Len(b) \in Nat
  BY <1>4, LenProperties
<1>6. lengths \subseteq 1..Len(b) /\ lengths # {} /\ Len(b) \notin lengths
  BY DEF SuffixesListed
<1> HIDE DEF lengths
<1>7. \E k \in lengths : \A j \in lengths : j <= k
  BY <1>5, <1>6, Greatest
<1>8. s \in lengths /\ \A j \in lengths : j <= s
  BY <1>7 DEF SuffixLength, lengths
<1> HIDE DEF s
<1>9. s \in 1..Len(b) /\ s # Len(b)
  BY <1>6, <1>8
<1>10. s \in Nat /\ 1 <= s /\ s < Len(b)
  BY <1>5, <1>9
<1>11. LastLabels(b, s) \in PublicSuffixes
       /\ \A k \in 1..Len(b) : LastLabels(b, k) \in PublicSuffixes => k <= s
  BY <1>8 DEF lengths
<1>12. CaDomain(n) = LastLabels(b, s + 1)
  BY DEF CaDomain, Plain, s
<1> QED
  BY <1>4, <1>5, <1>10, <1>11, <1>12 DEF s

\* The registered domain has the last two labels of a name, or the last three
\* if the last two are a known second-level domain.
LEMMA RegisteredLabels ==
    ASSUME NEW S, NEW n, Plain(n) \in Seq(S), Len(Plain(n)) \in Nat, 2 <= Len(Plain(n))
    PROVE  RegisteredDomain(n) =
              LastLabels(Plain(n), IF /\ Len(Plain(n)) > 2
                                      /\ LastLabels(Plain(n), 2) \in KnownSlds
                                   THEN 3 ELSE 2)
<1>1. CASE Len(Plain(n)) = 2
  <2>1. LastLabels(Plain(n), 2) = SubSeq(Plain(n), 1, Len(Plain(n)))
    BY <1>1 DEF LastLabels
  <2>2. LastLabels(Plain(n), 2) = Plain(n)
    BY <2>1, SubSeqFull
  <2> QED
    BY <1>1, <2>2 DEF RegisteredDomain, Plain
<1>2. CASE Len(Plain(n)) > 2
  BY <1>2 DEF RegisteredDomain, Plain
<1>3. ASSUME NEW l \in Nat, 2 <= l PROVE l = 2 \/ l > 2
  BY <1>3
<1> QED
  BY <1>1, <1>2, <1>3

\* A tracker whose known second-level domains are public suffixes counts
\* together what the CA counts together.
LEMMA ListsMakeCoarser == SuffixesListed => Coarser
<1> SUFFICES ASSUME SuffixesListed, NEW m \in UNION Orders, NEW n \in UNION Orders,
                    CaDomain(m) = CaDomain(n)
             PROVE  RegisteredDomain(m) = RegisteredDomain(n)
  BY DEF Coarser
<1> DEFINE a == Plain(m)
           b == Plain(n)
           j == SuffixLength(a)
           k == SuffixLength(b)
<1>1. PICK A : /\ a \in Seq(A) /\ Len(a) \in Nat
               /\ j \in Nat /\ 1 <= j /\ j < Len(a)
               /\ \A i \in 1..Len(a) : LastLabels(a, i) \in PublicSuffixes => i <= j
               /\ CaDomain(m) = LastLabels(a, j + 1)
  BY SuffixFacts
<1>2. PICK B : /\ b \in Seq(B) /\ Len(b) \in Nat
               /\ k \in Nat /\ 1 <= k /\ k < Len(b)
               /\ \A i \in 1..Len(b) : LastLabels(b, i) \in PublicSuffixes => i <= k
               /\ CaDomain(n) = LastLabels(b, k + 1)
  BY SuffixFacts
<1>a. RegisteredDomain(m) =
         LastLabels(a, IF Len(a) > 2 /\ LastLabels(a, 2) \in KnownSlds THEN 3 ELSE 2)
  BY <1>1, RegisteredLabels
<1>b. RegisteredDomain(n) =
         LastLabels(b, IF Len(b) > 2 /\ LastLabels(b, 2) \in KnownSlds THEN 3 ELSE 2)
  BY <1>2, RegisteredLabels
<1> HIDE DEF a, b, j, k
<1>3. j + 1 \in 1..Len(a) /\ k + 1 \in 1..Len(b) /\ 2 \in 1..Len(a) /\ 2 \in 1..Len(b)
  BY <1>1, <1>2
<1>4. Len(CaDomain(m)) = j + 1 /\ Len(CaDomain(n)) = k + 1
  <2>1. Len(LastLabels(a, j + 1)) = j + 1
    BY <1>1, <1>3, LastLabelsFacts
  <2>2. Len(LastLabels(b, k + 1)) = k + 1
    BY <1>2, <1>3, LastLabelsFacts
  <2> QED
    BY <1>1, <1>2, <2>1, <2>2
<1>5. j = k
  BY <1>1, <1>2, <1>4
<1>6. \A i \in 1..(j + 1) : LastLabels(a, i) = LastLabels(b, i)
  <2>1. \A i \in 1..(j + 1) : LastLabels(LastLabels(a, j + 1), i) = LastLabels(a, i)
    BY <1>1, <1>3, LastLabelsFacts
  <2>2. \A i \in 1..(k + 1) : LastLabels(LastLabels(b, k + 1), i) = LastLabels(b, i)
    BY <1>2, <1>3, LastLabelsFacts
  <2>3. LastLabels(a, j + 1) = LastLabels(b, k + 1)
    BY <1>1, <1>2
  <2> QED
    BY <1>5, <2>1, <2>2, <2>3
<1>7. LastLabels(a, 2) = LastLabels(b, 2)
  BY <1>1, <1>6
<1>8. CASE LastLabels(a, 2) \in KnownSlds
  <2>1. 2 <= j
    BY <1>1, <1>3, <1>8 DEF SuffixesListed
  <2>2. Len(a) > 2 /\ Len(b) > 2 /\ 3 \in 1..(j + 1)
    BY <1>1, <1>2, <1>5, <2>1
  <2> QED
    BY <1>a, <1>b, <1>6, <1>7, <1>8, <2>2
<1>9. CASE LastLabels(a, 2) \notin KnownSlds
  BY <1>a, <1>b, <1>7, <1>9
<1> QED
  BY <1>8, <1>9

\* A tracker that knows the public suffixes in use, besides the top-level
\* domains, counts under the very domain of the CA.
LEMMA ListsMakeFiner == SuffixesListed /\ SuffixesKnown => Finer
<1> SUFFICES ASSUME SuffixesListed, SuffixesKnown, NEW n \in UNION Orders
             PROVE  RegisteredDomain(n) = CaDomain(n)
  BY DEF Finer
<1> DEFINE b == Plain(n)
           k == SuffixLength(b)
<1>1. PICK B : /\ b \in Seq(B) /\ Len(b) \in Nat
               /\ k \in Nat /\ 1 <= k /\ k < Len(b)
               /\ LastLabels(b, k) \in PublicSuffixes
               /\ \A i \in 1..Len(b) : LastLabels(b, i) \in PublicSuffixes => i <= k
               /\ CaDomain(n) = LastLabels(b, k + 1)
  BY SuffixFacts
<1>2. RegisteredDomain(n) =
         LastLabels(b, IF Len(b) > 2 /\ LastLabels(b, 2) \in KnownSlds THEN 3 ELSE 2)
  BY <1>1, RegisteredLabels
<1>3. \A i \in 1..Len(b) : LastLabels(b, i) \in PublicSuffixes =>
                              i = 1 \/ (i = 2 /\ LastLabels(b, i) \in KnownSlds)
  BY DEF SuffixesKnown
<1> HIDE DEF b, k
<1>4. k \in 1..Len(b) /\ 2 \in 1..Len(b)
  BY <1>1
<1>5. CASE k = 1
  <2>1. LastLabels(b, 2) \notin KnownSlds
    BY <1>1, <1>4, <1>5 DEF SuffixesListed
  <2> QED
    BY <1>1, <1>2, <1>5, <2>1
<1>6. CASE k = 2 /\ LastLabels(b, k) \in KnownSlds
  BY <1>1, <1>2, <1>6
<1> QED
  BY <1>1, <1>3, <1>4, <1>5, <1>6

\* The limit is kept as soon as the known second-level domains are public
\* suffixes and every name is below one.
THEOREM ListedSuffixesSuffice == SuffixesListed => (Spec => []LimitKept)
  BY ListsMakeCoarser, LimitIsKept

\* No order is refused too early as soon as, moreover, every public suffix in
\* use is a top-level domain or a known second-level domain.
THEOREM KnownSuffixesSuffice == SuffixesListed /\ SuffixesKnown => (Spec => RefusalIsDue)
  BY ListsMakeFiner, NeverTooStrict
=============================================================================
