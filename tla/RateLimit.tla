----------------------------- MODULE RateLimit -----------------------------
(***************************************************************************)
(* RateLimitTracker and FileRateLimitStore of lacme/ratelimit.py, used the *)
(* way Client.issue does: check() before an order, record() after its      *)
(* certificate was issued.  The records are one JSON file per directory,   *)
(* read, changed and replaced under a lock that each FileRateLimitStore    *)
(* has for itself.                                                         *)
(*                                                                         *)
(* Domain names are sequences of labels.  MemoryRateLimitStore is the same *)
(* without pruning and without failures; warnings change nothing.  Not     *)
(* modelled: a registered_domain_func of the application, and names that   *)
(* end in a dot.                                                           *)
(***************************************************************************)
EXTENDS Naturals, Sequences, FiniteSets

CONSTANTS
    Threads,      \* threads that issue certificates
    Orders,       \* sets of names that are ordered together
    LowerCase,    \* the lower-case form of each label
    KnownSlds,    \* _KNOWN_SLDS
    PublicSuffixes,  \* the suffixes the CA counts under
    Limit,        \* limit per registered domain and window
    PruneAge,     \* age at which _save drops records: one week
    MaxTime,      \* bound on the time that passes
    Scenarios     \* what applications and environments do: see Scenario

FaultKinds == {"read",    \* the file cannot be read, and counts as empty
               "save",    \* writing the file raises
               "crash"}   \* the process of a thread dies

\* "block": the tracker refuses (block=True) or only warns; "shared": the
\* threads of a process use one FileRateLimitStore, otherwise each has its own,
\* as from_file_store makes it, in that or another process; "serial": an
\* application starts one issuance after another; "max" bounds the
\* certificates issued.
Scenario == [window : Nat, block : BOOLEAN, shared : BOOLEAN, serial : BOOLEAN,
             faults : SUBSET FaultKinds, max : Nat]

ASSUME RateLimitAssumption ==
    /\ Orders \subseteq SUBSET Seq(STRING)
    /\ {Limit, PruneAge, MaxTime} \subseteq Nat
    /\ Scenarios \subseteq Scenario

VARIABLES
    scenario,    \* chosen once, never changed
    now,         \* the clock
    file,        \* the records in rate_limits.json
    thread,      \* thread[t]: where t is, and its local variables
    issuances,   \* the CA: certificates issued, with the names in them
    recorded     \* history: records whose record_issuance has returned

vars == <<scenario, now, file, thread, issuances, recorded>>

-----------------------------------------------------------------------------
(* Registered domains *)

Lower(name) == [i \in DOMAIN name |-> LowerCase[name[i]]]
Bare(name) == IF Head(name) = "*" THEN Tail(name) ELSE name
LastLabels(name, k) == SubSeq(name, Len(name) - k + 1, Len(name))

\* Mistake: upper and lower case are told apart.
CaseSensitive(name) ==
    LET n == Bare(name) IN
    IF Len(n) <= 2 THEN n
    ELSE IF LastLabels(n, 2) \in KnownSlds THEN LastLabels(n, 3)
    ELSE LastLabels(n, 2)

\* _default_registered_domain, after .lower().
RegisteredDomain(name) ==
    LET n == Bare(Lower(name)) IN
    IF Len(n) <= 2 THEN n
    ELSE IF LastLabels(n, 2) \in KnownSlds THEN LastLabels(n, 3)
    ELSE LastLabels(n, 2)

RegisteredDomains(names) == {RegisteredDomain(n) : n \in names}

\* The domain the CA counts a name under: the longest public suffix it ends
\* in, and one label more.
SuffixLength(n) ==
    LET lengths == {k \in 1..Len(n) : LastLabels(n, k) \in PublicSuffixes}
    IN CHOOSE k \in lengths : \A j \in lengths : j <= k
CaDomain(name) ==
    LET n == Bare(Lower(name)) IN LastLabels(n, SuffixLength(n) + 1)

-----------------------------------------------------------------------------
Record == [id : Nat, domain : UNION {RegisteredDomains(o) : o \in Orders},
           at : 0..MaxTime]
Idle == [pc |-> "idle", names |-> {}, todo |-> {}, at |-> 0, id |-> 0,
         records |-> {}]

\* Every variable has its type; records, also those a thread is about to
\* write, were made for certificates the CA has issued.
TypeOK ==
    /\ scenario \in Scenarios
    /\ now \in 0..MaxTime
    /\ file \subseteq Record /\ recorded \subseteq Record
    /\ \A i \in issuances : i.id \in 1..scenario.max /\ i.names \in Orders /\ i.at \in 0..now
    /\ \A r \in file \cup recorded : \E i \in issuances :
          i.id = r.id /\ r.domain \in RegisteredDomains(i.names) /\ i.at <= r.at
    /\ \A t \in Threads :
          /\ thread[t].pc \in {"idle", "check", "issue", "issued", "load", "save"}
          /\ thread[t].names \in Orders \cup {{}}
          /\ thread[t].todo \subseteq RegisteredDomains(thread[t].names)
          /\ thread[t].pc \in {"load", "save"} => thread[t].todo # {}
          /\ thread[t].records \subseteq Record

Init ==
    /\ scenario \in Scenarios
    /\ now = 0
    /\ file = {}
    /\ thread = [t \in Threads |-> Idle]
    /\ issuances = {}
    /\ recorded = {}

-----------------------------------------------------------------------------
\* The start of a window of that length that ends at time t, and now.
Ago(t, age) == IF t > age THEN t - age ELSE 0
Since(age) == Ago(now, age)

Tick ==
    /\ now < MaxTime
    /\ now' = now + 1
    /\ UNCHANGED <<scenario, file, thread, issuances, recorded>>

\* self._lock of the store t uses is free: it is held only from the read to
\* the replacement of the file by record_issuance.
LockIsFree(t) ==
    \A s \in Threads : (scenario.shared \/ s = t) => thread[s].pc # "save"

\* check, in a window that ends at "at".
BeginCheck(t, names) ==
    /\ thread[t].pc = "idle"
    /\ scenario.serial => \A s \in Threads : thread[s].pc = "idle"
    /\ thread' = [thread EXCEPT ![t] = [Idle EXCEPT
                     !.pc = "check", !.names = names,
                     !.todo = RegisteredDomains(names), !.at = now]]
    /\ UNCHANGED <<scenario, now, file, issuances, recorded>>

\* Mistake: the window is not looked at.
CountAllTime(records, domain, since) ==
    Cardinality({r \in records : r.domain = domain})

Count(records, domain, since) ==
    Cardinality({r \in records : r.domain = domain /\ r.at >= since})

\* The start of the window t's check looks at.
WindowStart(t) == Ago(thread[t].at, scenario.window)

\* The records get_issuances finds.
Readable(records) == IF "read" \in scenario.faults THEN {records, {}} ELSE {records}

\* One registered domain in the loop of check; one that is exhausted
\* refuses the order, whatever the others say, if the tracker blocks.
CheckDomain(t) ==
    /\ thread[t].pc = "check"
    /\ LockIsFree(t)
    /\ \E d \in thread[t].todo, records \in Readable(file) :
         LET count == Count(records, d, WindowStart(t)) IN
         \/ /\ count >= Limit /\ scenario.block
            /\ thread' = [thread EXCEPT ![t] = Idle]
         \/ /\ count < Limit \/ ~scenario.block
            /\ thread' = [thread EXCEPT
                            ![t].todo = @ \ {d},
                            ![t].pc = IF thread[t].todo = {d} THEN "issue" ELSE "check"]
    /\ UNCHANGED <<scenario, now, file, issuances, recorded>>

\* The CA issues the certificate, or the issuance fails (nor does it follow
\* a mere check_rate_limits).
CaIssues(t) ==
    /\ thread[t].pc = "issue"
    /\ LET id == Cardinality(issuances) + 1 IN
       \/ /\ id <= scenario.max
          /\ issuances' = issuances \cup
                {[id |-> id, names |-> thread[t].names, at |-> now]}
          /\ thread' = [thread EXCEPT ![t].pc = "issued", ![t].id = id]
       \/ /\ thread' = [thread EXCEPT ![t] = Idle]
          /\ UNCHANGED issuances
    /\ UNCHANGED <<scenario, now, file, recorded>>

\* record, called when the certificate has been downloaded and saved.
BeginRecord(t) ==
    /\ thread[t].pc = "issued"
    /\ thread' = [thread EXCEPT ![t].pc = "load", ![t].at = now,
                     ![t].todo = RegisteredDomains(thread[t].names)]
    /\ UNCHANGED <<scenario, now, file, issuances, recorded>>

\* Mistake: the file is read without the lock.
LoadUnlocked(t) ==
    /\ thread[t].pc = "load"
    /\ \E records \in Readable(file) :
          thread' = [thread EXCEPT ![t].pc = "save", ![t].records = records]
    /\ UNCHANGED <<scenario, now, file, issuances, recorded>>

\* record_issuance takes the lock and reads the file.
Load(t) ==
    /\ thread[t].pc = "load"
    /\ LockIsFree(t)
    /\ \E records \in Readable(file) :
          thread' = [thread EXCEPT ![t].pc = "save", ![t].records = records]
    /\ UNCHANGED <<scenario, now, file, issuances, recorded>>

\* Mistake: the loop goes on after the last domain.
SaveAndLoop(t) ==
    /\ thread[t].pc = "save"
    /\ \E d \in thread[t].todo :
         LET new == [id |-> thread[t].id, domain |-> d, at |-> thread[t].at] IN
         /\ file' = {r \in thread[t].records \cup {new} : r.at >= Since(PruneAge)}
         /\ recorded' = recorded \cup {new}
         /\ thread' = [thread EXCEPT ![t].pc = "load", ![t].todo = @ \ {d},
                                     ![t].records = {}]
    /\ UNCHANGED <<scenario, now, issuances>>

\* Append, prune and replace the file, for the next registered domain.
Save(t) ==
    /\ thread[t].pc = "save"
    /\ \E d \in thread[t].todo :
         LET new == [id |-> thread[t].id, domain |-> d, at |-> thread[t].at] IN
         /\ file' = {r \in thread[t].records \cup {new} : r.at >= Since(PruneAge)}
         /\ recorded' = recorded \cup {new}
         /\ thread' = [thread EXCEPT
                         ![t] = IF thread[t].todo = {d} THEN Idle
                                ELSE [thread[t] EXCEPT !.pc = "load", !.todo = @ \ {d},
                                                       !.records = {}]]
    /\ UNCHANGED <<scenario, now, issuances>>

\* The file cannot be written: record, and with it issue(), raises.
SaveFails(t) ==
    /\ "save" \in scenario.faults
    /\ thread[t].pc = "save"
    /\ thread' = [thread EXCEPT ![t] = Idle]
    /\ UNCHANGED <<scenario, now, file, issuances, recorded>>

\* The process of t dies, with the threads that belong to it: all of them if
\* they share a store.
Crash(t) ==
    /\ "crash" \in scenario.faults
    /\ thread[t].pc # "idle"
    /\ \E dead \in SUBSET Threads :
          /\ t \in dead /\ (scenario.shared => dead = Threads)
          /\ thread' = [s \in Threads |-> IF s \in dead THEN Idle ELSE thread[s]]
    /\ UNCHANGED <<scenario, now, file, issuances, recorded>>

Next ==
    \/ Tick
    \/ \E t \in Threads :
         \/ \E names \in Orders : BeginCheck(t, names)
         \/ CheckDomain(t) \/ CaIssues(t) \/ BeginRecord(t)
         \/ Load(t) \/ Save(t) \/ SaveFails(t) \/ Crash(t)

Spec == Init /\ [][Next]_vars

-----------------------------------------------------------------------------
(* Properties *)

\* How many certificates for domain d, as the CA counts, were issued since
\* then.
CaCount(d, since) ==
    Cardinality({i \in issuances : (\E n \in i.names : CaDomain(n) = d) /\ i.at >= since})

\* With a tracker that blocks, issuances that run one after another never
\* exceed the CA's limit in any window that ends now, for any registered
\* domain as the CA counts, unless a record could not be made ("prevent
\* requests that would exceed the limit"): neither pruning, nor the time
\* between check and record, nor names written in another way lets one
\* through.
LimitKept ==
    /\ scenario.block /\ scenario.serial /\ scenario.faults = {}
    /\ scenario.window <= PruneAge
    => \A d \in {CaDomain(n) : n \in UNION Orders} :
          CaCount(d, Since(scenario.window)) <= Limit

\* A record that was made stays in the file until it is too old, whatever
\* other threads that use the same store do and wherever the process dies.
NothingForgotten ==
    scenario.shared /\ "read" \notin scenario.faults =>
        \A r \in recorded : r.at >= Since(PruneAge) => r \in file

\* Every record in the file was made at most so long after its certificate.
RecordedWithin(lag) ==
    \A i \in issuances, r \in file : r.id = i.id => r.at <= i.at + lag

\* check refuses an order only if it may, and only if for one of the names
\* the CA has issued as many certificates as the limit allows within the
\* window that ended when the check began: certificates that have left the
\* window no longer count, names are merged that the CA counts together and no
\* others, and nothing is counted twice.  The window begins earlier by the
\* time it took to record the certificates, because a record bears the time
\* it was made: if they are recorded in the instant they are issued (lag 0),
\* nothing is refused that the CA would accept.
RefusalIsDue ==
    [][\A t \in Threads, lag \in 0..MaxTime :
         /\ "crash" \notin scenario.faults
         /\ thread[t].pc = "check" /\ thread'[t].pc = "idle"
         /\ RecordedWithin(lag)
         => /\ scenario.block
            /\ \E n \in thread[t].names :
                  CaCount(CaDomain(n), Ago(WindowStart(t), lag)) >= Limit]_vars
=============================================================================
