------------------------ MODULE ClientSession_proofs ------------------------
(***************************************************************************)
(* Theorems about ClientSession, for any set of tasks, any number of keys  *)
(* and operations and any scenarios.                                       *)
(***************************************************************************)
EXTENDS ClientSession, SequenceTheorems, TLAPS

-----------------------------------------------------------------------------
(* Inductive invariants *)

\* What task m will write refers to keys, account URLs and nonces there are:
\* keys up to k, u URLs, nonces up to n; it has an account key.
Refers(m, k, u, n, key) ==
    /\ m.newKey <= k
    /\ m.op = "account" => m.saved <= u /\ m.location <= u
    /\ m.op = "account" /\ m.pc # "idle" => key # 0
    /\ m.op = "account" /\ m.pc = "wire" => m.key \in 1..k
    /\ m.op = "rollover" /\ m.pc # "idle" => m.newKey # 0
    /\ m.pc = "reply" => m.fresh \in 1..n

References ==
    \A t \in Tasks : Refers(task[t], keys, Len(accounts), issued, accountKey)

\* The nonces of the tasks in T and of the pool p are all in different places:
\* in p, on the way to the client or on the wire; those on the wire are spent,
\* the others not.
Apart(T, p) ==
    /\ \A i, j \in DOMAIN p : p[i] = p[j] => i = j
    /\ \A i \in DOMAIN p : p[i] \notin spent
    /\ \A t \in T : task[t].pc = "wire" => task[t].nonce \in spent
    /\ \A t \in T : task[t].pc = "reply" =>
          task[t].fresh \notin spent /\ \A i \in DOMAIN p : p[i] # task[t].fresh
    /\ \A s, t \in T :
          /\ task[s].pc = "wire" /\ task[t].pc = "wire"
               /\ task[s].nonce = task[t].nonce => s = t
          /\ task[s].pc = "reply" /\ task[t].pc = "reply"
               /\ task[s].fresh = task[t].fresh => s = t
OnePlace == Apart(Tasks, pool)

\* A server that forgets no nonce accepts those the client has or will get,
\* and those on the wire.
Accepted(T, p, nonces) ==
    "expire" \notin scenario.faults =>
        /\ \A i \in DOMAIN p : p[i] \in nonces
        /\ \A t \in T :
              /\ task[t].pc = "wire" => task[t].nonce \in nonces
              /\ task[t].pc = "reply" => task[t].fresh \in nonces /\ task[t].reply # "badNonce"
NoncesLive == Accepted(Tasks, pool, live)

-----------------------------------------------------------------------------
(* Sequences and tasks *)

\* The elements of a sequence, by position.
LEMMA SeqFacts ==
    ASSUME NEW S, NEW s \in Seq(S)
    PROVE  /\ DOMAIN s = 1..Len(s) /\ Len(s) \in Nat
           /\ \A i \in DOMAIN s : s[i] \in S
           /\ s = <<>> <=> Len(s) = 0
  BY LenProperties, ElementOfSeq, EmptySeq

\* Appending adds an element at the end and keeps the others.
LEMMA AppendFacts ==
    ASSUME NEW S, NEW s \in Seq(S), NEW e \in S
    PROVE  /\ Append(s, e) \in Seq(S) /\ Append(s, e) # <<>>
           /\ Len(Append(s, e)) = Len(s) + 1
           /\ DOMAIN Append(s, e) = 1..(Len(s) + 1)
           /\ \A i \in 1..Len(s) : Append(s, e)[i] = s[i]
           /\ Append(s, e)[Len(s) + 1] = e
  BY AppendProperties, SeqFacts

\* All but the last element of a sequence.
LEMMA FrontFacts ==
    ASSUME NEW S, NEW s \in Seq(S), s # <<>>
    PROVE  LET front == SubSeq(s, 1, Len(s) - 1) IN
           /\ front \in Seq(S) /\ Len(front) = Len(s) - 1
           /\ DOMAIN front = 1..(Len(s) - 1)
           /\ \A i \in 1..(Len(s) - 1) : front[i] = s[i]
<1>1. Len(s) \in Nat \ {0} /\ \A i \in 1..(Len(s) - 1) : s[i] \in S
  BY SeqFacts
<1> DEFINE n == Len(s) - 1
<1>2. n \in Nat /\ 1 \in Int
  BY <1>1
<1>3. /\ SubSeq(s, 1, n) \in Seq(S)
      /\ Len(SubSeq(s, 1, n)) = IF 1 <= n THEN n - 1 + 1 ELSE 0
      /\ \A i \in 1..(n - 1 + 1) : SubSeq(s, 1, n)[i] = s[1 + i - 1]
  BY <1>1, <1>2, SubSeqProperties
<1> HIDE DEF n
<1>4. n - 1 + 1 = n /\ (IF 1 <= n THEN n - 1 + 1 ELSE 0) = n /\ \A i \in 1..n : 1 + i - 1 = i
  BY <1>2
<1>5. /\ Len(SubSeq(s, 1, n)) = n
      /\ \A i \in 1..n : SubSeq(s, 1, n)[i] = s[i]
  BY <1>3, <1>4
<1>6. DOMAIN SubSeq(s, 1, n) = 1..n
  BY <1>3, <1>5, SeqFacts
<1> QED
  BY <1>3, <1>5, <1>6 DEF n

\* A sequence over a set is one over a larger set.
LEMMA SeqOverMore ==
    ASSUME NEW m \in Nat, NEW n \in Nat, m <= n, NEW s \in Seq(1..m)
    PROVE  s \in Seq(1..n)
<1>1. 1..m \subseteq 1..n
  OBVIOUS
<1> QED
  BY <1>1, SeqMonotonic

\* The fields of a task have the types of Task.
LEMMA TaskFields ==
    ASSUME NEW m \in Task
    PROVE  /\ m.pc \in {"idle", "directory", "head", "wire", "reply"}
           /\ m.op \in Ops /\ m.retried \in BOOLEAN
           /\ m.saved \in Nat /\ m.newKey \in Nat /\ m.nonce \in Nat /\ m.key \in Nat
           /\ m.kid \in Nat /\ m.fresh \in Nat /\ m.location \in Nat
           /\ m.reply \in {"ok", "badNonce", "error"}
  BY DEF Task

\* w is m after it was sent or waits for a nonce: nothing but the nonce, the
\* signing key and the URL in the header can differ.
SameRequest(w, m) ==
    /\ w.op = m.op /\ w.retried = m.retried /\ w.saved = m.saved
    /\ w.newKey = m.newKey /\ w.reply = m.reply /\ w.fresh = m.fresh
    /\ w.location = m.location

\* Task t goes on as w to do what m says: it waits for a nonce if p has none,
\* and otherwise takes the last one and puts it on the wire.
Sent(t, m, p, key, url, w) ==
    /\ task' = [task EXCEPT ![t] = w] /\ SameRequest(w, m)
    /\ \/ /\ p = <<>> /\ pool' = <<>> /\ spent' = spent
          /\ w.pc = "head"
       \/ /\ p # <<>> /\ Len(pool') = Len(p) - 1
          /\ \A i \in 1..(Len(p) - 1) : pool'[i] = p[i]
          /\ w.nonce = p[Len(p)]
          /\ spent' = spent \cup {w.nonce}
          /\ w.pc = "wire" /\ w.key = key /\ w.kid = url

\* Send does this, and leaves a pool of nonces.
LEMMA SendEffect ==
    ASSUME NEW t \in Tasks, NEW m \in Task, NEW N \in Nat, NEW p \in Seq(1..N),
           NEW key \in Nat, NEW url \in Nat, Send(t, m, p, key, url)
    PROVE  /\ pool' \in Seq(1..N)
           /\ spent' \subseteq spent \cup 1..N
           /\ \E w \in Task : Sent(t, m, p, key, url, w)
<1>1. CASE p = <<>>
  <2> DEFINE w == [m EXCEPT !.pc = "head"]
  <2>1. w \in Task /\ SameRequest(w, m) /\ w.pc = "head"
    BY DEF Task, SameRequest
  <2>2. task' = [task EXCEPT ![t] = w] /\ pool' = p /\ spent' = spent
    BY <1>1 DEF Send
  <2> HIDE DEF w
  <2> QED
    BY <1>1, <2>1, <2>2, EmptySeq DEF Sent
<1>2. CASE p # <<>>
  <2> DEFINE n == p[Len(p)]
             w == [m EXCEPT !.pc = "wire", !.nonce = n, !.key = key, !.kid = url]
  <2>1. n \in 1..N
    BY <1>2, SeqFacts
  <2>2. n \in Nat
    BY <2>1
  <2> HIDE DEF n
  <2>3. /\ w \in Task /\ SameRequest(w, m)
        /\ w.pc = "wire" /\ w.nonce = n /\ w.key = key /\ w.kid = url
    BY <2>2 DEF Task, SameRequest
  <2>4. /\ task' = [task EXCEPT ![t] = w] /\ spent' = spent \cup {n}
        /\ pool' = SubSeq(p, 1, Len(p) - 1)
    BY <1>2 DEF Send, n
  <2>5. /\ pool' \in Seq(1..N) /\ Len(pool') = Len(p) - 1
        /\ \A i \in 1..(Len(p) - 1) : pool'[i] = p[i]
    BY <1>2, <2>4, FrontFacts
  <2> HIDE DEF w
  <2> QED
    BY <1>2, <2>1, <2>3, <2>4, <2>5 DEF n, Sent
<1> QED
  BY <1>1, <1>2

\* What the type says of single variables, with less to unfold.
LEMMA TypeFacts ==
    ASSUME TypeOK
    PROVE  /\ issued \in Nat /\ keys \in Nat /\ ops \in Nat
           /\ pool \in Seq(1..issued)
           /\ accounts \in Seq(1..keys) /\ Len(accounts) \in Nat
           /\ DOMAIN accounts = 1..Len(accounts)
           /\ accountKey \in 0..keys /\ accountKey \in Nat
           /\ storedKey \in 0..keys /\ storedKey \in Nat
           /\ accountUrl \in 0..Len(accounts) /\ accountUrl \in Nat
           /\ CertKey \in Nat
           /\ task \in [Tasks -> Task]
<1>1. /\ accountKey \in 0..keys /\ storedKey \in 0..keys /\ keys \in Nat
      /\ accounts \in Seq(1..keys) /\ accountUrl \in 0..Len(accounts)
      /\ issued \in Nat /\ ops \in Nat /\ pool \in Seq(1..issued)
      /\ task \in [Tasks -> Task]
  BY DEF TypeOK
<1>2. Len(accounts) \in Nat /\ DOMAIN accounts = 1..Len(accounts)
  BY <1>1, SeqFacts
<1>3. accountKey \in Nat /\ storedKey \in Nat /\ accountUrl \in Nat
  BY <1>1, <1>2
<1>4. CertKey \in Nat
  BY SessionAssumption DEF CertKey
<1> QED
  BY <1>1, <1>2, <1>3, <1>4

\* The key and the URL a request m is signed with when it is sent (again).
KeyFor(m) == IF m.op = "certRevoke" THEN CertKey ELSE accountKey
UrlFor(m) == IF m.op = "certRevoke" THEN 0 ELSE accountUrl

\* Resend is a Send with the key and URL of the moment.
LEMMA ResendEffect ==
    ASSUME TypeOK, NEW t \in Tasks, NEW m \in Task,
           NEW N \in Nat, NEW p \in Seq(1..N), Resend(t, m, p)
    PROVE  /\ pool' \in Seq(1..N)
           /\ spent' \subseteq spent \cup 1..N
           /\ \E w \in Task : Sent(t, m, p, KeyFor(m), UrlFor(m), w)
<1>1. Send(t, m, p, KeyFor(m), UrlFor(m))
  BY DEF Resend, KeyFor, UrlFor
<1>2. KeyFor(m) \in Nat /\ UrlFor(m) \in Nat
  BY TypeFacts DEF KeyFor, UrlFor
<1> QED
  BY <1>1, <1>2, SendEffect

-----------------------------------------------------------------------------
(* Types *)

\* The initial state has the right type.
LEMMA TypeInit == Init => TypeOK /\ References
<1> SUFFICES ASSUME Init PROVE TypeOK /\ References
  OBVIOUS
<1>1. /\ pool \in Seq(1..issued) /\ accounts \in Seq(1..keys)
      /\ Len(accounts) = 0
  BY EmptySeq DEF Init
<1>2. Idle \in Task /\ Idle.pc = "idle" /\ Idle.op = "request" /\ Idle.newKey = 0
  BY DEF Idle, Task, Ops
<1>3. /\ keys = accountKey /\ accountKey \in {0, 1} /\ issued = 0 /\ accounts = <<>>
      /\ scenario \in Scenarios /\ ops = 0 /\ storedKey = 0
      /\ accountUrl = 0 /\ closed = {} /\ live = {} /\ spent = {}
      /\ directory = FALSE /\ known = FALSE
      /\ task = [t \in Tasks |-> Idle]
  BY DEF Init
<1>4. TypeOK
  <2>1. scenario \in Scenarios /\ issued \in Nat /\ keys \in Nat /\ ops \in Nat
    BY <1>3
  <2>3. live \subseteq 1..issued /\ spent \subseteq 1..issued /\ closed \subseteq DOMAIN accounts
    BY <1>3
  <2>4. accountKey \in 0..keys /\ storedKey \in 0..keys
    BY <1>3
  <2>5. directory \in BOOLEAN /\ known \in BOOLEAN
    BY <1>3
  <2>2. accountUrl \in 0..Len(accounts) /\ task \in [Tasks -> Task]
    BY <1>1, <1>2, <1>3
  <2> QED
    BY <1>1, <2>1, <2>2, <2>3, <2>4, <2>5 DEF TypeOK
<1>5. ASSUME NEW t \in Tasks
      PROVE  Refers(task[t], keys, Len(accounts), issued, accountKey)
  <2>1. task[t] = Idle /\ keys \in Nat /\ issued \in Nat /\ Len(accounts) \in Nat
    BY <1>1, <1>3
  <2> QED
    BY <2>1 DEF Refers, Idle
<1> QED
  BY <1>4, <1>5 DEF References

\* There never are fewer keys, URLs and nonces.
LEMMA RefersMore ==
    ASSUME NEW m \in Task, NEW key, NEW key2, key # 0 => key2 # 0,
           NEW k \in Nat, NEW k2 \in Nat, k <= k2,
           NEW u \in Nat, NEW u2 \in Nat, u <= u2,
           NEW n \in Nat, NEW n2 \in Nat, n <= n2,
           Refers(m, k, u, n, key)
    PROVE  Refers(m, k2, u2, n2, key2)
<1>1. /\ m.newKey \in Nat /\ m.saved \in Nat /\ m.location \in Nat
      /\ m.key \in Nat /\ m.fresh \in Nat
  BY TaskFields
<1>2. m.newKey <= k2
  BY <1>1 DEF Refers
<1>3. m.op = "account" => m.saved <= u2 /\ m.location <= u2
  BY <1>1 DEF Refers
<1>4. m.op = "account" /\ m.pc = "wire" => m.key \in 1..k2
  BY <1>1 DEF Refers
<1>5. m.pc = "reply" => m.fresh \in 1..n2
  BY <1>1 DEF Refers
<1> QED
  BY <1>2, <1>3, <1>4, <1>5 DEF Refers

\* When one task is suspended anew, or idle, and the counters grow, every
\* task still refers to what there is.
LEMMA OneTaskChanges ==
    ASSUME task \in [Tasks -> Task], References,
           keys \in Nat, keys' \in Nat, keys <= keys',
           Len(accounts) \in Nat, Len(accounts)' \in Nat, Len(accounts) <= Len(accounts)',
           issued \in Nat, issued' \in Nat, issued <= issued',
           accountKey # 0 => accountKey' # 0,
           NEW t \in Tasks, NEW w \in Task, task' = [task EXCEPT ![t] = w],
           Refers(w, keys', Len(accounts)', issued', accountKey')
    PROVE  task' \in [Tasks -> Task] /\ References'
<1>1. task' \in [Tasks -> Task]
  OBVIOUS
<1>2. ASSUME NEW s \in Tasks
      PROVE  Refers(task'[s], keys', Len(accounts)', issued', accountKey')
  <2>1. CASE s = t
    BY <2>1
  <2>2. CASE s # t
    <3>1. task'[s] = task[s] /\ task[s] \in Task
      BY <2>2
    <3>2. Refers(task[s], keys, Len(accounts), issued, accountKey)
      BY DEF References
    <3> QED
      BY <3>1, <3>2, RefersMore
  <2> QED
    BY <2>1, <2>2
<1> QED
  BY <1>1, <1>2 DEF References

\* A task that sends refers to what there is if the request does.
LEMMA SentRefers ==
    ASSUME NEW w \in Task, NEW m \in Task, SameRequest(w, m),
           NEW k \in Nat, NEW u \in Nat, NEW n \in Nat, NEW key \in 0..k,
           m.newKey <= k,
           m.op = "account" => m.saved <= u /\ m.location <= u /\ key # 0,
           m.op = "rollover" => m.newKey # 0,
           w.pc \in {"head", "wire"},
           w.pc = "wire" /\ m.op = "account" => w.key = key
    PROVE  Refers(w, k, u, n, key)
  BY DEF Refers, SameRequest

\* A task without a request refers to nothing.
LEMMA IdleFacts ==
    /\ Idle \in Task /\ Idle.pc = "idle" /\ Idle.op = "request"
    /\ Idle.newKey = 0 /\ Idle.saved = 0 /\ Idle.location = 0
    /\ \A k, u, n \in Nat : \A key : Refers(Idle, k, u, n, key)
  BY DEF Idle, Task, Ops, Refers

\* The requests that begin an operation; the bodies are those of the actions.
NewAccount == [Idle EXCEPT !.op = "account", !.saved = accountUrl]
NewRevocation == [Idle EXCEPT !.op = "certRevoke"]
NewRequest == [Idle EXCEPT !.op = "request"]
NewDeactivation == [Idle EXCEPT !.op = "deactivate"]
NewRollover == [Idle EXCEPT !.op = "rollover", !.newKey = keys + 1,
                            !.saved = accountKey, !.location = accountUrl]

\* What a call starts from, and what it is about.
LEMMA NewTasks ==
    ASSUME TypeOK
    PROVE  /\ NewAccount \in Task /\ NewAccount.op = "account" /\ NewAccount.newKey = 0
           /\ NewAccount.saved = accountUrl /\ NewAccount.location = 0
           /\ NewRevocation \in Task /\ NewRevocation.op = "certRevoke"
           /\ NewRevocation.newKey = 0
           /\ NewRequest \in Task /\ NewRequest.op = "request" /\ NewRequest.newKey = 0
           /\ NewDeactivation \in Task /\ NewDeactivation.op = "deactivate"
           /\ NewDeactivation.newKey = 0
           /\ NewRollover \in Task /\ NewRollover.op = "rollover"
           /\ NewRollover.newKey = keys + 1 /\ NewRollover.saved = accountKey
           /\ NewRollover.location = accountUrl
<1>1. accountUrl \in Nat /\ accountKey \in Nat /\ keys \in Nat
  BY TypeFacts
<1>2. keys + 1 \in Nat
  BY <1>1
<1>3. Idle \in Task /\ Idle.newKey = 0 /\ Idle.location = 0
  BY IdleFacts
<1> QED
  BY <1>1, <1>2, <1>3
     DEF Task, Ops, NewAccount, NewRevocation, NewRequest, NewDeactivation, NewRollover

\* PostAccount sends the request for an account.
LEMMA PostEffect ==
    ASSUME TypeOK, NEW t \in Tasks, NEW N \in Nat, NEW p \in Seq(1..N), NEW key \in Nat,
           PostAccount(t, key, p)
    PROVE  /\ pool' \in Seq(1..N)
           /\ spent' \subseteq spent \cup 1..N
           /\ accountUrl' = 0
           /\ \E w \in Task : Sent(t, NewAccount, p, key, 0, w)
<1>1. Send(t, NewAccount, p, key, 0) /\ accountUrl' = 0
  BY DEF PostAccount, NewAccount
<1> QED
  BY <1>1, NewTasks, SendEffect

\* A task that waits for the directory.
Waiting(op) == [Idle EXCEPT !.pc = "directory", !.op = op]

\* A call whose session is not open yet waits for the directory.
LEMMA AwaitEffect ==
    ASSUME NEW t, NEW op \in Ops, AwaitDirectory(t, op)
    PROVE  /\ task' = [task EXCEPT ![t] = Waiting(op)]
           /\ Waiting(op) \in Task /\ Waiting(op).pc = "directory"
           /\ Waiting(op).op = op /\ Waiting(op).newKey = 0
           /\ Waiting(op).saved = 0 /\ Waiting(op).location = 0
<1>1. Idle \in Task /\ Idle.newKey = 0 /\ Idle.location = 0 /\ Idle.saved = 0
  BY IdleFacts
<1> QED
  BY <1>1 DEF AwaitDirectory, Waiting, Task

\* The key create_account goes on with is one of the keys there are by then.
LEMMA CreateAccountKey ==
    ASSUME TypeOK, NEW t \in Tasks, CreateAccount(t)
    PROVE  /\ accountKey' \in 1..keys' /\ storedKey' \in 0..keys'
           /\ keys' \in Nat /\ keys <= keys'
           /\ accounts \in Seq(1..keys')
           /\ accountKey' # 0 /\ accountKey' \in Nat
           /\ accountKey # 0 => accountKey' = accountKey
           /\ UNCHANGED <<scenario, directory, server, known>>
           /\ \/ PostAccount(t, accountKey', pool)
              \/ AwaitDirectory(t, "account") /\ UNCHANGED <<pool, accountUrl, spent>>
<1> DEFINE key == IF accountKey # 0 THEN accountKey
                  ELSE IF storedKey # 0 THEN storedKey ELSE keys + 1
<1>1. /\ accountKey' = key
      /\ storedKey' = IF key = keys + 1 /\ scenario.store THEN key ELSE storedKey
      /\ keys' = IF key = keys + 1 THEN key ELSE keys
  BY DEF CreateAccount
<1>2. /\ UNCHANGED <<scenario, directory, server, known>>
      /\ \/ PostAccount(t, key, pool)
         \/ AwaitDirectory(t, "account") /\ UNCHANGED <<pool, accountUrl, spent>>
  BY DEF CreateAccount
<1>3. /\ keys \in Nat /\ accountKey \in 0..keys /\ storedKey \in 0..keys
      /\ accounts \in Seq(1..keys)
  BY TypeFacts
<1>4. /\ key \in 1..keys' /\ storedKey' \in 0..keys' /\ keys' \in Nat /\ keys <= keys'
      /\ accountKey # 0 => key = accountKey
  BY <1>1, <1>3
<1> HIDE DEF key
<1>5. accounts \in Seq(1..keys')
  BY <1>3, <1>4, SeqOverMore
<1>6. key # 0 /\ key \in Nat
  BY <1>4
<1> QED
  BY <1>1, <1>2, <1>4, <1>5, <1>6

TypeInv == TypeOK /\ References

\* A request that is sent keeps the types, if the rest of the step does.
LEMMA SentTypes ==
    ASSUME TypeInv, NEW t \in Tasks, NEW m \in Task, NEW p, NEW url,
           NEW w \in Task, Sent(t, m, p, accountKey', url, w) \/ Sent(t, m, p, CertKey, url, w),
           m.op = "certRevoke" \/ Sent(t, m, p, accountKey', url, w),
           keys' \in Nat, keys <= keys', accountKey' \in 0..keys',
           accounts' = accounts, issued' \in Nat, issued <= issued',
           accountKey # 0 => accountKey' # 0,
           m.newKey <= keys',
           m.op = "account" => /\ m.saved <= Len(accounts) /\ m.location <= Len(accounts)
                               /\ accountKey' # 0,
           m.op = "rollover" => m.newKey # 0
    PROVE  task' \in [Tasks -> Task] /\ References'
<1>1. task' = [task EXCEPT ![t] = w] /\ SameRequest(w, m) /\ w.pc \in {"head", "wire"}
  BY DEF Sent
<1>2. w.pc = "wire" /\ m.op = "account" => w.key = accountKey'
  BY DEF Sent
<1>3. Len(accounts) \in Nat /\ Len(accounts)' = Len(accounts)
  BY TypeFacts DEF TypeInv
<1>4. Refers(w, keys', Len(accounts)', issued', accountKey')
  BY <1>1, <1>2, <1>3, SentRefers
<1>5. keys \in Nat /\ issued \in Nat /\ task \in [Tasks -> Task] /\ Len(accounts) <= Len(accounts)'
  BY <1>3, TypeFacts DEF TypeInv
<1> QED
  BY <1>1, <1>3, <1>4, <1>5, OneTaskChanges DEF TypeInv

\* create_account keeps the types.
LEMMA CreateAccountTypes ==
    ASSUME TypeInv, NEW t \in Tasks, CreateAccount(t)
    PROVE  TypeInv'
<1>0. TypeOK /\ References
  BY DEF TypeInv
<1>1. /\ accountKey' \in 1..keys' /\ storedKey' \in 0..keys'
      /\ keys' \in Nat /\ keys <= keys' /\ accounts \in Seq(1..keys')
      /\ accountKey' # 0 /\ accountKey' \in Nat /\ accountKey' \in 0..keys'
      /\ UNCHANGED <<scenario, directory, server, known>>
  BY <1>0, CreateAccountKey
<1>2. ops' = ops + 1 /\ ops \in Nat
  BY <1>0, TypeFacts DEF CreateAccount, MayStart
<1>3. /\ UNCHANGED <<accounts, closed, issued, live>>
      /\ issued \in Nat /\ pool \in Seq(1..issued) /\ Len(accounts) \in Nat
      /\ spent \subseteq 1..issued /\ accountUrl \in 0..Len(accounts) /\ keys \in Nat
      /\ task \in [Tasks -> Task]
  BY <1>0, <1>1, TypeFacts DEF server, TypeOK
<1>4. CASE PostAccount(t, accountKey', pool)
  <2>1. PICK w \in Task : Sent(t, NewAccount, pool, accountKey', 0, w)
    BY <1>0, <1>1, <1>3, <1>4, PostEffect
  <2>2. /\ NewAccount \in Task /\ NewAccount.op = "account" /\ NewAccount.newKey <= keys'
        /\ NewAccount.saved <= Len(accounts) /\ NewAccount.location <= Len(accounts)
    BY <1>0, <1>1, <1>3, NewTasks
  <2>3. task' \in [Tasks -> Task] /\ References'
    BY <1>1, <1>3, <2>1, <2>2, SentTypes
  <2>4. pool' \in Seq(1..issued) /\ spent' \subseteq spent \cup 1..issued /\ accountUrl' = 0
    BY <1>0, <1>1, <1>3, <1>4, PostEffect
  <2> QED
    BY <1>0, <1>1, <1>2, <1>3, <2>3, <2>4 DEF TypeInv, TypeOK
<1>5. CASE AwaitDirectory(t, "account") /\ UNCHANGED <<pool, accountUrl, spent>>
  <2>1. "account" \in Ops
    BY DEF Ops
  <2>2. /\ task' = [task EXCEPT ![t] = Waiting("account")]
        /\ Waiting("account") \in Task /\ Waiting("account").pc = "directory"
        /\ Waiting("account").op = "account" /\ Waiting("account").newKey = 0
        /\ Waiting("account").saved = 0 /\ Waiting("account").location = 0
    BY <1>5, <2>1, AwaitEffect
  <2>3. Refers(Waiting("account"), keys', Len(accounts)', issued', accountKey')
    BY <1>1, <1>3, <2>2 DEF Refers
  <2>4. task' \in [Tasks -> Task] /\ References'
    <3>1. Len(accounts)' = Len(accounts) /\ issued' = issued
      BY <1>3
    <3>2. Len(accounts) <= Len(accounts)' /\ issued <= issued' /\ issued' \in Nat
      BY <1>3, <3>1
    <3> QED
      BY <1>0, <1>1, <1>3, <2>2, <2>3, <3>1, <3>2, OneTaskChanges
  <2> QED
    BY <1>0, <1>1, <1>2, <1>3, <1>5, <2>4 DEF TypeInv, TypeOK
<1> QED
  BY <1>0, <1>4, <1>5, CreateAccountKey

\* A directory or a nonce that was asked for arrives: the pool it leaves.
LEMMA NewNonce ==
    ASSUME TypeOK, NEW p, p \in {pool, Append(pool, issued + 1)},
           issued' = issued + Len(p) - Len(pool),
           live' = live \cup (1..issued' \ 1..issued)
    PROVE  /\ issued' \in Nat /\ issued <= issued' /\ p \in Seq(1..issued')
           /\ live' \subseteq 1..issued'
           /\ \/ p = pool /\ issued' = issued /\ live' = live
              \/ p = Append(pool, issued + 1) /\ issued' = issued + 1
                 /\ live' = live \cup {issued + 1}
<1>1. issued \in Nat /\ pool \in Seq(1..issued) /\ live \subseteq 1..issued
  BY TypeFacts DEF TypeOK
<1>2. Len(pool) \in Nat /\ issued + 1 \in 1..(issued + 1) /\ issued + 1 \in Nat
  BY <1>1, SeqFacts
<1>3. pool \in Seq(1..(issued + 1))
  BY <1>1, <1>2, SeqOverMore
<1>4. CASE p = pool
  <2>1. issued' = issued
    BY <1>1, <1>2, <1>4
  <2>2. live' = live
    BY <1>1, <2>1
  <2> QED
    BY <1>1, <1>4, <2>1, <2>2
<1>5. CASE p = Append(pool, issued + 1)
  <2>1. p \in Seq(1..(issued + 1)) /\ Len(p) = Len(pool) + 1
    BY <1>2, <1>3, <1>5, AppendFacts
  <2>2. issued' = issued + 1
    BY <1>1, <1>2, <2>1
  <2>3. live' = live \cup {issued + 1}
    BY <1>1, <2>2
  <2>4. /\ issued <= issued' /\ issued' \in Nat
        /\ 1..issued \subseteq 1..issued' /\ issued + 1 \in 1..issued'
    BY <1>1, <2>2
  <2>5. live' \subseteq 1..issued'
    BY <1>1, <2>3, <2>4
  <2> QED
    BY <1>5, <2>1, <2>2, <2>3, <2>4, <2>5
<1> QED
  BY <1>4, <1>5

\* A request that is sent under the key and URL of the moment keeps the types.
LEMMA ResendTypes ==
    ASSUME TypeInv, NEW t \in Tasks, NEW m \in Task,
           issued' \in Nat, issued <= issued',
           NEW p \in Seq(1..issued'), Resend(t, m, p),
           UNCHANGED <<accountKey, keys, accounts>>,
           m.newKey <= keys,
           m.op = "account" => /\ m.saved <= Len(accounts) /\ m.location <= Len(accounts)
                               /\ accountKey # 0,
           m.op = "rollover" => m.newKey # 0
    PROVE  /\ task' \in [Tasks -> Task] /\ References'
           /\ pool' \in Seq(1..issued') /\ spent' \subseteq spent \cup 1..issued'
<1>1. TypeOK /\ keys \in Nat /\ accountKey \in 0..keys
  BY TypeFacts DEF TypeInv
<1>2. pool' \in Seq(1..issued') /\ spent' \subseteq spent \cup 1..issued'
  BY <1>1, ResendEffect
<1>3. PICK w \in Task : Sent(t, m, p, KeyFor(m), UrlFor(m), w)
  BY <1>1, ResendEffect
<1>4. /\ m.op = "certRevoke" => Sent(t, m, p, CertKey, UrlFor(m), w)
      /\ m.op # "certRevoke" => Sent(t, m, p, accountKey', UrlFor(m), w)
  BY <1>3 DEF KeyFor
<1>5. /\ keys' \in Nat /\ keys <= keys' /\ accountKey' \in 0..keys' /\ m.newKey <= keys'
      /\ m.op = "account" => accountKey' # 0
      /\ accountKey # 0 => accountKey' # 0
  BY <1>1
<1>6. task' \in [Tasks -> Task] /\ References'
  BY <1>4, <1>5, SentTypes
<1> QED
  BY <1>2, <1>6

\* The directory keeps the types.
LEMMA DirectoryTypes ==
    ASSUME TypeInv, NEW t \in Tasks, DirectoryArrives(t)
    PROVE  TypeInv'
<1>0. TypeOK /\ References
  BY DEF TypeInv
<1>1. /\ issued \in Nat /\ keys \in Nat /\ Len(accounts) \in Nat /\ accountKey \in 0..keys
      /\ accountKey \in Nat /\ accountUrl \in 0..Len(accounts) /\ spent \subseteq 1..issued
      /\ task \in [Tasks -> Task]
  BY <1>0, TypeFacts DEF TypeOK
<1>2. /\ task[t].pc = "directory" /\ directory' = TRUE
      /\ UNCHANGED <<scenario, accountKey, storedKey, keys, accounts, closed, ops, known>>
  BY DEF DirectoryArrives
<1>3. PICK p \in {pool, Append(pool, issued + 1)} :
         /\ issued' = issued + Len(p) - Len(pool)
         /\ live' = live \cup (1..issued' \ 1..issued)
         /\ \/ task[t].op = "account" /\ PostAccount(t, accountKey, p)
            \/ /\ task[t].op = "certRevoke"
               /\ Resend(t, task[t], p)
               /\ UNCHANGED accountUrl
  BY DEF DirectoryArrives
<1>4. /\ issued' \in Nat /\ issued <= issued' /\ p \in Seq(1..issued')
      /\ live' \subseteq 1..issued'
  BY <1>0, <1>3, NewNonce
<1>5. Refers(task[t], keys, Len(accounts), issued, accountKey) /\ task[t] \in Task
  BY <1>0, <1>1 DEF References
<1>6. /\ task' \in [Tasks -> Task] /\ References'
      /\ pool' \in Seq(1..issued') /\ spent' \subseteq spent \cup 1..issued'
      /\ accountUrl' \in 0..Len(accounts)
  <2>1. CASE task[t].op = "account" /\ PostAccount(t, accountKey, p)
    <3>1. accountKey # 0
      BY <1>2, <1>5, <2>1 DEF Refers
    <3>2. /\ pool' \in Seq(1..issued') /\ spent' \subseteq spent \cup 1..issued'
          /\ accountUrl' = 0
      BY <1>0, <1>1, <1>4, <2>1, PostEffect
    <3>3. PICK w \in Task : Sent(t, NewAccount, p, accountKey, 0, w)
      BY <1>0, <1>1, <1>4, <2>1, PostEffect
    <3>4. /\ NewAccount \in Task /\ NewAccount.op = "account" /\ NewAccount.newKey <= keys
          /\ NewAccount.saved <= Len(accounts) /\ NewAccount.location <= Len(accounts)
      BY <1>0, <1>1, NewTasks
    <3>5. task' \in [Tasks -> Task] /\ References'
      BY <1>1, <1>2, <1>4, <3>1, <3>3, <3>4, SentTypes
    <3> QED
      BY <1>1, <3>2, <3>5
  <2>2. CASE task[t].op = "certRevoke" /\ Resend(t, task[t], p) /\ UNCHANGED accountUrl
    BY <1>0, <1>1, <1>2, <1>4, <1>5, <2>2, ResendTypes DEF Refers, TypeInv
  <2> QED
    BY <1>3, <2>1, <2>2
<1>7. spent' \subseteq 1..issued'
  BY <1>1, <1>4, <1>6
<1> QED
  BY <1>0, <1>2, <1>4, <1>6, <1>7 DEF TypeInv, TypeOK

\* Calls that start with the directory at hand keep the types.
LEMMA StartTypes ==
    ASSUME TypeInv, NEW t \in Tasks, RevokeWithCertKey(t) \/ Request(t) \/ DeactivateAccount(t)
    PROVE  TypeInv'
<1>0. TypeOK /\ References
  BY DEF TypeInv
<1>1. /\ issued \in Nat /\ issued <= issued /\ keys \in Nat /\ ops \in Nat
      /\ pool \in Seq(1..issued) /\ spent \subseteq 1..issued
      /\ 0 <= keys /\ task \in [Tasks -> Task] /\ Len(accounts) \in Nat
  BY <1>0, TypeFacts DEF TypeOK
<1>2. /\ UNCHANGED <<scenario, accountKey, accountUrl, storedKey, keys, directory,
                     server, known>>
      /\ ops' = ops + 1
  BY DEF RevokeWithCertKey, Request, DeactivateAccount, MayStart
<1>3. UNCHANGED <<accounts, closed, issued, live>> /\ issued' \in Nat /\ issued <= issued'
  BY <1>1, <1>2 DEF server
<1>4. /\ task' \in [Tasks -> Task] /\ References'
      /\ pool' \in Seq(1..issued) /\ spent' \subseteq 1..issued
  <2>1. CASE \E m \in {NewRevocation, NewRequest, NewDeactivation} : Resend(t, m, pool)
    <3>1. PICK m \in {NewRevocation, NewRequest, NewDeactivation} : Resend(t, m, pool)
      BY <2>1
    <3>2. m \in Task /\ m.newKey <= keys /\ m.op # "account" /\ m.op # "rollover"
      BY <1>0, <1>1, <3>1, NewTasks
    <3>3. /\ task' \in [Tasks -> Task] /\ References'
          /\ pool' \in Seq(1..issued') /\ spent' \subseteq spent \cup 1..issued'
      BY <1>1, <1>2, <1>3, <3>1, <3>2, ResendTypes
    <3> QED
      BY <1>1, <1>3, <3>3
  <2>2. CASE AwaitDirectory(t, "certRevoke") /\ UNCHANGED <<pool, spent>>
    <3>1. "certRevoke" \in Ops
      BY DEF Ops
    <3> DEFINE w == Waiting("certRevoke")
    <3>2. /\ task' = [task EXCEPT ![t] = w] /\ w \in Task
          /\ w.pc = "directory" /\ w.op = "certRevoke" /\ w.newKey = 0
      BY <2>2, <3>1, AwaitEffect
    <3> HIDE DEF w
    <3>3. Len(accounts)' = Len(accounts) /\ issued' = issued /\ keys' = keys
      BY <1>2, <1>3
    <3>4. Refers(w, keys', Len(accounts)', issued', accountKey')
      BY <1>1, <3>2, <3>3 DEF Refers
    <3>5. keys <= keys' /\ Len(accounts) <= Len(accounts)'
      BY <1>1, <3>3
    <3> QED
      BY <1>0, <1>1, <1>2, <1>3, <2>2, <3>2, <3>3, <3>4, <3>5, OneTaskChanges
  <2>3. \/ \E m \in {NewRevocation, NewRequest, NewDeactivation} : Resend(t, m, pool)
        \/ AwaitDirectory(t, "certRevoke") /\ UNCHANGED <<pool, spent>>
    BY DEF RevokeWithCertKey, Request, DeactivateAccount, NewRevocation, NewRequest,
           NewDeactivation
  <2> QED
    BY <2>1, <2>2, <2>3
<1> QED
  BY <1>0, <1>1, <1>2, <1>3, <1>4 DEF TypeInv, TypeOK

\* A key that could not be saved keeps the types.
LEMMA SaveNewKeyFailsTypes == TypeInv /\ SaveNewKeyFails => TypeInv'
<1> SUFFICES ASSUME TypeInv, SaveNewKeyFails PROVE TypeInv'
  OBVIOUS
<1>0. TypeOK /\ References
  BY DEF TypeInv
<1>1. /\ keys \in Nat /\ accountKey \in 0..keys /\ storedKey \in 0..keys
      /\ accounts \in Seq(1..keys) /\ Len(accounts) \in Nat /\ issued \in Nat
      /\ task \in [Tasks -> Task]
  BY <1>0, TypeFacts
<1>2. /\ keys' = keys + 1 /\ accountKey' = keys + 1 /\ accountKey = 0
      /\ UNCHANGED <<scenario, pool, accountUrl, storedKey, directory, accounts, closed,
                     issued, live, task, ops, spent, known>>
  BY DEF SaveNewKeyFails, server
<1>3. /\ keys' \in Nat /\ keys <= keys' /\ accountKey' \in 0..keys' /\ storedKey' \in 0..keys'
      /\ issued <= issued /\ Len(accounts) <= Len(accounts)
  BY <1>1, <1>2
<1>4. accounts \in Seq(1..keys')
  BY <1>1, <1>3, SeqOverMore
<1>5. ASSUME NEW s \in Tasks
      PROVE  Refers(task[s], keys', Len(accounts), issued, accountKey')
  <2>1. Refers(task[s], keys, Len(accounts), issued, accountKey) /\ task[s] \in Task
    BY <1>0, <1>1 DEF References
  <2> QED
    BY <1>1, <1>2, <1>3, <2>1, RefersMore
<1>6. References'
  BY <1>2, <1>5 DEF References
<1> QED
  BY <1>0, <1>2, <1>3, <1>4, <1>6 DEF TypeInv, TypeOK

\* A key change that begins keeps the types.
LEMMA RolloverTypes ==
    ASSUME TypeInv, NEW t \in Tasks, RolloverKey(t)
    PROVE  TypeInv'
<1>0. TypeOK /\ References
  BY DEF TypeInv
<1>1. /\ keys \in Nat /\ accountKey \in 0..keys /\ storedKey \in 0..keys /\ ops \in Nat
      /\ accounts \in Seq(1..keys) /\ Len(accounts) \in Nat /\ issued \in Nat
      /\ pool \in Seq(1..issued) /\ spent \subseteq 1..issued
      /\ accountKey \in Nat /\ accountUrl \in Nat
  BY <1>0, TypeFacts DEF TypeOK
<1>2. /\ Send(t, NewRollover, pool, accountKey, accountUrl)
      /\ keys' = keys + 1 /\ accountKey # 0 /\ ops' = ops + 1
      /\ UNCHANGED <<scenario, accountKey, accountUrl, storedKey, directory, accounts, closed,
                     issued, live, known>>
  BY DEF RolloverKey, NewRollover, MayStart, server
<1>3. /\ NewRollover \in Task /\ NewRollover.op = "rollover" /\ NewRollover.newKey = keys + 1
  BY <1>0, NewTasks
<1>4. /\ pool' \in Seq(1..issued) /\ spent' \subseteq spent \cup 1..issued
  BY <1>1, <1>2, <1>3, SendEffect
<1>5. PICK w \in Task : Sent(t, NewRollover, pool, accountKey, accountUrl, w)
  BY <1>1, <1>2, <1>3, SendEffect
<1>6. /\ keys' \in Nat /\ keys <= keys' /\ accountKey' \in 0..keys' /\ storedKey' \in 0..keys'
      /\ issued' \in Nat /\ issued <= issued' /\ NewRollover.newKey <= keys'
      /\ NewRollover.newKey # 0
  BY <1>1, <1>2, <1>3
<1>7. task' \in [Tasks -> Task] /\ References'
  BY <1>2, <1>3, <1>5, <1>6, SentTypes
<1>8. accounts' \in Seq(1..keys')
  BY <1>1, <1>2, <1>6, SeqOverMore
<1>9. spent' \subseteq 1..issued
  BY <1>1, <1>4
<1> QED
  BY <1>0, <1>1, <1>2, <1>4, <1>6, <1>7, <1>8, <1>9 DEF TypeInv, TypeOK

\* A nonce that arrives keeps the types.
LEMMA NonceTypes ==
    ASSUME TypeInv, NEW t \in Tasks, NonceArrives(t)
    PROVE  TypeInv'
<1>0. TypeOK /\ References
  BY DEF TypeInv
<1>1. /\ issued \in Nat /\ pool \in Seq(1..issued) /\ spent \subseteq 1..issued
      /\ live \subseteq 1..issued /\ task \in [Tasks -> Task]
  BY <1>0, TypeFacts DEF TypeOK
<1>2. /\ task[t].pc = "head" /\ issued' = issued + 1 /\ live' = live \cup {issued + 1}
      /\ Resend(t, task[t], Append(pool, issued + 1))
      /\ UNCHANGED <<scenario, accountKey, accountUrl, storedKey, keys, directory,
                     accounts, closed, ops, known>>
  BY DEF NonceArrives
<1>3. /\ issued' \in Nat /\ issued <= issued' /\ issued + 1 \in 1..issued'
      /\ 1..issued \subseteq 1..issued'
  BY <1>1, <1>2
<1>4. Append(pool, issued + 1) \in Seq(1..issued')
  BY <1>1, <1>3, SeqOverMore, AppendFacts
<1>5. /\ Refers(task[t], keys, Len(accounts), issued, accountKey) /\ task[t] \in Task
  BY <1>0, <1>1 DEF References
<1>6. /\ task' \in [Tasks -> Task] /\ References'
      /\ pool' \in Seq(1..issued') /\ spent' \subseteq spent \cup 1..issued'
  BY <1>2, <1>3, <1>4, <1>5, ResendTypes DEF Refers
<1>7. spent' \subseteq 1..issued' /\ live' \subseteq 1..issued'
  BY <1>1, <1>2, <1>3, <1>6
<1> QED
  BY <1>0, <1>2, <1>3, <1>6, <1>7 DEF TypeInv, TypeOK

\* The account of a key that has one.
LEMMA AccountOfRegistered ==
    ASSUME NEW key, Registered(key)
    PROVE  AccountOf(key) \in DOMAIN accounts /\ accounts[AccountOf(key)] = key
  BY DEF Registered, AccountOf

\* An answer is the request with a result, a new nonce and a URL.
AnswerOf(m, result, loc) ==
    [m EXCEPT !.pc = "reply", !.reply = result, !.fresh = issued', !.location = loc]

\* The four outcomes of Process, each an answer w to task t.
Rejects(t, w) ==
    /\ w = AnswerOf(task[t], "badNonce", task[t].location)
    /\ task[t].nonce \notin live
    /\ UNCHANGED <<accounts, closed>>
Refuses(t, w) ==
    /\ w = AnswerOf(task[t], "error", task[t].location)
    /\ "refuse" \in scenario.faults \/ ~Authentic(task[t])
    /\ UNCHANGED <<accounts, closed>>
GrantsAccount(t, w) ==
    /\ task[t].op = "account" /\ Authentic(task[t])
    /\ UNCHANGED closed
    /\ \/ /\ Registered(task[t].key) /\ accounts' = accounts
          /\ w = AnswerOf(task[t], "ok", AccountOf(task[t].key))
       \/ /\ ~Registered(task[t].key) /\ accounts' = Append(accounts, task[t].key)
          /\ w = AnswerOf(task[t], "ok", Len(accounts) + 1)
GrantsRequest(t, w) ==
    /\ task[t].op # "account" /\ Authentic(task[t])
    /\ w = AnswerOf(task[t], "ok", task[t].location)
    /\ \/ /\ task[t].op = "rollover"
          /\ accounts' = [accounts EXCEPT ![task[t].kid] = task[t].newKey]
          /\ UNCHANGED closed
       \/ /\ task[t].op # "rollover" /\ accounts' = accounts
          /\ closed' = closed \/ (task[t].op = "deactivate" /\ closed' = closed \cup {task[t].kid})

\* The server reads a request: its nonce is spent and the answer brings the next.
LEMMA ProcessEffect ==
    ASSUME TypeOK, NEW t \in Tasks, Process(t)
    PROVE  /\ task[t].pc = "wire" /\ issued' = issued + 1
           /\ live' = (live \ {task[t].nonce}) \cup {issued + 1}
           /\ UNCHANGED <<scenario, client, ops, spent, known>>
           /\ \E w : /\ task' = [task EXCEPT ![t] = w]
                     /\ Rejects(t, w) \/ Refuses(t, w) \/ GrantsAccount(t, w) \/ GrantsRequest(t, w)
<1> DEFINE m == task[t]
<1>1. /\ m.pc = "wire" /\ issued' = issued + 1
      /\ live' = (live \ {m.nonce}) \cup {issued + 1}
      /\ UNCHANGED <<scenario, client, ops, spent, known>>
  BY DEF Process
<1>2. CASE m.nonce \notin live /\ Answer(t, "badNonce", m.location)
           /\ UNCHANGED <<accounts, closed>>
  <2> DEFINE w == AnswerOf(m, "badNonce", m.location)
  <2>1. task' = [task EXCEPT ![t] = w] /\ Rejects(t, w)
    BY <1>1, <1>2 DEF Answer, AnswerOf, Rejects
  <2> QED
    BY <1>1, <2>1
<1>3. CASE /\ "refuse" \in scenario.faults \/ ~Authentic(m)
           /\ Answer(t, "error", m.location)
           /\ UNCHANGED <<accounts, closed>>
  <2> DEFINE w == AnswerOf(m, "error", m.location)
  <2>1. task' = [task EXCEPT ![t] = w] /\ Refuses(t, w)
    BY <1>1, <1>3 DEF Answer, AnswerOf, Refuses
  <2> QED
    BY <1>1, <2>1
<1>4. CASE /\ Authentic(m) /\ m.op = "account"
           /\ accounts' = IF Registered(m.key) THEN accounts ELSE Append(accounts, m.key)
           /\ Answer(t, "ok", IF Registered(m.key) THEN AccountOf(m.key)
                              ELSE Len(accounts) + 1)
           /\ UNCHANGED closed
  <2> DEFINE w == AnswerOf(m, "ok", IF Registered(m.key) THEN AccountOf(m.key)
                                    ELSE Len(accounts) + 1)
  <2>1. task' = [task EXCEPT ![t] = w]
    BY <1>1, <1>4 DEF Answer, AnswerOf
  <2>2. GrantsAccount(t, w)
    BY <1>4 DEF GrantsAccount
  <2> QED
    BY <1>1, <2>1, <2>2
<1>5. CASE /\ Authentic(m) /\ m.op # "account"
           /\ accounts' = IF m.op = "rollover" THEN [accounts EXCEPT ![m.kid] = m.newKey]
                          ELSE accounts
           /\ closed' = IF m.op = "deactivate" THEN closed \cup {m.kid} ELSE closed
           /\ Answer(t, "ok", m.location)
  <2> DEFINE w == AnswerOf(m, "ok", m.location)
  <2>1. task' = [task EXCEPT ![t] = w]
    BY <1>1, <1>5 DEF Answer, AnswerOf
  <2>2. GrantsRequest(t, w)
    BY <1>5 DEF GrantsRequest
  <2> QED
    BY <1>1, <2>1, <2>2
<1> QED
  BY <1>2, <1>3, <1>4, <1>5 DEF Process

\* What the server answers keeps the types.
LEMMA ProcessTypes ==
    ASSUME TypeInv, NEW t \in Tasks, Process(t)
    PROVE  TypeInv'
<1> DEFINE m == task[t]
<1>0. TypeOK /\ References
  BY DEF TypeInv
<1>1. /\ issued \in Nat /\ keys \in Nat /\ Len(accounts) \in Nat /\ accounts \in Seq(1..keys)
      /\ pool \in Seq(1..issued) /\ spent \subseteq 1..issued /\ live \subseteq 1..issued
      /\ closed \subseteq DOMAIN accounts /\ accountUrl \in 0..Len(accounts)
      /\ task \in [Tasks -> Task] /\ DOMAIN accounts = 1..Len(accounts)
  BY <1>0, TypeFacts DEF TypeOK
<1>2. /\ m.pc = "wire" /\ issued' = issued + 1
      /\ live' = (live \ {m.nonce}) \cup {issued + 1}
      /\ UNCHANGED <<scenario, pool, accountKey, accountUrl, storedKey, keys, directory,
                     ops, spent, known>>
  BY <1>0, ProcessEffect DEF client
<1>3. PICK w : /\ task' = [task EXCEPT ![t] = w]
               /\ Rejects(t, w) \/ Refuses(t, w) \/ GrantsAccount(t, w) \/ GrantsRequest(t, w)
  BY <1>0, ProcessEffect
<1>4. m \in Task /\ Refers(m, keys, Len(accounts), issued, accountKey)
  BY <1>0, <1>1 DEF References
<1>5. /\ m.location \in Nat /\ m.kid \in Nat /\ m.newKey \in Nat
  BY <1>4, TaskFields
<1>6. /\ accounts' \in Seq(1..keys) /\ Len(accounts') \in Nat /\ Len(accounts) <= Len(accounts')
      /\ closed' \subseteq DOMAIN accounts'
      /\ \E result \in {"ok", "badNonce", "error"} : \E loc \in Nat :
            /\ w = AnswerOf(m, result, loc)
            /\ m.op = "account" => loc <= Len(accounts')
  <2>1. CASE Rejects(t, w) \/ Refuses(t, w)
    BY <1>1, <1>4, <1>5, <2>1 DEF Rejects, Refuses, Refers
  <2>2. CASE GrantsAccount(t, w)
    <3>1. m.op = "account" /\ m.key \in 1..keys /\ closed' = closed
      BY <1>2, <1>4, <2>2 DEF GrantsAccount, Refers
    <3>2. CASE /\ Registered(m.key) /\ accounts' = accounts
               /\ w = AnswerOf(m, "ok", AccountOf(m.key))
      <4>1. AccountOf(m.key) \in 1..Len(accounts)
        BY <1>1, <3>2, AccountOfRegistered
      <4>2. AccountOf(m.key) \in Nat /\ AccountOf(m.key) <= Len(accounts)
        BY <1>1, <4>1
      <4> QED
        BY <1>1, <3>1, <3>2, <4>2
    <3>3. CASE /\ accounts' = Append(accounts, m.key)
               /\ w = AnswerOf(m, "ok", Len(accounts) + 1)
      <4>1. /\ accounts' \in Seq(1..keys) /\ Len(accounts') = Len(accounts) + 1
            /\ DOMAIN accounts' = 1..(Len(accounts) + 1)
        BY <1>1, <3>1, <3>3, AppendFacts
      <4>2. /\ Len(accounts) + 1 \in Nat /\ 1..Len(accounts) \subseteq 1..(Len(accounts) + 1)
            /\ Len(accounts) <= Len(accounts) + 1 /\ Len(accounts) + 1 <= Len(accounts) + 1
        BY <1>1
      <4> QED
        BY <1>1, <3>1, <3>3, <4>1, <4>2
    <3> QED
      BY <2>2, <3>2, <3>3 DEF GrantsAccount
  <2>3. CASE GrantsRequest(t, w)
    <3>1. w = AnswerOf(m, "ok", m.location) /\ m.op # "account"
      BY <2>3 DEF GrantsRequest
    <3>2. m.op # "certRevoke" => m.kid \in DOMAIN accounts
      BY <2>3 DEF GrantsRequest, Authentic
    <3>3. /\ accounts' \in Seq(1..keys) /\ Len(accounts') = Len(accounts)
          /\ DOMAIN accounts' = DOMAIN accounts
      <4>1. CASE m.op = "rollover" /\ accounts' = [accounts EXCEPT ![m.kid] = m.newKey]
        <5>1. m.newKey \in 1..keys
          BY <1>1, <1>2, <1>4, <1>5, <4>1 DEF Refers
        <5>2. m.kid \in 1..Len(accounts)
          BY <1>1, <3>2, <4>1
        <5> QED
          BY <1>1, <4>1, <5>1, <5>2, ExceptSeq
      <4>2. CASE accounts' = accounts
        BY <1>1, <4>2
      <4> QED
        BY <2>3, <4>1, <4>2 DEF GrantsRequest
    <3>4. closed' \subseteq DOMAIN accounts
      BY <1>1, <2>3, <3>2 DEF GrantsRequest
    <3> QED
      BY <1>1, <1>5, <3>1, <3>3, <3>4
  <2> QED
    BY <1>3, <2>1, <2>2, <2>3
<1>7. PICK result \in {"ok", "badNonce", "error"} : \E loc \in Nat :
            /\ w = AnswerOf(m, result, loc)
            /\ m.op = "account" => loc <= Len(accounts')
  BY <1>6
<1>8. PICK loc \in Nat : /\ w = AnswerOf(m, result, loc)
                         /\ m.op = "account" => loc <= Len(accounts')
  BY <1>7
<1>9. /\ issued' \in Nat /\ issued <= issued' /\ issued' \in 1..issued'
      /\ 1..issued \subseteq 1..issued' /\ keys <= keys
  BY <1>1, <1>2
<1>10. /\ w \in Task /\ w.pc = "reply" /\ w.fresh = issued' /\ w.location = loc
       /\ w.op = m.op /\ w.saved = m.saved /\ w.newKey = m.newKey
  <2>1. /\ issued' \in Nat /\ result \in {"ok", "badNonce", "error"} /\ loc \in Nat
        /\ m \in Task /\ w = AnswerOf(m, result, loc)
    BY <1>4, <1>7, <1>8, <1>9
  <2> HIDE DEF m
  <2> QED
    BY <2>1 DEF AnswerOf, Task
<1>11. m.saved \in Nat /\ (m.op = "account" => m.saved <= Len(accounts'))
  BY <1>1, <1>4, <1>6, TaskFields DEF Refers
<1>12. Refers(w, keys', Len(accounts)', issued', accountKey')
  BY <1>2, <1>4, <1>8, <1>9, <1>10, <1>11 DEF Refers
<1>13. task' \in [Tasks -> Task] /\ References'
  BY <1>0, <1>1, <1>2, <1>3, <1>6, <1>9, <1>10, <1>12, OneTaskChanges
<1>14. pool' \in Seq(1..issued') /\ spent' \subseteq 1..issued' /\ live' \subseteq 1..issued'
  BY <1>1, <1>2, <1>9, SeqOverMore
<1>15. accountUrl' \in 0..Len(accounts')
  BY <1>1, <1>2, <1>6
<1> QED
  BY <1>0, <1>2, <1>6, <1>9, <1>13, <1>14, <1>15 DEF TypeInv, TypeOK

\* A nonce the server forgets, and a restart, keep the types.
LEMMA ServerAndProcessTypes == TypeInv /\ ((\E n \in live : Expire(n)) \/ Restart) => TypeInv'
<1> SUFFICES ASSUME TypeInv, (\E n \in live : Expire(n)) \/ Restart
             PROVE  TypeInv'
  OBVIOUS
<1>0. TypeOK /\ References
  BY DEF TypeInv
<1>1. CASE \E n \in live : Expire(n)
  <2>1. /\ live' \subseteq live
        /\ UNCHANGED <<scenario, pool, accountKey, accountUrl, storedKey, keys, directory,
                       accounts, closed, issued, task, ops, spent, known>>
    BY <1>1 DEF Expire, client
  <2>2. References'
    BY <1>0, <2>1 DEF References
  <2> QED
    BY <1>0, <2>1, <2>2 DEF TypeInv, TypeOK
<1>2. CASE Restart
  <2>1. /\ pool' = <<>> /\ accountUrl' = 0 /\ directory' = FALSE
        /\ task' = [s \in Tasks |-> Idle] /\ known' = FALSE
        /\ UNCHANGED <<scenario, storedKey, keys, accounts, closed, issued, live, ops, spent>>
    BY <1>2 DEF Restart, server
  <2>2. /\ keys \in Nat /\ issued \in Nat /\ Len(accounts) \in Nat
        /\ accountKey' \in 0..keys
    BY <1>0, <1>2, TypeFacts DEF Restart
  <2>3. 0 \in 0..keys /\ 0 \in 0..Len(accounts) /\ <<>> \in Seq(1..issued)
    BY <2>2, EmptySeq
  <2>4. task' \in [Tasks -> Task]
    BY <2>1, IdleFacts
  <2>5. References'
    BY <2>1, <2>2, IdleFacts DEF References
  <2> QED
    BY <1>0, <2>1, <2>2, <2>3, <2>4, <2>5 DEF TypeInv, TypeOK
<1> QED
  BY <1>1, <1>2

\* Ending an operation keeps the types of tasks.
LEMMA FinishTypes ==
    ASSUME TypeInv, NEW t \in Tasks, Finish(t), UNCHANGED <<keys, accounts, issued>>,
           accountKey # 0 => accountKey' # 0
    PROVE  task' \in [Tasks -> Task] /\ References'
<1>1. /\ keys \in Nat /\ issued \in Nat /\ Len(accounts) \in Nat
      /\ task \in [Tasks -> Task] /\ References
  BY TypeFacts DEF TypeInv
<1>2. /\ keys' = keys /\ issued' = issued /\ Len(accounts)' = Len(accounts)
      /\ task' = [task EXCEPT ![t] = Idle]
  BY DEF Finish
<1>3. keys <= keys' /\ issued <= issued' /\ Len(accounts) <= Len(accounts)'
  BY <1>1, <1>2
<1>4. Refers(Idle, keys', Len(accounts)', issued', accountKey') /\ Idle \in Task
  BY <1>1, <1>2, IdleFacts
<1> QED
  BY <1>1, <1>2, <1>3, <1>4, OneTaskChanges

\* The key and the URL an operation leaves when it ends.
LEMMA EndKeys ==
    ASSUME TypeInv, NEW t \in Tasks, Fail(t) \/ (Succeed(t) /\ task[t].pc = "reply"),
           UNCHANGED accounts
    PROVE  /\ keys' = keys /\ Finish(t)
           /\ accountKey' \in 0..keys /\ storedKey' \in 0..keys
           /\ accountKey # 0 => accountKey' # 0
           /\ accountUrl' \in 0..Len(accounts) /\ known' \in BOOLEAN
<1>1. /\ keys \in Nat /\ Len(accounts) \in Nat
      /\ task \in [Tasks -> Task] /\ known \in BOOLEAN
      /\ accountKey \in 0..keys /\ storedKey \in 0..keys /\ accountUrl \in 0..Len(accounts)
  BY TypeFacts DEF TypeInv, TypeOK
<1>2. task[t] \in Task /\ Refers(task[t], keys, Len(accounts), issued, accountKey)
  BY <1>1 DEF References, TypeInv
<1>3. /\ task[t].saved \in Nat /\ task[t].location \in Nat /\ task[t].newKey \in 0..keys
      /\ task[t].op = "account" => /\ task[t].saved \in 0..Len(accounts)
                                   /\ task[t].location \in 0..Len(accounts)
      /\ task[t].op = "rollover" /\ task[t].pc # "idle" => task[t].newKey # 0
  BY <1>1, <1>2, TaskFields DEF Refers
<1>4. CASE Fail(t)
  <2>1. /\ Finish(t) /\ UNCHANGED <<accountKey, storedKey, keys, known>>
        /\ accountUrl' = accountUrl \/ (task[t].op = "account" /\ accountUrl' = task[t].saved)
    BY <1>4 DEF Fail
  <2> QED
    BY <1>1, <1>3, <2>1
<1>5. CASE Succeed(t) /\ task[t].pc = "reply"
  <2>1. keys' = keys /\ Finish(t)
    BY <1>5 DEF Succeed
  <2>2. CASE /\ task[t].op = "account" /\ accountUrl' = task[t].location /\ known' = TRUE
             /\ UNCHANGED <<accountKey, storedKey>>
    BY <1>1, <1>3, <2>1, <2>2
  <2>3. CASE /\ task[t].op = "rollover" /\ accountKey' = task[t].newKey
             /\ storedKey' \in {storedKey, task[t].newKey}
             /\ UNCHANGED <<accountUrl, known>>
    BY <1>1, <1>3, <1>5, <2>1, <2>3
  <2>4. CASE UNCHANGED <<accountKey, accountUrl, storedKey, known>>
    BY <1>1, <2>1, <2>4
  <2> QED
    BY <1>5, <2>2, <2>3, <2>4 DEF Succeed
<1> QED
  BY <1>4, <1>5

\* A lost or cancelled operation keeps the types.
LEMMA EndTypes ==
    ASSUME TypeInv, NEW t \in Tasks, Lose(t) \/ Cancel(t)
    PROVE  TypeInv'
<1>0. TypeOK /\ References
  BY DEF TypeInv
<1>1. /\ UNCHANGED <<scenario, pool, directory, accounts, closed, issued, live, ops, spent>>
      /\ Fail(t) \/ (Finish(t) /\ UNCHANGED <<accountKey, accountUrl, storedKey, keys, known>>)
  BY DEF Lose, Cancel, client, server
<1>2. CASE Fail(t)
  <2>1. /\ keys' = keys /\ Finish(t)
        /\ accountKey' \in 0..keys /\ storedKey' \in 0..keys
        /\ accountKey # 0 => accountKey' # 0
        /\ accountUrl' \in 0..Len(accounts) /\ known' \in BOOLEAN
    BY <1>1, <1>2, EndKeys
  <2>2. task' \in [Tasks -> Task] /\ References'
    BY <1>1, <2>1, FinishTypes
  <2> QED
    BY <1>0, <1>1, <2>1, <2>2 DEF TypeInv, TypeOK
<1>3. CASE Finish(t) /\ UNCHANGED <<accountKey, accountUrl, storedKey, keys, known>>
  <2>1. task' \in [Tasks -> Task] /\ References'
    BY <1>1, <1>3, FinishTypes
  <2> QED
    BY <1>0, <1>1, <1>3, <2>1 DEF TypeInv, TypeOK
<1> QED
  BY <1>1, <1>2, <1>3

\* m sent again.
Retried(m) == [m EXCEPT !.retried = TRUE]

\* A call that is sent again is the same call.
LEMMA RetriedFacts ==
    ASSUME NEW m \in Task
    PROVE  /\ Retried(m) \in Task
           /\ Retried(m).op = m.op /\ Retried(m).saved = m.saved
           /\ Retried(m).newKey = m.newKey /\ Retried(m).location = m.location
           /\ Retried(m).fresh = m.fresh /\ Retried(m).reply = m.reply
  BY DEF Retried, Task

\* A response: the call returns, is sent again or raises.
LEMMA RespondEffect ==
    ASSUME TypeInv, NEW t \in Tasks, Respond(t)
    PROVE  LET p == Append(pool, task[t].fresh) IN
           /\ task[t].pc = "reply" /\ task[t] \in Task
           /\ task[t].fresh \in 1..issued /\ p \in Seq(1..issued) /\ issued \in Nat
           /\ UNCHANGED <<scenario, directory, accounts, closed, issued, live, ops>>
           /\ \/ /\ task[t].reply = "ok" /\ Succeed(t)
                 /\ pool' = p /\ spent' = spent
              \/ /\ task[t].reply = "badNonce" /\ Resend(t, Retried(task[t]), p)
                 /\ UNCHANGED <<accountKey, accountUrl, storedKey, keys, known>>
              \/ /\ task[t].reply # "ok" /\ Fail(t)
                 /\ pool' = p /\ spent' = spent
<1>1. /\ task[t].pc = "reply"
      /\ UNCHANGED <<scenario, directory, accounts, closed, issued, live, ops>>
  BY DEF Respond, server
<1>2. /\ issued \in Nat /\ pool \in Seq(1..issued) /\ task[t] \in Task
      /\ Refers(task[t], keys, Len(accounts), issued, accountKey)
  BY TypeFacts DEF TypeInv, References
<1>3. task[t].fresh \in 1..issued
  BY <1>1, <1>2 DEF Refers
<1>4. Append(pool, task[t].fresh) \in Seq(1..issued)
  BY <1>2, <1>3, AppendFacts
<1> QED
  BY <1>1, <1>2, <1>3, <1>4 DEF Respond, Retried

\* A response keeps the types.
LEMMA RespondTypes ==
    ASSUME TypeInv, NEW t \in Tasks, Respond(t)
    PROVE  TypeInv'
<1> DEFINE p == Append(pool, task[t].fresh)
           m == Retried(task[t])
<1>0. TypeOK /\ References
  BY DEF TypeInv
<1>1. /\ task[t].pc = "reply" /\ task[t] \in Task
      /\ p \in Seq(1..issued) /\ issued \in Nat
      /\ UNCHANGED <<scenario, directory, accounts, closed, issued, live, ops>>
      /\ \/ /\ task[t].reply = "ok" /\ Succeed(t)
            /\ pool' = p /\ spent' = spent
         \/ /\ task[t].reply = "badNonce" /\ Resend(t, m, p)
            /\ UNCHANGED <<accountKey, accountUrl, storedKey, keys, known>>
         \/ /\ task[t].reply # "ok" /\ Fail(t)
            /\ pool' = p /\ spent' = spent
  BY RespondEffect
<1> HIDE DEF p
<1>2. CASE (Succeed(t) \/ Fail(t)) /\ pool' = p /\ spent' = spent
  <2>1. /\ keys' = keys /\ Finish(t)
        /\ accountKey' \in 0..keys /\ storedKey' \in 0..keys
        /\ accountKey # 0 => accountKey' # 0
        /\ accountUrl' \in 0..Len(accounts) /\ known' \in BOOLEAN
    BY <1>1, <1>2, EndKeys
  <2>2. task' \in [Tasks -> Task] /\ References'
    BY <1>1, <2>1, FinishTypes
  <2> QED
    BY <1>0, <1>1, <1>2, <2>1, <2>2 DEF TypeInv, TypeOK
<1>3. CASE /\ Resend(t, m, p)
           /\ UNCHANGED <<accountKey, accountUrl, storedKey, keys, known>>
  <2>1. Refers(task[t], keys, Len(accounts), issued, accountKey)
    BY <1>0 DEF References
  <2>2. m \in Task /\ m.op = task[t].op /\ m.saved = task[t].saved
        /\ m.newKey = task[t].newKey /\ m.location = task[t].location
    BY <1>1, RetriedFacts
  <2> HIDE DEF m
  <2>3. issued' \in Nat /\ issued <= issued' /\ issued' = issued
    BY <1>1
  <2>4. /\ task' \in [Tasks -> Task] /\ References'
        /\ pool' \in Seq(1..issued') /\ spent' \subseteq spent \cup 1..issued'
    BY <1>1, <1>3, <2>1, <2>2, <2>3, ResendTypes DEF Refers
  <2> QED
    BY <1>0, <1>1, <1>3, <2>3, <2>4 DEF TypeInv, TypeOK
<1> QED
  BY <1>1, <1>2, <1>3

\* Every step keeps the types.
LEMMA TypeStep == TypeInv /\ [Next]_vars => TypeInv'
<1> SUFFICES ASSUME TypeInv, [Next]_vars PROVE TypeInv'
  OBVIOUS
<1>1. ASSUME NEW t \in Tasks,
             \/ CreateAccount(t) \/ Request(t) \/ RolloverKey(t)
             \/ DeactivateAccount(t) \/ RevokeWithCertKey(t)
             \/ DirectoryArrives(t) \/ NonceArrives(t) \/ Process(t) \/ Respond(t)
             \/ Lose(t) \/ Cancel(t)
      PROVE  TypeInv'
  BY <1>1, CreateAccountTypes, StartTypes, RolloverTypes, DirectoryTypes, NonceTypes,
     ProcessTypes, RespondTypes, EndTypes
<1>2. CASE (\E n \in live : Expire(n)) \/ Restart
  BY <1>2, ServerAndProcessTypes
<1>3. CASE SaveNewKeyFails
  BY <1>3, SaveNewKeyFailsTypes
<1>4. CASE UNCHANGED vars
  BY <1>4 DEF vars, client, server, TypeInv, TypeOK, References
<1> QED
  BY <1>1, <1>2, <1>3, <1>4 DEF Next

\* Every state has the right type: nonces, keys and account URLs are ones
\* that were handed out, generated and created.
THEOREM TypeCorrect == Spec => []TypeOK
<1>1. Init => TypeInv
  BY TypeInit DEF TypeInv
<1>2. TypeInv => TypeOK
  BY DEF TypeInv
<1> QED
  BY <1>1, <1>2, TypeStep, PTL DEF Spec

-----------------------------------------------------------------------------
(* Nonces *)

NonceInv == OnePlace /\ NoncesLive

\* Leaving a task out leaves the others apart.
LEMMA OthersApart ==
    ASSUME NonceInv, NEW t
    PROVE  /\ Apart(Tasks \ {t}, pool) /\ Accepted(Tasks \ {t}, pool, live)
           /\ \A more : Accepted(Tasks \ {t}, pool, live \cup more)
  BY DEF NonceInv, OnePlace, NoncesLive, Apart, Accepted

\* A nonce that is in no other place can be put into the pool.
LEMMA Harvest ==
    ASSUME NEW T, NEW N \in Nat, NEW p \in Seq(1..N), NEW n \in 1..N, NEW nonces,
           Apart(T, p), Accepted(T, p, nonces), n \notin spent,
           \A i \in DOMAIN p : p[i] # n,
           \A s \in T : task[s].pc = "reply" => task[s].fresh # n
    PROVE  /\ Apart(T, Append(p, n))
           /\ ("expire" \notin scenario.faults => n \in nonces)
                 => Accepted(T, Append(p, n), nonces)
<1> DEFINE q == Append(p, n)
<1>1. /\ DOMAIN p = 1..Len(p) /\ Len(p) \in Nat
      /\ DOMAIN q = 1..(Len(p) + 1)
      /\ \A i \in 1..Len(p) : q[i] = p[i]
      /\ q[Len(p) + 1] = n
  BY SeqFacts, AppendFacts
<1>2. /\ DOMAIN q = DOMAIN p \cup {Len(p) + 1} /\ Len(p) + 1 \notin DOMAIN p
      /\ \A i \in DOMAIN p : q[i] = p[i]
      /\ q[Len(p) + 1] = n
  BY <1>1
<1> HIDE DEF q
<1>3. Apart(T, q)
  BY <1>2 DEF Apart
<1>4. ("expire" \notin scenario.faults => n \in nonces) => Accepted(T, q, nonces)
  BY <1>2 DEF Accepted
<1> QED
  BY <1>3, <1>4 DEF q

\* A task that sends takes its nonce out of the pool, so that it is apart from
\* the others.
LEMMA SentApart ==
    ASSUME NEW t \in Tasks, NEW m, NEW N \in Nat, NEW p \in Seq(1..N), NEW key, NEW url, NEW w,
           task \in [Tasks -> Task], pool' \in Seq(1..N), Sent(t, m, p, key, url, w),
           scenario' = scenario,
           Apart(Tasks \ {t}, p), Accepted(Tasks \ {t}, p, live')
    PROVE  NonceInv'
<1>1. /\ task' = [task EXCEPT ![t] = w]
      /\ w.pc \in {"head", "wire"}
      /\ \A s \in Tasks \ {t} : task'[s] = task[s]
      /\ task'[t] = w
  BY DEF Sent
<1>2. DOMAIN p = 1..Len(p) /\ Len(p) \in Nat /\ DOMAIN pool' = 1..Len(pool')
  BY SeqFacts
<1>3. CASE /\ p = <<>> /\ pool' = <<>> /\ spent' = spent
           /\ w.pc = "head"
  BY <1>1, <1>3 DEF NonceInv, OnePlace, NoncesLive, Apart, Accepted
<1>4. CASE /\ p # <<>> /\ Len(pool') = Len(p) - 1
           /\ \A i \in 1..(Len(p) - 1) : pool'[i] = p[i]
           /\ w.nonce = p[Len(p)]
           /\ spent' = spent \cup {w.nonce}
           /\ w.pc = "wire"
  <2>1. Len(p) # 0
    BY <1>4, SeqFacts
  <2>2. /\ DOMAIN p = DOMAIN pool' \cup {Len(p)} /\ Len(p) \notin DOMAIN pool'
        /\ \A i \in DOMAIN pool' : pool'[i] = p[i]
    BY <1>2, <1>4, <2>1
  <2>3. /\ w.nonce \notin spent
        /\ \A i \in DOMAIN pool' : pool'[i] # w.nonce
    BY <1>4, <2>2 DEF Apart
  <2>4. \A s \in Tasks \ {t} :
          /\ task[s].pc = "wire" => task[s].nonce \in spent /\ task[s].nonce # w.nonce
          /\ task[s].pc = "reply" => task[s].fresh \notin spent /\ task[s].fresh # w.nonce
    BY <1>4, <2>2, <2>3 DEF Apart
  <2>5. OnePlace'
    <3>1. /\ \A i, j \in DOMAIN pool' : pool'[i] = pool'[j] => i = j
          /\ \A i \in DOMAIN pool' : pool'[i] \notin spent'
      BY <1>4, <2>2, <2>3 DEF Apart
    <3>2. \A s \in Tasks : task'[s].pc = "wire" => task'[s].nonce \in spent'
      BY <1>1, <1>4, <2>4
    <3>3. \A s \in Tasks : task'[s].pc = "reply" =>
             task'[s].fresh \notin spent' /\ \A i \in DOMAIN pool' : pool'[i] # task'[s].fresh
      <4> SUFFICES ASSUME NEW s \in Tasks, task'[s].pc = "reply"
                   PROVE  /\ task'[s].fresh \notin spent'
                          /\ \A i \in DOMAIN pool' : pool'[i] # task'[s].fresh
        OBVIOUS
      <4>1. s # t /\ task'[s] = task[s]
        BY <1>1, <1>4
      <4>2. task[s].fresh \notin spent /\ task[s].fresh # w.nonce
        BY <2>4, <4>1
      <4>3. \A i \in DOMAIN p : p[i] # task[s].fresh
        BY <4>1 DEF Apart
      <4> QED
        BY <1>4, <2>2, <4>1, <4>2, <4>3
    <3>4. \A r, s \in Tasks : task'[r].pc = "wire" /\ task'[s].pc = "wire"
             /\ task'[r].nonce = task'[s].nonce => r = s
      BY <1>1, <1>4, <2>4 DEF Apart
    <3>5. \A r, s \in Tasks : task'[r].pc = "reply" /\ task'[s].pc = "reply"
             /\ task'[r].fresh = task'[s].fresh => r = s
      BY <1>1, <1>4 DEF Apart
    <3> QED
      BY <3>1, <3>2, <3>3, <3>4, <3>5 DEF OnePlace, Apart
  <2>6. NoncesLive'
    BY <1>1, <1>4, <2>2 DEF NoncesLive, Accepted
  <2> QED
    BY <2>5, <2>6 DEF NonceInv
<1> QED
  BY <1>3, <1>4 DEF Sent

\* A task that waits for the directory keeps the others apart.
LEMMA LeavesApart ==
    ASSUME NEW t \in Tasks, NEW w, w.pc = "directory",
           task \in [Tasks -> Task], task' = [task EXCEPT ![t] = w],
           scenario' = scenario, spent' = spent,
           NEW q, pool' = q, NEW nonces, live' = nonces,
           Apart(Tasks \ {t}, q), Accepted(Tasks \ {t}, q, nonces)
    PROVE  NonceInv'
<1>1. /\ w.pc # "wire" /\ w.pc # "reply"
      /\ \A s \in Tasks \ {t} : task'[s] = task[s]
      /\ task'[t] = w
  OBVIOUS
<1>2. OnePlace'
  BY <1>1 DEF OnePlace, Apart
<1>3. NoncesLive'
  BY <1>1 DEF NoncesLive, Accepted
<1> QED
  BY <1>2, <1>3 DEF NonceInv

\* A task that ends keeps the others apart.
LEMMA EndsApart ==
    ASSUME NEW t \in Tasks, task \in [Tasks -> Task], task' = [task EXCEPT ![t] = Idle],
           scenario' = scenario, spent' = spent,
           NEW q, pool' = q, NEW nonces, live' = nonces,
           Apart(Tasks \ {t}, q), Accepted(Tasks \ {t}, q, nonces)
    PROVE  NonceInv'
<1>1. /\ task'[t].pc = "idle"
      /\ \A s \in Tasks \ {t} : task'[s] = task[s]
  BY IdleFacts
<1>2. OnePlace'
  BY <1>1 DEF OnePlace, Apart
<1>3. NoncesLive'
  BY <1>1 DEF NoncesLive, Accepted
<1> QED
  BY <1>2, <1>3 DEF NonceInv

\* The next nonce of the server is nowhere yet.
LEMMA NextNonceIsNew ==
    ASSUME TypeInv
    PROVE  /\ issued + 1 \notin spent
           /\ \A i \in DOMAIN pool : pool[i] # issued + 1
           /\ \A s \in Tasks : task[s].pc = "reply" => task[s].fresh # issued + 1
<1>1. /\ issued \in Nat /\ spent \subseteq 1..issued
      /\ \A i \in DOMAIN pool : pool[i] \in 1..issued
  BY TypeFacts, SeqFacts DEF TypeInv, TypeOK
<1>2. \A s \in Tasks : task[s].pc = "reply" => task[s].fresh \in 1..issued
  BY DEF TypeInv, References, Refers
<1>3. issued + 1 \notin 1..issued
  BY <1>1
<1> QED
  BY <1>1, <1>2, <1>3

\* The next nonce of the server can be put into the pool.
LEMMA HarvestNew ==
    ASSUME TypeInv, NonceInv, NEW t \in Tasks, issued' = issued + 1,
           live' = live \cup {issued + 1}
    PROVE  /\ Append(pool, issued + 1) \in Seq(1..issued') /\ issued' \in Nat
           /\ Apart(Tasks \ {t}, Append(pool, issued + 1))
           /\ Accepted(Tasks \ {t}, Append(pool, issued + 1), live')
<1>1. issued \in Nat /\ pool \in Seq(1..issued)
  BY TypeFacts DEF TypeInv
<1>2. /\ issued' \in Nat /\ issued <= issued' /\ issued + 1 \in 1..issued'
  BY <1>1
<1>3. pool \in Seq(1..issued')
  BY <1>1, <1>2, SeqOverMore
<1>4. Append(pool, issued + 1) \in Seq(1..issued')
  BY <1>2, <1>3, AppendFacts
<1>5. Apart(Tasks \ {t}, pool) /\ Accepted(Tasks \ {t}, pool, live')
  BY OthersApart
<1> QED
  BY <1>2, <1>3, <1>4, <1>5, NextNonceIsNew, Harvest

\* The initial state has no nonces.
LEMMA NonceInit == Init => NonceInv
<1> SUFFICES ASSUME Init PROVE NonceInv
  OBVIOUS
<1>1. DOMAIN pool = {} /\ \A t \in Tasks : task[t].pc = "idle"
  BY EmptySeq, LenProperties, IdleFacts DEF Init
<1> QED
  BY <1>1 DEF NonceInv, OnePlace, NoncesLive, Apart, Accepted

\* Starting an operation keeps nonces apart.
LEMMA StartNonces ==
    ASSUME TypeInv, NonceInv, NEW t \in Tasks,
           \/ CreateAccount(t) \/ Request(t) \/ RolloverKey(t)
           \/ DeactivateAccount(t) \/ RevokeWithCertKey(t)
    PROVE  NonceInv'
<1>0. TypeOK
  BY DEF TypeInv
<1>1. /\ issued \in Nat /\ pool \in Seq(1..issued) /\ task \in [Tasks -> Task]
      /\ accountKey \in Nat /\ accountUrl \in Nat
  BY <1>0, TypeFacts
<1>2. Apart(Tasks \ {t}, pool) /\ Accepted(Tasks \ {t}, pool, live)
  BY OthersApart
<1>3. CASE /\ UNCHANGED <<scenario, live>>
           /\ \E m, w \in Task : \E key, url \in Nat : Sent(t, m, pool, key, url, w)
           /\ pool' \in Seq(1..issued)
  BY <1>1, <1>2, <1>3, SentApart
<1>4. CASE /\ UNCHANGED <<scenario, live, pool, spent>>
           /\ \E op \in Ops : AwaitDirectory(t, op)
  BY <1>1, <1>2, <1>4, AwaitEffect, LeavesApart
<1>5. CASE CreateAccount(t)
  <2>1. /\ accountKey' \in Nat /\ UNCHANGED <<scenario, live>>
        /\ \/ PostAccount(t, accountKey', pool)
           \/ AwaitDirectory(t, "account") /\ UNCHANGED <<pool, accountUrl, spent>>
    BY <1>0, <1>5, CreateAccountKey DEF server
  <2>2. "account" \in Ops /\ 0 \in Nat
    BY DEF Ops
  <2> QED
    BY <1>0, <1>1, <1>3, <1>4, <2>1, <2>2, PostEffect, NewTasks
<1>6. CASE RolloverKey(t)
  <2>1. Send(t, NewRollover, pool, accountKey, accountUrl) /\ UNCHANGED <<scenario, live>>
    BY <1>6 DEF RolloverKey, NewRollover, server
  <2> QED
    BY <1>0, <1>1, <1>3, <2>1, NewTasks, SendEffect
<1>7. CASE Request(t) \/ DeactivateAccount(t) \/ RevokeWithCertKey(t)
  <2>1. /\ UNCHANGED <<scenario, live>>
        /\ \/ \E m \in {NewRevocation, NewRequest, NewDeactivation} : Resend(t, m, pool)
           \/ AwaitDirectory(t, "certRevoke") /\ UNCHANGED <<pool, spent>>
    BY <1>7 DEF RevokeWithCertKey, Request, DeactivateAccount, NewRevocation, NewRequest,
           NewDeactivation, server
  <2>2. \A m \in Task : KeyFor(m) \in Nat /\ UrlFor(m) \in Nat
    BY <1>0, TypeFacts DEF KeyFor, UrlFor
  <2>3. "certRevoke" \in Ops
    BY DEF Ops
  <2>4. CASE \E m \in {NewRevocation, NewRequest, NewDeactivation} : Resend(t, m, pool)
    <3>1. PICK m \in Task : Resend(t, m, pool)
      BY <1>0, <2>4, NewTasks
    <3> QED
      BY <1>0, <1>1, <1>3, <2>1, <2>2, <3>1, ResendEffect
  <2> QED
    BY <1>4, <2>1, <2>3, <2>4
<1> QED
  BY <1>5, <1>6, <1>7

\* Nonces that arrive with the directory or by themselves are new.
LEMMA ArrivalNonces ==
    ASSUME TypeInv, NonceInv, NEW t \in Tasks, DirectoryArrives(t) \/ NonceArrives(t)
    PROVE  NonceInv'
<1>0. TypeOK /\ TypeInv'
  BY DirectoryTypes, NonceTypes DEF TypeInv
<1>1. /\ task \in [Tasks -> Task] /\ task[t] \in Task /\ accountKey \in Nat
      /\ issued' \in Nat /\ pool' \in Seq(1..issued')
  BY <1>0, TypeFacts DEF TypeInv, TypeOK
<1>2. CASE NonceArrives(t)
  <2>1. /\ issued' = issued + 1 /\ live' = live \cup {issued + 1} /\ scenario' = scenario
        /\ Resend(t, task[t], Append(pool, issued + 1))
    BY <1>2 DEF NonceArrives
  <2>2. /\ Append(pool, issued + 1) \in Seq(1..issued') /\ issued' \in Nat
        /\ Apart(Tasks \ {t}, Append(pool, issued + 1))
        /\ Accepted(Tasks \ {t}, Append(pool, issued + 1), live')
    BY <2>1, HarvestNew
  <2>3. PICK w \in Task : Sent(t, task[t], Append(pool, issued + 1), KeyFor(task[t]),
                               UrlFor(task[t]), w)
    BY <1>0, <1>1, <2>1, <2>2, ResendEffect
  <2> QED
    BY <1>1, <2>1, <2>2, <2>3, SentApart
<1>3. CASE DirectoryArrives(t)
  <2>1. PICK p \in {pool, Append(pool, issued + 1)} :
           /\ issued' = issued + Len(p) - Len(pool)
           /\ live' = live \cup (1..issued' \ 1..issued)
           /\ PostAccount(t, accountKey, p) \/ Resend(t, task[t], p)
    BY <1>3 DEF DirectoryArrives
  <2>2. /\ p \in Seq(1..issued')
        /\ \/ p = pool /\ issued' = issued /\ live' = live
           \/ p = Append(pool, issued + 1) /\ issued' = issued + 1
              /\ live' = live \cup {issued + 1}
    BY <1>0, <2>1, NewNonce
  <2>3. Apart(Tasks \ {t}, p) /\ Accepted(Tasks \ {t}, p, live')
    BY <2>2, OthersApart, HarvestNew
  <2>4. PICK m, key, url, w : Sent(t, m, p, key, url, w)
    BY <1>0, <1>1, <2>1, <2>2, PostEffect, ResendEffect
  <2>5. scenario' = scenario
    BY <1>3 DEF DirectoryArrives
  <2> QED
    BY <1>1, <2>2, <2>3, <2>4, <2>5, SentApart
<1> QED
  BY <1>2, <1>3

\* The server takes the nonce of a request off its list and adds a new one.
LEMMA ProcessNonces ==
    ASSUME TypeInv, NonceInv, NEW t \in Tasks, Process(t)
    PROVE  NonceInv'
<1>0. TypeOK /\ task \in [Tasks -> Task] /\ task[t] \in Task /\ issued \in Nat
  BY TypeFacts DEF TypeInv
<1>1. /\ task[t].pc = "wire" /\ issued' = issued + 1
      /\ live' = (live \ {task[t].nonce}) \cup {issued + 1}
      /\ pool' = pool /\ spent' = spent /\ scenario' = scenario
  BY <1>0, ProcessEffect DEF client
<1>2. PICK w : /\ task' = [task EXCEPT ![t] = w]
               /\ Rejects(t, w) \/ Refuses(t, w) \/ GrantsAccount(t, w) \/ GrantsRequest(t, w)
  BY <1>0, ProcessEffect
<1>3. w.pc = "reply" /\ w.fresh = issued'
  BY <1>0, <1>2 DEF Rejects, Refuses, GrantsAccount, GrantsRequest, AnswerOf, Task
<1>4. w.reply = "badNonce" => task[t].nonce \notin live
  BY <1>0, <1>2 DEF Rejects, Refuses, GrantsAccount, GrantsRequest, AnswerOf, Task
<1>5. /\ \A s \in Tasks \ {t} : task'[s] = task[s]
      /\ task'[t] = w
  BY <1>0, <1>2
<1>6. /\ issued' \notin spent
      /\ \A i \in DOMAIN pool : pool[i] # issued'
      /\ \A s \in Tasks : task[s].pc = "reply" => task[s].fresh # issued'
  BY <1>1, NextNonceIsNew
<1>7. OnePlace'
  BY <1>1, <1>3, <1>5, <1>6 DEF NonceInv, OnePlace, Apart
<1>8. ASSUME "expire" \notin scenario.faults
      PROVE  /\ \A i \in DOMAIN pool : pool[i] \in live'
             /\ \A s \in Tasks :
                  /\ task'[s].pc = "wire" => task'[s].nonce \in live'
                  /\ task'[s].pc = "reply" => /\ task'[s].fresh \in live'
                                              /\ task'[s].reply # "badNonce"
  <2>1. task[t].nonce \in spent /\ task[t].nonce \in live /\ issued' \in live'
    BY <1>1, <1>8 DEF NonceInv, OnePlace, NoncesLive, Apart, Accepted
  <2>2. \A i \in DOMAIN pool : pool[i] \in live'
    BY <1>1, <1>8, <2>1 DEF NonceInv, OnePlace, NoncesLive, Apart, Accepted
  <2>3. \A s \in Tasks \ {t} : task[s].pc = "wire" => task[s].nonce \in live'
    BY <1>1, <1>8, <2>1 DEF NonceInv, OnePlace, NoncesLive, Apart, Accepted
  <2>4. \A s \in Tasks \ {t} : task[s].pc = "reply" =>
            task[s].fresh \in live' /\ task[s].reply # "badNonce"
    BY <1>1, <1>8, <2>1 DEF NonceInv, OnePlace, NoncesLive, Apart, Accepted
  <2> QED
    BY <1>3, <1>4, <1>5, <2>1, <2>2, <2>3, <2>4
<1>9. NoncesLive'
  BY <1>1, <1>8 DEF NoncesLive, Accepted
<1> QED
  BY <1>7, <1>9 DEF NonceInv

\* The nonce of a response goes into the pool, and into the retry at once.
LEMMA RespondNonces ==
    ASSUME TypeInv, NonceInv, NEW t \in Tasks, Respond(t)
    PROVE  NonceInv'
<1> DEFINE n == task[t].fresh
           p == Append(pool, n)
<1>1. /\ task[t].pc = "reply" /\ task[t] \in Task
      /\ n \in 1..issued /\ p \in Seq(1..issued) /\ issued \in Nat
      /\ UNCHANGED <<scenario, live>>
      /\ \/ (Succeed(t) \/ Fail(t)) /\ pool' = p /\ spent' = spent
         \/ Resend(t, Retried(task[t]), p)
  BY RespondEffect
<1>2. TypeOK /\ task \in [Tasks -> Task] /\ pool \in Seq(1..issued)
  BY TypeFacts DEF TypeInv
<1>3. Apart(Tasks \ {t}, pool) /\ Accepted(Tasks \ {t}, pool, live)
  BY OthersApart
<1>4. /\ n \notin spent
      /\ \A i \in DOMAIN pool : pool[i] # n
      /\ \A s \in Tasks \ {t} : task[s].pc = "reply" => task[s].fresh # n
      /\ "expire" \notin scenario.faults => n \in live
  BY <1>1 DEF NonceInv, OnePlace, NoncesLive, Apart, Accepted
<1> HIDE DEF n
<1>5. Apart(Tasks \ {t}, p) /\ Accepted(Tasks \ {t}, p, live)
  BY <1>1, <1>2, <1>3, <1>4, Harvest
<1> HIDE DEF p
<1>6. CASE (Succeed(t) \/ Fail(t)) /\ pool' = p /\ spent' = spent
  <2>1. task' = [task EXCEPT ![t] = Idle] /\ Idle.pc = "idle"
    BY <1>6, IdleFacts DEF Succeed, Fail, Finish
  <2>2. pool' = p /\ spent' = spent /\ scenario' = scenario /\ live' = live
    BY <1>1, <1>6
  <2> QED
    BY <1>2, <1>5, <2>1, <2>2, EndsApart
<1>7. CASE Resend(t, Retried(task[t]), p)
  <2>1. PICK m, key, url, w : Sent(t, m, p, key, url, w) /\ pool' \in Seq(1..issued)
    BY <1>1, <1>2, <1>7, RetriedFacts, ResendEffect
  <2> QED
    BY <1>1, <1>2, <1>5, <2>1, SentApart
<1> QED
  BY <1>1, <1>6, <1>7

\* Nonces of tasks that end are in no place any more.
LEMMA EndNonces ==
    ASSUME TypeInv, NonceInv, NEW t \in Tasks, Lose(t) \/ Cancel(t)
    PROVE  NonceInv'
<1>1. task' = [task EXCEPT ![t] = Idle] /\ UNCHANGED <<scenario, pool, live, spent>>
  BY DEF Lose, Cancel, Fail, Finish, client, server
<1>2. Idle.pc = "idle" /\ task \in [Tasks -> Task]
  BY IdleFacts, TypeFacts DEF TypeInv
<1>3. Apart(Tasks \ {t}, pool) /\ Accepted(Tasks \ {t}, pool, live)
  BY OthersApart
<1>4. scenario' = scenario /\ spent' = spent /\ pool' = pool /\ live' = live
  BY <1>1
<1> QED
  BY <1>1, <1>2, <1>3, <1>4, EndsApart

\* Every step keeps nonces apart.
LEMMA NonceStep == TypeInv /\ NonceInv /\ [Next]_vars => NonceInv'
<1> SUFFICES ASSUME TypeInv, NonceInv, [Next]_vars PROVE NonceInv'
  OBVIOUS
<1>1. ASSUME NEW t \in Tasks,
             \/ CreateAccount(t) \/ Request(t) \/ RolloverKey(t)
             \/ DeactivateAccount(t) \/ RevokeWithCertKey(t)
             \/ DirectoryArrives(t) \/ NonceArrives(t) \/ Process(t) \/ Respond(t)
             \/ Lose(t) \/ Cancel(t)
      PROVE  NonceInv'
  BY <1>1, StartNonces, ArrivalNonces, ProcessNonces, RespondNonces, EndNonces
<1>2. CASE \E n \in live : Expire(n)
  <2>1. "expire" \in scenario'.faults /\ UNCHANGED <<pool, task, spent>>
    BY <1>2 DEF Expire, client
  <2> QED
    BY <2>1 DEF NonceInv, OnePlace, NoncesLive, Apart, Accepted
<1>3. CASE Restart
  <2>1. pool' = <<>> /\ task' = [t \in Tasks |-> Idle]
    BY <1>3 DEF Restart
  <2>2. DOMAIN pool' = {} /\ \A t \in Tasks : task'[t].pc = "idle"
    BY <2>1, EmptySeq, LenProperties, IdleFacts
  <2> QED
    BY <2>2 DEF NonceInv, OnePlace, NoncesLive, Apart, Accepted
<1>4. CASE SaveNewKeyFails
  BY <1>4 DEF SaveNewKeyFails, server, NonceInv, OnePlace, NoncesLive, Apart, Accepted
<1>5. CASE UNCHANGED vars
  BY <1>5 DEF vars, client, server, NonceInv, OnePlace, NoncesLive, Apart, Accepted
<1> QED
  BY <1>1, <1>2, <1>3, <1>4, <1>5 DEF Next

\* The invariants of types and nonces hold always.
LEMMA SessionTypesAndNonces == Spec => [](TypeInv /\ NonceInv)
<1>1. Init => TypeInv /\ NonceInv
  BY TypeInit, NonceInit DEF TypeInv
<1>2. TypeInv /\ NonceInv /\ [Next]_vars => (TypeInv /\ NonceInv)'
  BY TypeStep, NonceStep
<1> QED
  BY <1>1, <1>2, PTL DEF Spec

\* Whatever the interleaving of tasks, losses, cancellations and restarts, no
\* nonce goes over the wire twice.
THEOREM NoNonceTwice == Spec => []NoncesAreSentOnce
<1>1. NonceInv => NoncesAreSentOnce
  BY DEF NonceInv, OnePlace, Apart, NoncesAreSentOnce
<1> QED
  BY <1>1, SessionTypesAndNonces, PTL

\* The retry of a rejected request uses the nonce of the rejection: in every
\* step, whatever other tasks have left in the pool.
THEOREM RetryIsFresh == Spec => RetryUsesFreshNonce
<1> DEFINE RetryStep == \A t \in Tasks :
         task[t].pc = "reply" /\ task'[t].pc \in {"head", "wire"} =>
             task'[t].pc = "wire" /\ task'[t].nonce = task[t].fresh
<1>1. TypeInv /\ [Next]_vars => [RetryStep]_vars
  <2> SUFFICES ASSUME TypeInv, Next, NEW t \in Tasks,
                      task[t].pc = "reply", task'[t].pc \in {"head", "wire"}
               PROVE  task'[t].pc = "wire" /\ task'[t].nonce = task[t].fresh
    BY DEF vars
  <2>1. TypeOK /\ task \in [Tasks -> Task] /\ Idle.pc = "idle"
    BY TypeFacts, IdleFacts DEF TypeInv
  <2>2. task'[t] # task[t]
    OBVIOUS
  <2>3. CASE Respond(t)
    <3> DEFINE n == task[t].fresh
               p == Append(pool, n)
    <3>1. /\ task[t] \in Task /\ n \in 1..issued /\ p \in Seq(1..issued) /\ issued \in Nat
          /\ Succeed(t) \/ Fail(t) \/ Resend(t, Retried(task[t]), p)
      BY <2>3, RespondEffect
    <3>2. Succeed(t) \/ Fail(t) => task'[t] = Idle
      BY <2>1 DEF Succeed, Fail, Finish
    <3>3. PICK w \in Task : Sent(t, Retried(task[t]), p, KeyFor(Retried(task[t])),
                                 UrlFor(Retried(task[t])), w)
      BY <2>1, <3>1, <3>2, RetriedFacts, ResendEffect
    <3>4. task'[t] = w
      BY <2>1, <3>3 DEF Sent
    <3>5. p # <<>> /\ p[Len(p)] = n
      <4>1. pool \in Seq(1..issued)
        BY TypeFacts DEF TypeInv
      <4> QED
        BY <3>1, <4>1, AppendFacts
    <3> QED
      BY <3>3, <3>4, <3>5 DEF Sent
  <2>4. ASSUME NEW s \in Tasks, s # t,
               \/ CreateAccount(s) \/ Request(s) \/ RolloverKey(s)
               \/ DeactivateAccount(s) \/ RevokeWithCertKey(s)
               \/ DirectoryArrives(s) \/ NonceArrives(s) \/ Process(s) \/ Respond(s)
               \/ Lose(s) \/ Cancel(s)
        PROVE  FALSE
    <3>1. \E w : task' = [task EXCEPT ![s] = w]
      <4>1. \A m, q, key, url : Send(s, m, q, key, url) => \E w : task' = [task EXCEPT ![s] = w]
        BY DEF Send
      <4>2. \A m, q : Resend(s, m, q) => \E w : task' = [task EXCEPT ![s] = w]
        BY <4>1 DEF Resend
      <4>3. \A key, q : PostAccount(s, key, q) => \E w : task' = [task EXCEPT ![s] = w]
        BY <4>1 DEF PostAccount
      <4>4. \A op : AwaitDirectory(s, op) => \E w : task' = [task EXCEPT ![s] = w]
        BY DEF AwaitDirectory
      <4>5. Finish(s) => \E w : task' = [task EXCEPT ![s] = w]
        BY DEF Finish
      <4>6. CASE CreateAccount(s) \/ Request(s) \/ RolloverKey(s)
                 \/ DeactivateAccount(s) \/ RevokeWithCertKey(s)
        BY <4>1, <4>2, <4>3, <4>4, <4>6
           DEF CreateAccount, Request, RolloverKey, DeactivateAccount, RevokeWithCertKey
      <4>7. CASE DirectoryArrives(s) \/ NonceArrives(s)
        BY <4>2, <4>3, <4>7 DEF DirectoryArrives, NonceArrives
      <4>8. CASE Process(s)
        BY <2>1, <4>8, ProcessEffect
      <4>9. CASE Respond(s) \/ Lose(s) \/ Cancel(s)
        BY <4>2, <4>5, <4>9 DEF Respond, Lose, Cancel, Succeed, Fail
      <4> QED
        BY <2>4, <4>6, <4>7, <4>8, <4>9
    <3> QED
      BY <2>1, <2>2, <2>4, <3>1
  <2>5. ~(CreateAccount(t) \/ Request(t) \/ RolloverKey(t) \/ DeactivateAccount(t)
          \/ RevokeWithCertKey(t) \/ DirectoryArrives(t) \/ NonceArrives(t) \/ Process(t))
    BY DEF CreateAccount, Request, RolloverKey, DeactivateAccount, RevokeWithCertKey,
           MayStart, DirectoryArrives, NonceArrives, Process
  <2>6. ~(Lose(t) \/ Cancel(t))
    BY <2>1 DEF Lose, Cancel, Fail, Finish
  <2>7. ~((\E n \in live : Expire(n)) \/ SaveNewKeyFails \/ Restart)
    BY <2>1, <2>2 DEF Expire, SaveNewKeyFails, Restart
  <2> QED
    BY <2>3, <2>4, <2>5, <2>6, <2>7 DEF Next
<1>2. RetryUsesFreshNonce <=> [][RetryStep]_vars
  BY DEF RetryUsesFreshNonce
<1> QED
  BY <1>1, <1>2, SessionTypesAndNonces, PTL DEF Spec

-----------------------------------------------------------------------------
(* The account: its key, its URL and what the server makes of requests     *)
(* signed with them.  First the inductive invariants.                      *)

\* A call m that is signed with the account key, or will be, is under way.
Signs(m) == m.pc # "idle" /\ m.op # "certRevoke"
Busy(t) == Signs(task[t])

\* An application that manages the account alone changes it while nothing
\* else is signed with its key.
AccountOpsAlone ==
    scenario.exclusive =>
        \A s, t \in Tasks : Busy(s) /\ Busy(t) /\ task[s].op \in AccountOps => s = t

\* A key that could be saved is in the store as soon as it is in memory.
StoresKeys == scenario.store /\ ~scenario.given /\ "save" \notin scenario.faults
KeyStored == StoresKeys => accountKey \in {0, storedKey}

\* Revocations with the key of a certificate are signed with that key, and
\* only they are.
RevocationsSigned ==
    \A t \in Tasks : task[t].op = "certRevoke" /\ task[t].pc = "wire" =>
        task[t].kid = 0 /\ task[t].key = CertKey

\* The account with URL a is bound to the key in memory.
Bound(a) == a \in DOMAIN accounts /\ accounts[a] = accountKey

\* What call m has still to do leads to a URL and a key that belong together
\* at the server, and m is signed as the server expects.
Fits(m) ==
    /\ m.op = "account" /\ m.pc \in {"head", "wire", "reply"} =>
          accountUrl = 0 /\ (m.saved # 0 => Bound(m.saved))
    /\ m.op = "account" /\ m.pc = "wire" => m.kid = 0 /\ m.key = accountKey
    /\ m.op = "account" /\ m.pc = "reply" /\ m.reply = "ok" => Bound(m.location)
    /\ m.op = "rollover" /\ m.pc # "idle" =>
          /\ accountUrl \in DOMAIN accounts
          /\ m.saved = accountKey /\ m.location = accountUrl /\ accountKey # 0
          /\ accounts[accountUrl] = IF m.pc = "reply" /\ m.reply = "ok" THEN m.newKey
                                    ELSE accountKey
    /\ m.op \in {"request", "rollover", "deactivate"} /\ m.pc # "idle" => accountUrl # 0
    /\ m.op \in {"request", "rollover", "deactivate"} /\ m.pc = "wire" =>
          m.kid = accountUrl /\ m.key = accountKey

Steady == scenario.exclusive /\ scenario.faults \cap {"lose", "cancel"} = {}

\* As long as no call is lost or cancelled, the URL belongs to the key unless
\* the key is about to change.
KeyAndUrl == Steady =>
    /\ accountUrl # 0 /\ ~Running("rollover") => Bound(accountUrl)
    /\ \A t \in Tasks : Fits(task[t])

\* The answer to create_account carries the URL of an account.
Located(m) == m.op = "account" /\ m.pc = "reply" /\ m.reply = "ok" => m.location # 0

\* Create_account m forgets the URL only after it put it aside.
Saves(m) ==
    /\ m.op = "account" /\ m.pc = "directory" => accountUrl # 0
    /\ m.op = "account" /\ m.pc \in {"head", "wire", "reply"} => m.saved # 0

\* The URL the client knows is in its place, or put aside by create_account.
UrlSaved ==
    /\ \A t \in Tasks : Located(task[t])
    /\ scenario.exclusive /\ "cancel" \notin scenario.faults /\ known =>
          /\ ~Running("account") => accountUrl # 0
          /\ \A t \in Tasks : Saves(task[t])

\* A server that refuses nothing by itself answers errors only after the
\* account was deactivated.
ErrorsAreDue ==
    scenario.exclusive /\ scenario.faults \subseteq {"expire", "save", "restart"} =>
        \A t \in Tasks : task[t].pc = "reply" /\ task[t].reply = "error" =>
            closed # {} /\ task[t].op # "certRevoke"

-----------------------------------------------------------------------------
(* What the steps do to the account *)

\* Task t goes on as w, and the others stay where they are.
Moves(t, w) ==
    /\ w \in Task /\ task' \in [Tasks -> Task]
    /\ task'[t] = w
    /\ \A s \in Tasks \ {t} : task'[s] = task[s]

\* An assignment to one task moves that task.
LEMMA OneTaskMoves ==
    ASSUME TypeOK, NEW t \in Tasks, NEW w \in Task, task' = [task EXCEPT ![t] = w]
    PROVE  Moves(t, w)
  BY TypeFacts DEF Moves

\* w is call m as it waits for a nonce, or as it was signed.
Going(w, m, key, url) ==
    /\ w.op = m.op /\ w.saved = m.saved /\ w.newKey = m.newKey /\ w.location = m.location
    /\ w.pc = "head" \/ (w.pc = "wire" /\ w.key = key /\ w.kid = url)

\* A call that is sent moves its task.
LEMMA SentMoves ==
    ASSUME TypeOK, NEW t \in Tasks, NEW m, NEW p, NEW key, NEW url, NEW w \in Task,
           Sent(t, m, p, key, url, w)
    PROVE  Moves(t, w) /\ Going(w, m, key, url)
<1>1. task' = [task EXCEPT ![t] = w] /\ Going(w, m, key, url)
  BY DEF Sent, SameRequest, Going
<1> QED
  BY <1>1, OneTaskMoves

\* What the client knows of its account, and the server of the accounts.
account == <<accountKey, accountUrl, storedKey, accounts, closed, known>>

\* What MayStart asks of the other calls.
Guarded(op) ==
    scenario.exclusive =>
        /\ op \in AccountOps => \A s \in Tasks : ~Busy(s)
        /\ op = "request" => \A s \in Tasks : Busy(s) => task[s].op \notin AccountOps

\* MayStart is this guard, of a task that is idle.
LEMMA MayStartGuard ==
    ASSUME TypeOK, NEW t \in Tasks, NEW op, MayStart(t, op)
    PROVE  Guarded(op) /\ task[t].pc = "idle"
<1>1. \A s \in Tasks : task[s].op \in Ops
  BY TypeFacts, TaskFields
<1> QED
  BY <1>1 DEF MayStart, Guarded, Busy, Signs, Running, Ops

\* Where the new requests start.
LEMMA NewRequests ==
    ASSUME TypeOK
    PROVE  /\ NewRequest \in Task /\ NewRequest.op = "request"
           /\ NewDeactivation \in Task /\ NewDeactivation.op = "deactivate"
           /\ NewRevocation \in Task /\ NewRevocation.op = "certRevoke"
           /\ NewRollover \in Task /\ NewRollover.op = "rollover"
           /\ NewRollover.saved = accountKey /\ NewRollover.location = accountUrl
           /\ NewAccount \in Task /\ NewAccount.op = "account" /\ NewAccount.saved = accountUrl
           /\ pool \in Seq(1..issued) /\ issued \in Nat
  BY NewTasks, TypeFacts

\* A request for the account is signed with its key and URL.
LEMMA StartEffect ==
    ASSUME TypeOK, NEW t \in Tasks, Request(t) \/ DeactivateAccount(t)
    PROVE  /\ accountUrl # 0 /\ task[t].pc = "idle"
           /\ UNCHANGED <<scenario, account>>
           /\ \E w : /\ Moves(t, w) /\ Guarded(w.op)
                     /\ w.op \in {"request", "deactivate"}
                     /\ w.pc = "head" \/ (w.pc = "wire" /\ w.key = accountKey /\ w.kid = accountUrl)
<1>1. accountUrl # 0 /\ UNCHANGED <<scenario, account>>
  BY DEF Request, DeactivateAccount, server, account
<1>2. CASE Request(t)
  <2>1. MayStart(t, "request") /\ Resend(t, NewRequest, pool)
    BY <1>2 DEF Request, NewRequest
  <2>2. PICK w \in Task : Sent(t, NewRequest, pool, KeyFor(NewRequest), UrlFor(NewRequest), w)
    BY <2>1, NewRequests, ResendEffect
  <2>3. Moves(t, w) /\ Going(w, NewRequest, KeyFor(NewRequest), UrlFor(NewRequest))
    BY <2>2, SentMoves
  <2>4. Moves(t, w) /\ w.op = "request"
        /\ (w.pc = "head" \/ (w.pc = "wire" /\ w.key = accountKey /\ w.kid = accountUrl))
    BY <2>3, NewRequests DEF Going, KeyFor, UrlFor
  <2> QED
    BY <1>1, <2>1, <2>4, MayStartGuard
<1>3. CASE DeactivateAccount(t)
  <2>1. MayStart(t, "deactivate") /\ Resend(t, NewDeactivation, pool)
    BY <1>3 DEF DeactivateAccount, NewDeactivation
  <2>2. PICK w \in Task :
           Sent(t, NewDeactivation, pool, KeyFor(NewDeactivation), UrlFor(NewDeactivation), w)
    BY <2>1, NewRequests, ResendEffect
  <2>3. Moves(t, w) /\ Going(w, NewDeactivation, KeyFor(NewDeactivation), UrlFor(NewDeactivation))
    BY <2>2, SentMoves
  <2>4. Moves(t, w) /\ w.op = "deactivate"
        /\ (w.pc = "head" \/ (w.pc = "wire" /\ w.key = accountKey /\ w.kid = accountUrl))
    BY <2>3, NewRequests DEF Going, KeyFor, UrlFor
  <2> QED
    BY <1>1, <2>1, <2>4, MayStartGuard
<1> QED
  BY <1>2, <1>3

\* A revocation is signed with the key of the certificate.
LEMMA RevokeEffect ==
    ASSUME TypeOK, NEW t \in Tasks, RevokeWithCertKey(t)
    PROVE  /\ UNCHANGED <<scenario, account>> /\ task[t].pc = "idle"
           /\ \E w : /\ Moves(t, w) /\ w.op = "certRevoke"
                     /\ \/ w.pc \in {"directory", "head"}
                        \/ w.pc = "wire" /\ w.key = CertKey /\ w.kid = 0
<1>1. UNCHANGED <<scenario, account>> /\ task[t].pc = "idle"
  BY DEF RevokeWithCertKey, MayStart, server, account
<1>2. CASE Resend(t, NewRevocation, pool)
  <2>2. PICK w \in Task : Sent(t, NewRevocation, pool, KeyFor(NewRevocation), UrlFor(NewRevocation), w)
    BY <1>2, NewRequests, ResendEffect
  <2>3. Moves(t, w) /\ Going(w, NewRevocation, KeyFor(NewRevocation), UrlFor(NewRevocation))
    BY <2>2, SentMoves
  <2>4. Moves(t, w) /\ w.op = "certRevoke"
        /\ (w.pc = "head" \/ (w.pc = "wire" /\ w.key = CertKey /\ w.kid = 0))
    BY <2>3, NewRequests DEF Going, KeyFor, UrlFor
  <2> QED
    BY <1>1, <2>4
<1>3. CASE AwaitDirectory(t, "certRevoke")
  <2>1. "certRevoke" \in Ops
    BY DEF Ops
  <2>2. /\ task' = [task EXCEPT ![t] = Waiting("certRevoke")]
        /\ Waiting("certRevoke") \in Task /\ Waiting("certRevoke").pc = "directory"
        /\ Waiting("certRevoke").op = "certRevoke"
    BY <1>3, <2>1, AwaitEffect
  <2> QED
    BY <1>1, <2>2, OneTaskMoves
<1> QED
  BY <1>2, <1>3 DEF RevokeWithCertKey, NewRevocation

\* A key change names the key and URL of the moment.
LEMMA RolloverEffect ==
    ASSUME TypeOK, NEW t \in Tasks, RolloverKey(t)
    PROVE  /\ accountUrl # 0 /\ accountKey # 0 /\ task[t].pc = "idle" /\ Guarded("rollover")
           /\ UNCHANGED <<scenario, account>>
           /\ \E w : /\ Moves(t, w) /\ w.op = "rollover"
                     /\ w.saved = accountKey /\ w.location = accountUrl
                     /\ w.pc = "head" \/ (w.pc = "wire" /\ w.key = accountKey /\ w.kid = accountUrl)
<1>1. /\ accountUrl # 0 /\ accountKey # 0 /\ UNCHANGED <<scenario, account>> /\ MayStart(t, "rollover")
      /\ Send(t, NewRollover, pool, accountKey, accountUrl)
  BY DEF RolloverKey, NewRollover, server, account
<1>2. accountKey \in Nat /\ accountUrl \in Nat
  BY TypeFacts
<1>3. PICK w \in Task : Sent(t, NewRollover, pool, accountKey, accountUrl, w)
  BY <1>1, <1>2, NewRequests, SendEffect
<1>4. Moves(t, w) /\ Going(w, NewRollover, accountKey, accountUrl)
  BY <1>3, SentMoves
<1>5. /\ Moves(t, w) /\ w.op = "rollover" /\ w.saved = accountKey /\ w.location = accountUrl
      /\ w.pc = "head" \/ (w.pc = "wire" /\ w.key = accountKey /\ w.kid = accountUrl)
  BY <1>4, NewRequests DEF Going
<1> QED
  BY <1>1, <1>5, MayStartGuard

\* The request for an account is signed with the key, new or not, and sets
\* the URL aside.
LEMMA CreateEffect ==
    ASSUME TypeOK, NEW t \in Tasks, CreateAccount(t)
    PROVE  /\ task[t].pc = "idle" /\ Guarded("account")
           /\ UNCHANGED <<scenario, accounts, closed, known>>
           /\ accountKey' # 0 /\ (accountKey # 0 => accountKey' = accountKey)
           /\ scenario.store => storedKey' = accountKey' \/ UNCHANGED <<accountKey, storedKey>>
           /\ \E w : /\ Moves(t, w) /\ w.op = "account"
                     /\ \/ w.pc = "directory" /\ accountUrl' = accountUrl
                        \/ /\ accountUrl' = 0 /\ w.saved = accountUrl
                           /\ w.pc = "head" \/ (w.pc = "wire" /\ w.key = accountKey' /\ w.kid = 0)
<1>1. /\ accountKey' # 0 /\ accountKey' \in Nat /\ (accountKey # 0 => accountKey' = accountKey)
      /\ UNCHANGED <<scenario, directory, server, known>>
      /\ \/ PostAccount(t, accountKey', pool)
         \/ AwaitDirectory(t, "account") /\ UNCHANGED <<pool, accountUrl, spent>>
  BY CreateAccountKey
<1>2. ASSUME scenario.store
      PROVE  storedKey' = accountKey' \/ UNCHANGED <<accountKey, storedKey>>
  <2>1. accountKey \in 0..keys /\ storedKey \in 0..keys /\ keys \in Nat
    BY TypeFacts
  <2>2. \/ accountKey' = accountKey /\ accountKey # 0
        \/ accountKey' = storedKey /\ storedKey # 0
        \/ accountKey' = keys + 1
    BY DEF CreateAccount
  <2>3. storedKey' = IF accountKey' = keys + 1 THEN accountKey' ELSE storedKey
    BY <1>2 DEF CreateAccount
  <2> QED
    BY <2>1, <2>2, <2>3
<1>3. task[t].pc = "idle" /\ Guarded("account") /\ UNCHANGED <<accounts, closed>>
  BY <1>1, MayStartGuard DEF CreateAccount, server
<1>4. CASE PostAccount(t, accountKey', pool)
  <2>1. PICK w \in Task : Sent(t, NewAccount, pool, accountKey', 0, w)
    BY <1>1, <1>4, NewRequests, PostEffect
  <2>2. Moves(t, w) /\ Going(w, NewAccount, accountKey', 0) /\ accountUrl' = 0
    BY <1>4, <2>1, SentMoves DEF PostAccount
  <2>3. /\ Moves(t, w) /\ w.op = "account" /\ w.saved = accountUrl
        /\ w.pc = "head" \/ (w.pc = "wire" /\ w.key = accountKey' /\ w.kid = 0)
    BY <2>2, NewRequests DEF Going
  <2> QED
    BY <1>1, <1>2, <1>3, <2>2, <2>3
<1>5. CASE AwaitDirectory(t, "account") /\ UNCHANGED accountUrl
  <2>1. "account" \in Ops
    BY DEF Ops
  <2>2. /\ task' = [task EXCEPT ![t] = Waiting("account")]
        /\ Waiting("account") \in Task /\ Waiting("account").pc = "directory"
        /\ Waiting("account").op = "account"
    BY <1>5, <2>1, AwaitEffect
  <2> QED
    BY <1>1, <1>2, <1>3, <1>5, <2>2, OneTaskMoves
<1> QED
  BY <1>1, <1>4, <1>5

\* With the directory, a call goes on to sign and send.
LEMMA DirectoryEffect ==
    ASSUME TypeOK, NEW t \in Tasks, DirectoryArrives(t)
    PROVE  /\ task[t].pc = "directory"
           /\ UNCHANGED <<scenario, accountKey, storedKey, accounts, closed, known>>
           /\ \E w : /\ Moves(t, w) /\ w.op = task[t].op
                     /\ \/ /\ w.op = "account" /\ accountUrl' = 0 /\ w.saved = accountUrl
                           /\ w.pc = "head" \/ (w.pc = "wire" /\ w.key = accountKey /\ w.kid = 0)
                        \/ /\ w.op = "certRevoke" /\ accountUrl' = accountUrl
                           /\ w.pc = "head" \/ (w.pc = "wire" /\ w.key = CertKey /\ w.kid = 0)
<1>1. /\ task[t].pc = "directory"
      /\ UNCHANGED <<scenario, accountKey, storedKey, accounts, closed, known>>
  BY DEF DirectoryArrives
<1>2. PICK p \in {pool, Append(pool, issued + 1)} :
         \/ task[t].op = "account" /\ PostAccount(t, accountKey, p)
         \/ task[t].op = "certRevoke" /\ Resend(t, task[t], p) /\ UNCHANGED accountUrl
  BY DEF DirectoryArrives
<1>3. p \in Seq(1..(issued + 1)) /\ issued + 1 \in Nat /\ accountKey \in Nat
      /\ task[t] \in Task
  <2>1. issued \in Nat /\ pool \in Seq(1..issued) /\ accountKey \in Nat /\ task[t] \in Task
    BY TypeFacts
  <2>2. issued + 1 \in Nat /\ issued <= issued + 1 /\ issued + 1 \in 1..(issued + 1)
    BY <2>1
  <2>3. pool \in Seq(1..(issued + 1))
    BY <2>1, <2>2, SeqOverMore
  <2>4. Append(pool, issued + 1) \in Seq(1..(issued + 1))
    BY <2>2, <2>3, AppendFacts
  <2> QED
    BY <2>1, <2>2, <2>3, <2>4
<1>4. CASE task[t].op = "account" /\ PostAccount(t, accountKey, p)
  <2>1. PICK w \in Task : Sent(t, NewAccount, p, accountKey, 0, w)
    BY <1>3, <1>4, PostEffect
  <2>2. Moves(t, w) /\ Going(w, NewAccount, accountKey, 0) /\ accountUrl' = 0
    BY <1>4, <2>1, SentMoves DEF PostAccount
  <2>3. /\ Moves(t, w) /\ w.op = "account" /\ w.saved = accountUrl
        /\ w.pc = "head" \/ (w.pc = "wire" /\ w.key = accountKey /\ w.kid = 0)
    BY <2>2, NewRequests DEF Going
  <2> QED
    BY <1>1, <1>4, <2>2, <2>3
<1>5. CASE task[t].op = "certRevoke" /\ Resend(t, task[t], p) /\ UNCHANGED accountUrl
  <2>1. PICK w \in Task : Sent(t, task[t], p, KeyFor(task[t]), UrlFor(task[t]), w)
    BY <1>3, <1>5, ResendEffect
  <2>2. Moves(t, w) /\ Going(w, task[t], KeyFor(task[t]), UrlFor(task[t]))
    BY <2>1, SentMoves
  <2>3. /\ Moves(t, w) /\ w.op = "certRevoke"
        /\ w.pc = "head" \/ (w.pc = "wire" /\ w.key = CertKey /\ w.kid = 0)
    BY <1>5, <2>2 DEF Going, KeyFor, UrlFor
  <2> QED
    BY <1>1, <1>5, <2>3
<1> QED
  BY <1>2, <1>4, <1>5

\* With the nonce it waited for, a call is signed anew.
LEMMA NonceEffect ==
    ASSUME TypeOK, NEW t \in Tasks, NonceArrives(t)
    PROVE  /\ task[t].pc = "head" /\ UNCHANGED <<scenario, account>>
           /\ \E w : Moves(t, w) /\ Going(w, task[t], KeyFor(task[t]), UrlFor(task[t]))
<1>1. /\ task[t].pc = "head" /\ UNCHANGED <<scenario, account>>
      /\ Resend(t, task[t], Append(pool, issued + 1))
  BY DEF NonceArrives, account
<1>2. Append(pool, issued + 1) \in Seq(1..(issued + 1)) /\ issued + 1 \in Nat /\ task[t] \in Task
  <2>1. issued \in Nat /\ pool \in Seq(1..issued) /\ task[t] \in Task
    BY TypeFacts
  <2>2. issued + 1 \in Nat /\ issued <= issued + 1 /\ issued + 1 \in 1..(issued + 1)
    BY <2>1
  <2>3. pool \in Seq(1..(issued + 1))
    BY <2>1, <2>2, SeqOverMore
  <2> QED
    BY <2>1, <2>2, <2>3, AppendFacts
<1>3. PICK w \in Task : Sent(t, task[t], Append(pool, issued + 1), KeyFor(task[t]), UrlFor(task[t]), w)
  BY <1>1, <1>2, ResendEffect
<1> QED
  BY <1>1, <1>3, SentMoves

\* The accounts after the server has granted a key change for the account
\* with URL a.
Rebound(a, key) ==
    /\ DOMAIN accounts' = DOMAIN accounts
    /\ \A b \in DOMAIN accounts : accounts'[b] = IF b = a THEN key ELSE accounts[b]

\* The answer is about the call, and about an account there is.
LEMMA AnswerEffect ==
    ASSUME TypeInv, NEW t \in Tasks, Process(t)
    PROVE  /\ task[t].pc = "wire"
           /\ UNCHANGED <<scenario, accountKey, accountUrl, storedKey, known>>
           /\ closed \subseteq closed'
           /\ \E w : /\ Moves(t, w) /\ w.pc = "reply" /\ w.op = task[t].op
                     /\ w.saved = task[t].saved /\ w.newKey = task[t].newKey
                     /\ \/ /\ w.reply # "ok" /\ w.location = task[t].location
                           /\ accounts' = accounts
                           /\ w.reply = "error" =>
                                 "refuse" \in scenario.faults \/ ~Authentic(task[t])
                        \/ /\ w.reply = "ok" /\ w.op = "account"
                           /\ \A a \in DOMAIN accounts :
                                 a \in DOMAIN accounts' /\ accounts'[a] = accounts[a]
                           /\ w.location \in DOMAIN accounts' /\ w.location # 0
                           /\ accounts'[w.location] = task[t].key
                        \/ /\ w.reply = "ok" /\ w.location = task[t].location
                           /\ w.op = "rollover" /\ Rebound(task[t].kid, task[t].newKey)
                           /\ task[t].kid \in DOMAIN accounts
                        \/ /\ w.reply = "ok" /\ w.location = task[t].location
                           /\ w.op \notin {"account", "rollover"} /\ accounts' = accounts
<1> DEFINE m == task[t]
<1>0. TypeOK /\ References
  BY DEF TypeInv
<1>1. /\ m.pc = "wire" /\ issued' = issued + 1 /\ issued' \in Nat
      /\ UNCHANGED <<scenario, accountKey, accountUrl, storedKey, known>>
  BY <1>0, ProcessEffect, TypeFacts DEF client
<1>2. PICK w : /\ task' = [task EXCEPT ![t] = w]
               /\ Rejects(t, w) \/ Refuses(t, w) \/ GrantsAccount(t, w) \/ GrantsRequest(t, w)
  BY <1>0, ProcessEffect
<1>3. m \in Task /\ m.location \in Nat /\ accounts \in Seq(1..keys) /\ Len(accounts) \in Nat
      /\ DOMAIN accounts = 1..Len(accounts)
  BY <1>0, TypeFacts, TaskFields
<1>4. closed \subseteq closed'
  BY <1>2 DEF Rejects, Refuses, GrantsAccount, GrantsRequest
<1>5. ASSUME NEW result \in {"ok", "badNonce", "error"}, NEW loc \in Nat,
             w = AnswerOf(m, result, loc)
      PROVE  /\ Moves(t, w) /\ w.pc = "reply" /\ w.op = m.op
             /\ w.saved = m.saved /\ w.newKey = m.newKey
             /\ w.reply = result /\ w.location = loc
  <2>1. /\ w \in Task /\ w.pc = "reply" /\ w.op = m.op
        /\ w.saved = m.saved /\ w.newKey = m.newKey
        /\ w.reply = result /\ w.location = loc
    BY <1>1, <1>3, <1>5 DEF AnswerOf, Task
  <2> QED
    BY <1>0, <1>2, <2>1, OneTaskMoves
<1>6. CASE Rejects(t, w) \/ Refuses(t, w)
  <2>1. PICK result \in {"badNonce", "error"} :
           /\ w = AnswerOf(m, result, m.location) /\ accounts' = accounts
           /\ result = "error" => "refuse" \in scenario.faults \/ ~Authentic(m)
    BY <1>6 DEF Rejects, Refuses
  <2>2. /\ Moves(t, w) /\ w.pc = "reply" /\ w.op = m.op
        /\ w.saved = m.saved /\ w.newKey = m.newKey
        /\ w.reply = result /\ w.location = m.location
    BY <1>3, <1>5, <2>1
  <2> QED
    BY <1>1, <1>4, <2>1, <2>2
<1>7. CASE GrantsAccount(t, w)
  <2>1. PICK loc \in DOMAIN accounts' :
           /\ w = AnswerOf(m, "ok", loc) /\ accounts'[loc] = m.key /\ loc \in Nat /\ loc # 0
           /\ \A a \in DOMAIN accounts : a \in DOMAIN accounts' /\ accounts'[a] = accounts[a]
    <3>1. CASE /\ Registered(m.key) /\ accounts' = accounts
               /\ w = AnswerOf(m, "ok", AccountOf(m.key))
      <4>1. AccountOf(m.key) \in DOMAIN accounts /\ accounts[AccountOf(m.key)] = m.key
        BY <3>1, AccountOfRegistered
      <4>2. AccountOf(m.key) \in Nat /\ AccountOf(m.key) # 0
        BY <1>3, <4>1
      <4> QED
        BY <3>1, <4>1, <4>2
    <3>2. CASE /\ accounts' = Append(accounts, m.key)
               /\ w = AnswerOf(m, "ok", Len(accounts) + 1)
      <4>1. m.key \in 1..keys
        BY <1>0, <1>1, <1>7 DEF GrantsAccount, References, Refers
      <4>2. /\ DOMAIN accounts' = 1..(Len(accounts) + 1)
            /\ \A a \in 1..Len(accounts) : accounts'[a] = accounts[a]
            /\ accounts'[Len(accounts) + 1] = m.key
        BY <1>3, <3>2, <4>1, AppendFacts
      <4>3. Len(accounts) + 1 \in Nat /\ Len(accounts) + 1 # 0
            /\ Len(accounts) + 1 \in 1..(Len(accounts) + 1)
            /\ 1..Len(accounts) \subseteq 1..(Len(accounts) + 1)
        BY <1>3
      <4> QED
        BY <1>3, <3>2, <4>2, <4>3
    <3> QED
      BY <1>7, <3>1, <3>2 DEF GrantsAccount
  <2>2. /\ Moves(t, w) /\ w.pc = "reply" /\ w.op = m.op
        /\ w.saved = m.saved /\ w.newKey = m.newKey
        /\ w.reply = "ok" /\ w.location = loc
    BY <1>3, <1>5, <2>1
  <2>3. m.op = "account"
    BY <1>7 DEF GrantsAccount
  <2> QED
    BY <1>1, <1>4, <2>1, <2>2, <2>3
<1>8. CASE GrantsRequest(t, w)
  <2>1. w = AnswerOf(m, "ok", m.location) /\ m.op # "account" /\ Authentic(m)
    BY <1>8 DEF GrantsRequest
  <2>2. /\ Moves(t, w) /\ w.pc = "reply" /\ w.op = m.op
        /\ w.saved = m.saved /\ w.newKey = m.newKey
        /\ w.reply = "ok" /\ w.location = m.location
    BY <1>3, <1>5, <2>1
  <2>3. CASE m.op = "rollover"
    <3>1. m.kid \in DOMAIN accounts
      BY <2>1, <2>3 DEF Authentic
    <3>2. accounts' = [accounts EXCEPT ![m.kid] = m.newKey]
      BY <1>8, <2>3 DEF GrantsRequest
    <3>3. Rebound(m.kid, m.newKey)
      BY <1>3, <3>1, <3>2 DEF Rebound
    <3> QED
      BY <1>1, <1>4, <2>2, <2>3, <3>1, <3>3
  <2>4. CASE m.op # "rollover"
    <3>1. accounts' = accounts
      BY <1>8, <2>4 DEF GrantsRequest
    <3> QED
      BY <1>1, <1>4, <2>1, <2>2, <2>4, <3>1
  <2> QED
    BY <2>3, <2>4
<1> QED
  BY <1>2, <1>6, <1>7, <1>8

\* The call returns, is signed anew, or raises.
LEMMA ReturnEffect ==
    ASSUME TypeInv, NEW t \in Tasks, Respond(t)
    PROVE  /\ task[t].pc = "reply" /\ UNCHANGED <<scenario, accounts, closed>>
           /\ \E w : /\ Moves(t, w)
                     /\ \/ w = Idle /\ task[t].reply = "ok" /\ Succeed(t)
                        \/ w = Idle /\ task[t].reply # "ok" /\ Fail(t)
                        \/ /\ Going(w, task[t], KeyFor(task[t]), UrlFor(task[t]))
                           /\ task[t].reply = "badNonce"
                           /\ UNCHANGED <<accountKey, accountUrl, storedKey, known>>
<1>1. TypeOK /\ Idle \in Task
  BY IdleFacts DEF TypeInv
<1>2. /\ task[t].pc = "reply" /\ task[t] \in Task
      /\ Append(pool, task[t].fresh) \in Seq(1..issued) /\ issued \in Nat
      /\ UNCHANGED <<scenario, accounts, closed>>
      /\ \/ task[t].reply = "ok" /\ Succeed(t)
         \/ /\ task[t].reply = "badNonce"
            /\ Resend(t, Retried(task[t]), Append(pool, task[t].fresh))
            /\ UNCHANGED <<accountKey, accountUrl, storedKey, known>>
         \/ task[t].reply # "ok" /\ Fail(t)
  BY RespondEffect
<1>3. CASE task[t].reply = "ok" /\ Succeed(t)
  BY <1>1, <1>2, <1>3, OneTaskMoves DEF Succeed, Finish
<1>4. CASE task[t].reply # "ok" /\ Fail(t)
  BY <1>1, <1>2, <1>4, OneTaskMoves DEF Fail, Finish
<1>5. CASE /\ task[t].reply = "badNonce"
           /\ Resend(t, Retried(task[t]), Append(pool, task[t].fresh))
           /\ UNCHANGED <<accountKey, accountUrl, storedKey, known>>
  <2>1. /\ Retried(task[t]) \in Task /\ Retried(task[t]).op = task[t].op
        /\ Retried(task[t]).saved = task[t].saved /\ Retried(task[t]).newKey = task[t].newKey
        /\ Retried(task[t]).location = task[t].location
    BY <1>2, RetriedFacts
  <2>2. PICK w \in Task : Sent(t, Retried(task[t]), Append(pool, task[t].fresh),
                               KeyFor(Retried(task[t])), UrlFor(Retried(task[t])), w)
    BY <1>1, <1>2, <1>5, <2>1, ResendEffect
  <2>3. Moves(t, w) /\ Going(w, Retried(task[t]), KeyFor(task[t]), UrlFor(task[t]))
    BY <1>1, <2>1, <2>2, SentMoves DEF KeyFor, UrlFor
  <2>4. Going(w, task[t], KeyFor(task[t]), UrlFor(task[t]))
    BY <2>1, <2>3 DEF Going
  <2> QED
    BY <1>2, <1>5, <2>3, <2>4
<1> QED
  BY <1>2, <1>3, <1>4, <1>5

\* A call that is lost or cancelled.
LEMMA StopEffect ==
    ASSUME TypeOK, NEW t \in Tasks, Lose(t) \/ Cancel(t)
    PROVE  /\ Moves(t, Idle) /\ ("lose" \in scenario.faults \/ "cancel" \in scenario.faults)
           /\ task[t].pc # "idle"
           /\ UNCHANGED <<scenario, accounts, closed>>
           /\ Fail(t) \/ ("cancel" \in scenario.faults /\ UNCHANGED account)
<1>1. Idle \in Task /\ task' = [task EXCEPT ![t] = Idle]
  BY IdleFacts DEF Lose, Cancel, Fail, Finish
<1> QED
  BY <1>1, OneTaskMoves DEF Lose, Cancel, Fail, client, server, account

\* Nothing but the session is new after these steps.
LEMMA OtherEffect ==
    ASSUME TypeOK, (\E n \in live : Expire(n)) \/ UNCHANGED vars
    PROVE  UNCHANGED <<scenario, account, task>>
  BY DEF Expire, vars, client, server, account

\* A key that could not be saved is kept in memory; there was none before.
LEMMA SaveNewKeyFailsEffect ==
    ASSUME TypeOK, SaveNewKeyFails
    PROVE  /\ "save" \in scenario.faults /\ accountKey = 0
           /\ UNCHANGED <<scenario, accountUrl, storedKey, accounts, closed, known, task>>
  BY DEF SaveNewKeyFails, server

\* A new process has nothing but the stored key and a key it may be given.
LEMMA RestartEffect ==
    ASSUME TypeOK, Restart
    PROVE  /\ ~scenario.given => accountKey' = 0
           /\ accountUrl' = 0 /\ known' = FALSE
           /\ UNCHANGED <<scenario, storedKey, accounts, closed>>
           /\ \A t \in Tasks : task'[t] = Idle
  BY DEF Restart, server

-----------------------------------------------------------------------------
(* Who changes the account is alone *)

\* A call may go on, end, or begin as the guard allows.
LEMMA AloneTurn ==
    ASSUME AccountOpsAlone, NEW t \in Tasks, NEW w, Moves(t, w), scenario' = scenario,
           \/ ~ Signs(w)
           \/ Busy(t) /\ w.op = task[t].op
           \/ Guarded(w.op)
    PROVE  AccountOpsAlone'
<1> SUFFICES ASSUME scenario.exclusive, NEW r \in Tasks, NEW s \in Tasks,
                    Busy(r)', Busy(s)', task'[r].op \in AccountOps, r # s
             PROVE  FALSE
  BY DEF AccountOpsAlone
<1>1. \A q \in Tasks \ {t} : task'[q] = task[q] /\ (Busy(q)' <=> Busy(q))
  BY DEF Moves, Busy
<1>2. task'[t] = w /\ (Busy(t)' <=> Signs(w))
  BY DEF Moves, Busy
<1>3. CASE r # t /\ s # t
  BY <1>1, <1>3 DEF AccountOpsAlone
<1>4. CASE r = t
  BY <1>1, <1>2, <1>4 DEF AccountOpsAlone, Guarded
<1>5. CASE s = t
  <2>1. Signs(w) /\ Busy(r) /\ task[r].op \in AccountOps
    BY <1>1, <1>2, <1>5
  <2>2. w.op \in Ops /\ w.op # "certRevoke"
    BY <2>1, TaskFields DEF Moves, Signs
  <2> QED
    BY <1>5, <2>1, <2>2 DEF AccountOpsAlone, Guarded, Ops, AccountOps
<1> QED
  BY <1>3, <1>4, <1>5

\* Every step leaves account management to one call.
LEMMA AloneStep ==
    ASSUME TypeInv, AccountOpsAlone, [Next]_vars
    PROVE  AccountOpsAlone'
<1>0. TypeOK /\ ~ Signs(Idle)
  BY IdleFacts DEF TypeInv, Signs
<1>1. ASSUME NEW t \in Tasks,
             Request(t) \/ DeactivateAccount(t) \/ RevokeWithCertKey(t) \/ RolloverKey(t)
                \/ CreateAccount(t)
      PROVE  AccountOpsAlone'
  <2>1. PICK w : Moves(t, w) /\ (w.op = "certRevoke" \/ Guarded(w.op))
    BY <1>0, <1>1, StartEffect, RevokeEffect, RolloverEffect, CreateEffect
  <2>2. scenario' = scenario
    BY <1>0, <1>1, StartEffect, RevokeEffect, RolloverEffect, CreateEffect
  <2> QED
    BY <2>1, <2>2, AloneTurn DEF Signs
<1>2. ASSUME NEW t \in Tasks, DirectoryArrives(t) \/ NonceArrives(t) \/ Process(t)
      PROVE  AccountOpsAlone'
  <2>1. PICK w : Moves(t, w) /\ w.op = task[t].op /\ task[t].pc # "idle"
    BY <1>0, <1>2, DirectoryEffect, NonceEffect, AnswerEffect DEF Going
  <2>2. scenario' = scenario
    BY <1>0, <1>2, DirectoryEffect, NonceEffect, AnswerEffect
  <2> QED
    BY <2>1, <2>2, AloneTurn DEF Signs, Busy
<1>3. ASSUME NEW t \in Tasks, Respond(t) PROVE AccountOpsAlone'
  <2>1. PICK w : Moves(t, w) /\ (w = Idle \/ w.op = task[t].op)
    BY <1>3, ReturnEffect DEF Going
  <2>2. scenario' = scenario /\ task[t].pc # "idle"
    BY <1>3, ReturnEffect
  <2> QED
    BY <1>0, <2>1, <2>2, AloneTurn DEF Signs, Busy
<1>4. ASSUME NEW t \in Tasks, Lose(t) \/ Cancel(t) PROVE AccountOpsAlone'
  BY <1>0, <1>4, StopEffect, AloneTurn
<1>5. CASE (\E n \in live : Expire(n)) \/ UNCHANGED vars \/ SaveNewKeyFails
  <2>1. UNCHANGED <<scenario, task>>
    BY <1>0, <1>5, OtherEffect, SaveNewKeyFailsEffect DEF account
  <2> QED
    BY <2>1 DEF AccountOpsAlone, Busy, Signs
<1>6. CASE Restart
  BY <1>0, <1>6, RestartEffect DEF AccountOpsAlone, Busy
<1> QED
  BY <1>1, <1>2, <1>3, <1>4, <1>5, <1>6 DEF Next

-----------------------------------------------------------------------------
(* Keys in the store, and keys of certificates *)

\* Every step that can save saves the key in memory.
LEMMA KeyStoredStep ==
    ASSUME TypeInv, KeyStored, [Next]_vars
    PROVE  KeyStored'
<1>0. TypeOK
  BY DEF TypeInv
<1>1. ASSUME UNCHANGED <<scenario, accountKey, storedKey>> PROVE KeyStored'
  BY <1>1 DEF KeyStored, StoresKeys
<1>2. ASSUME NEW t \in Tasks, Fail(t), UNCHANGED scenario PROVE KeyStored'
  BY <1>1, <1>2 DEF Fail
<1>3. ASSUME NEW t \in Tasks,
             Request(t) \/ DeactivateAccount(t) \/ RevokeWithCertKey(t) \/ RolloverKey(t)
                \/ DirectoryArrives(t) \/ NonceArrives(t) \/ Process(t)
      PROVE  KeyStored'
  BY <1>0, <1>1, <1>3, StartEffect, RevokeEffect, RolloverEffect, DirectoryEffect, NonceEffect,
     AnswerEffect DEF account
<1>4. ASSUME NEW t \in Tasks, CreateAccount(t) PROVE KeyStored'
  BY <1>0, <1>4, CreateEffect DEF KeyStored, StoresKeys
<1>5. ASSUME NEW t \in Tasks, Respond(t) PROVE KeyStored'
  <2>1. UNCHANGED scenario
    BY <1>5, ReturnEffect
  <2>2. Succeed(t) \/ Fail(t) \/ UNCHANGED <<accountKey, storedKey>>
    BY <1>5, ReturnEffect
  <2>3. CASE Succeed(t)
    BY <2>1, <2>3 DEF Succeed, KeyStored, StoresKeys
  <2> QED
    BY <1>1, <1>2, <2>1, <2>2, <2>3
<1>6. ASSUME NEW t \in Tasks, Lose(t) \/ Cancel(t) PROVE KeyStored'
  BY <1>0, <1>1, <1>2, <1>6, StopEffect DEF account
<1>7. CASE (\E n \in live : Expire(n)) \/ UNCHANGED vars
  BY <1>0, <1>1, <1>7, OtherEffect DEF account
<1>8. CASE SaveNewKeyFails \/ Restart
  BY <1>0, <1>8, SaveNewKeyFailsEffect, RestartEffect DEF KeyStored, StoresKeys
<1> QED
  BY <1>3, <1>4, <1>5, <1>6, <1>7, <1>8 DEF Next

\* A revocation that goes on is signed with the key of the certificate.
LEMMA RevocationTurn ==
    ASSUME RevocationsSigned, NEW t \in Tasks, NEW w, Moves(t, w),
           w.op = "certRevoke" /\ w.pc = "wire" => w.kid = 0 /\ w.key = CertKey
    PROVE  RevocationsSigned'
  BY DEF RevocationsSigned, Moves

\* Every step keeps revocations signed like that.
LEMMA RevocationsStep ==
    ASSUME TypeInv, RevocationsSigned, [Next]_vars
    PROVE  RevocationsSigned'
<1>0. TypeOK /\ Idle.pc = "idle"
  BY IdleFacts DEF TypeInv
<1>1. ASSUME NEW t \in Tasks,
             Request(t) \/ DeactivateAccount(t) \/ RolloverKey(t) \/ CreateAccount(t)
      PROVE  RevocationsSigned'
  <2>1. PICK w : Moves(t, w) /\ w.op # "certRevoke"
    BY <1>0, <1>1, StartEffect, RolloverEffect, CreateEffect
  <2> QED
    BY <2>1, RevocationTurn
<1>2. ASSUME NEW t \in Tasks, RevokeWithCertKey(t) \/ DirectoryArrives(t)
      PROVE  RevocationsSigned'
  <2>1. PICK w : /\ Moves(t, w)
                 /\ w.op # "certRevoke" \/ w.pc # "wire" \/ (w.key = CertKey /\ w.kid = 0)
    BY <1>0, <1>2, RevokeEffect, DirectoryEffect
  <2> QED
    BY <2>1, RevocationTurn
<1>3. ASSUME NEW t \in Tasks, NonceArrives(t) \/ Respond(t) PROVE RevocationsSigned'
  <2>1. PICK w : /\ Moves(t, w)
                 /\ w = Idle \/ Going(w, task[t], KeyFor(task[t]), UrlFor(task[t]))
    BY <1>0, <1>3, NonceEffect, ReturnEffect
  <2>2. w.op = "certRevoke" /\ w.pc = "wire" => w.kid = 0 /\ w.key = CertKey
    BY <1>0, <2>1 DEF Going, KeyFor, UrlFor
  <2> QED
    BY <2>1, <2>2, RevocationTurn
<1>4. ASSUME NEW t \in Tasks, Process(t) PROVE RevocationsSigned'
  BY <1>4, AnswerEffect, RevocationTurn
<1>5. ASSUME NEW t \in Tasks, Lose(t) \/ Cancel(t) PROVE RevocationsSigned'
  BY <1>0, <1>5, StopEffect, RevocationTurn
<1>6. CASE (\E n \in live : Expire(n)) \/ UNCHANGED vars \/ SaveNewKeyFails
  <2>1. UNCHANGED task
    BY <1>0, <1>6, OtherEffect, SaveNewKeyFailsEffect DEF account
  <2> QED
    BY <2>1 DEF RevocationsSigned
<1>7. CASE Restart
  BY <1>0, <1>7, RestartEffect DEF RevocationsSigned
<1> QED
  BY <1>1, <1>2, <1>3, <1>4, <1>5, <1>6, <1>7 DEF Next

-----------------------------------------------------------------------------
(* The key and the URL belong together *)

\* Whatever is not signed with the account key fits, before and after a step.
LEMMA OthersFit ==
    ASSUME NEW m, ~ Signs(m)
    PROVE  Fits(m) /\ Fits(m)'
  BY DEF Fits, Signs

\* A key that is bound is one.
LEMMA BoundFacts ==
    ASSUME TypeOK, NEW a, Bound(a)
    PROVE  accountKey # 0 /\ a # 0
<1>1. accounts \in Seq(1..keys) /\ keys \in Nat
  BY TypeFacts
<1>2. accounts[a] \in 1..keys /\ a \in 1..Len(accounts) /\ Len(accounts) \in Nat
  BY <1>1, SeqFacts DEF Bound
<1> QED
  BY <1>2 DEF Bound

\* A call that goes on to sign fits as it did.
LEMMA GoingFits ==
    ASSUME NEW m, Fits(m), m.pc \in {"head", "reply"}, m.pc = "reply" => m.reply # "ok",
           NEW w, Going(w, m, KeyFor(m), UrlFor(m))
    PROVE  Fits(w)
<1>1. CASE m.op = "certRevoke"
  BY <1>1, OthersFit DEF Going, Signs
<1>2. CASE m.op # "certRevoke"
  BY <1>2 DEF Fits, Going, KeyFor, UrlFor
<1> QED
  BY <1>1, <1>2

\* A call fits as long as the account stays the same.
LEMMA FitsStays ==
    ASSUME NEW m, Fits(m), UNCHANGED <<accountKey, accountUrl, accounts>>
    PROVE  Fits(m)'
  BY DEF Fits, Bound

\* What task s is doing next fits if that call does.
LEMMA FitsNext ==
    ASSUME NEW s, NEW m, task'[s] = m, Fits(m)'
    PROVE  Fits(task[s])'
  BY DEF Fits

\* One call goes on, with the same account; if it was a key change and is no
\* longer, the key is bound.
LEMMA FitsTurn ==
    ASSUME KeyAndUrl, Steady, UNCHANGED <<scenario, accountKey, accountUrl, accounts>>,
           NEW t \in Tasks, NEW w, Moves(t, w), Fits(w),
           \/ ~ (task[t].pc # "idle" /\ task[t].op = "rollover")
           \/ w.pc # "idle" /\ w.op = "rollover"
           \/ Bound(accountUrl)
    PROVE  KeyAndUrl'
<1>1. ASSUME NEW s \in Tasks PROVE Fits(task[s])'
  <2>1. PICK m : m = task'[s]
    OBVIOUS
  <2>2. Fits(m)
    <3>1. CASE s = t
      BY <2>1, <3>1 DEF Moves
    <3>2. CASE s # t
      BY <2>1, <3>2 DEF Moves, KeyAndUrl
    <3> QED
      BY <3>1, <3>2
  <2> QED
    BY <2>1, <2>2, FitsStays, FitsNext
<1>2. ASSUME accountUrl # 0, ~Running("rollover")' PROVE Bound(accountUrl)
  <2>1. ~ (w.pc # "idle" /\ w.op = "rollover")
    BY <1>2 DEF Running, Moves
  <2>2. \A s \in Tasks \ {t} : ~ (task[s].pc # "idle" /\ task[s].op = "rollover")
    BY <1>2 DEF Running, Moves
  <2> QED
    BY <1>2, <2>1, <2>2 DEF KeyAndUrl, Running
<1>3. ASSUME (accountUrl # 0)', ~Running("rollover")' PROVE Bound(accountUrl)'
  <2>1. Bound(accountUrl)
    BY <1>2, <1>3
  <2> QED
    BY <2>1 DEF Bound
<1> QED
  BY <1>1, <1>3 DEF KeyAndUrl

\* One call goes on alone.
LEMMA FitsAlone ==
    ASSUME NEW t \in Tasks, NEW w, Moves(t, w), \A s \in Tasks \ {t} : ~ Busy(s), Fits(w)',
           accountUrl' # 0 /\ ~ (w.pc # "idle" /\ w.op = "rollover") => Bound(accountUrl)'
    PROVE  KeyAndUrl'
<1>1. \A s \in Tasks \ {t} : /\ ~ Signs(task'[s])
                             /\ ~ (task'[s].pc # "idle" /\ task'[s].op = "rollover")
  BY DEF Busy, Signs, Moves
<1>2. ASSUME NEW s \in Tasks PROVE Fits(task[s])'
  <2>1. PICK m : m = task'[s]
    OBVIOUS
  <2>2. Fits(m)'
    <3>1. CASE s = t
      BY <2>1, <3>1 DEF Moves
    <3>2. CASE s # t
      BY <1>1, <2>1, <3>2, OthersFit
    <3> QED
      BY <3>1, <3>2
  <2> QED
    BY <2>1, <2>2, FitsNext
<1>3. Running("rollover")' <=> w.pc # "idle" /\ w.op = "rollover"
  BY <1>1 DEF Running, Moves
<1> QED
  BY <1>2, <1>3 DEF KeyAndUrl

\* When no key change is under way the key is that of the URL, and stays so.
LEMMA BoundIfIdle ==
    ASSUME TypeOK, KeyAndUrl, Steady, accountUrl # 0,
           \A s \in Tasks : Busy(s) => task[s].op # "rollover",
           accounts' = accounts, accountKey # 0 => accountKey' = accountKey,
           NEW a, a = accountUrl
    PROVE  Bound(a) /\ Bound(a)'
<1>1. ~ Running("rollover")
  BY DEF Running, Busy, Signs
<1>2. Bound(accountUrl)
  BY <1>1 DEF KeyAndUrl
<1>3. accountKey' = accountKey
  BY <1>2, BoundFacts
<1> QED
  BY <1>2, <1>3 DEF Bound

\* A change of the account that is under way is the only call that is signed
\* with its key.
LEMMA OthersAreIdle ==
    ASSUME AccountOpsAlone, Steady, NEW t \in Tasks, Busy(t), task[t].op \in AccountOps
    PROVE  \A s \in Tasks \ {t} : ~ Busy(s)
  BY DEF AccountOpsAlone, Steady

\* Calls that begin fit.
LEMMA StartFits ==
    ASSUME TypeInv, KeyAndUrl, Steady, NEW t \in Tasks,
           Request(t) \/ DeactivateAccount(t) \/ RevokeWithCertKey(t) \/ RolloverKey(t)
    PROVE  KeyAndUrl'
<1>0. TypeOK
  BY DEF TypeInv
<1>1. CASE Request(t) \/ DeactivateAccount(t)
  <2>1. /\ accountUrl # 0 /\ task[t].pc = "idle"
        /\ UNCHANGED <<scenario, accountKey, accountUrl, accounts>>
    BY <1>0, <1>1, StartEffect DEF account
  <2>2. PICK w : /\ Moves(t, w) /\ w.op \in {"request", "deactivate"}
                 /\ w.pc = "head" \/ (w.pc = "wire" /\ w.key = accountKey /\ w.kid = accountUrl)
    BY <1>0, <1>1, StartEffect
  <2>3. Fits(w)
    BY <2>1, <2>2 DEF Fits
  <2> QED
    BY <2>1, <2>2, <2>3, FitsTurn
<1>2. CASE RevokeWithCertKey(t)
  <2>1. /\ task[t].pc = "idle" /\ UNCHANGED <<scenario, accountKey, accountUrl, accounts>>
        /\ \E w : Moves(t, w) /\ w.op = "certRevoke"
    BY <1>0, <1>2, RevokeEffect DEF account
  <2>2. PICK w : Moves(t, w) /\ ~ Signs(w)
    BY <2>1 DEF Signs
  <2> QED
    BY <2>1, <2>2, OthersFit, FitsTurn
<1>3. CASE RolloverKey(t)
  <2>1. /\ accountUrl # 0 /\ accountKey # 0 /\ task[t].pc = "idle" /\ Guarded("rollover")
        /\ UNCHANGED <<scenario, accountKey, accountUrl, accounts>>
    BY <1>0, <1>3, RolloverEffect DEF account
  <2>2. PICK w : /\ Moves(t, w) /\ w.op = "rollover"
                 /\ w.saved = accountKey /\ w.location = accountUrl
                 /\ w.pc = "head" \/ (w.pc = "wire" /\ w.key = accountKey /\ w.kid = accountUrl)
    BY <1>0, <1>3, RolloverEffect
  <2>3. \A s \in Tasks : ~ Busy(s)
    BY <2>1 DEF Guarded, AccountOps, Steady
  <2>4. Bound(accountUrl)
    BY <1>0, <2>1, <2>3, BoundIfIdle
  <2>5. Fits(w)
    BY <2>1, <2>2, <2>4 DEF Fits, Bound
  <2> QED
    BY <2>1, <2>2, <2>5, FitsTurn
<1> QED
  BY <1>1, <1>2, <1>3

\* The URL that is put aside is bound to the key the request is signed with.
LEMMA PostFits ==
    ASSUME TypeOK, KeyAndUrl, Steady, NEW t \in Tasks, NEW w, Moves(t, w), w.op = "account",
           \A s \in Tasks \ {t} : ~ Busy(s), Busy(t) => task[t].op # "rollover",
           accounts' = accounts, accountKey # 0 => accountKey' = accountKey,
           \/ w.pc = "directory" /\ accountUrl' = accountUrl
           \/ /\ accountUrl' = 0 /\ w.saved = accountUrl
              /\ w.pc = "head" \/ (w.pc = "wire" /\ w.key = accountKey' /\ w.kid = 0)
    PROVE  KeyAndUrl'
<1>1. ASSUME NEW a, a = accountUrl, a # 0 PROVE Bound(a)'
  BY <1>1, BoundIfIdle
<1>2. ASSUME accountUrl' # 0 PROVE Bound(accountUrl)'
  <2>1. PICK a : a = accountUrl
    OBVIOUS
  <2>2. Bound(a)' /\ accountUrl' = a
    BY <1>1, <1>2, <2>1
  <2> QED
    BY <2>2 DEF Bound
<1>3. w.pc \in {"head", "wire"} => (w.saved # 0 => Bound(w.saved)')
  BY <1>1
<1>4. Fits(w)'
  BY <1>3 DEF Fits
<1> QED
  BY <1>2, <1>4, FitsAlone

\* Accounts are created, or looked up, by calls that fit.
LEMMA CreateFits ==
    ASSUME TypeInv, AccountOpsAlone, KeyAndUrl, Steady, NEW t \in Tasks,
           CreateAccount(t) \/ DirectoryArrives(t)
    PROVE  KeyAndUrl'
<1>0. TypeOK
  BY DEF TypeInv
<1>1. CASE CreateAccount(t)
  <2>1. PICK w : /\ Moves(t, w) /\ w.op = "account"
                 /\ \/ w.pc = "directory" /\ accountUrl' = accountUrl
                    \/ /\ accountUrl' = 0 /\ w.saved = accountUrl
                       /\ w.pc = "head" \/ (w.pc = "wire" /\ w.key = accountKey' /\ w.kid = 0)
    BY <1>0, <1>1, CreateEffect
  <2>2. /\ Guarded("account") /\ accounts' = accounts
        /\ accountKey # 0 => accountKey' = accountKey
    BY <1>0, <1>1, CreateEffect
  <2>3. \A s \in Tasks : ~ Busy(s)
    BY <2>2 DEF Guarded, AccountOps, Steady
  <2> QED
    BY <1>0, <2>1, <2>2, <2>3, PostFits
<1>2. CASE DirectoryArrives(t)
  <2>1. /\ task[t].pc = "directory"
        /\ UNCHANGED <<scenario, accountKey, accounts>>
    BY <1>0, <1>2, DirectoryEffect
  <2>2. PICK w : /\ Moves(t, w) /\ w.op = task[t].op
                 /\ \/ /\ w.op = "account" /\ accountUrl' = 0 /\ w.saved = accountUrl
                       /\ w.pc = "head" \/ (w.pc = "wire" /\ w.key = accountKey /\ w.kid = 0)
                    \/ w.op = "certRevoke" /\ accountUrl' = accountUrl
    BY <1>0, <1>2, DirectoryEffect
  <2>3. CASE w.op = "certRevoke" /\ accountUrl' = accountUrl
    BY <2>1, <2>2, <2>3, OthersFit, FitsTurn DEF Signs
  <2>4. CASE /\ w.op = "account" /\ accountUrl' = 0 /\ w.saved = accountUrl
             /\ w.pc = "head" \/ (w.pc = "wire" /\ w.key = accountKey /\ w.kid = 0)
    <3>1. Busy(t) /\ task[t].op = "account"
      BY <2>1, <2>2, <2>4 DEF Busy, Signs
    <3>2. \A s \in Tasks \ {t} : ~ Busy(s)
      BY <3>1, OthersAreIdle DEF AccountOps
    <3>3. accountKey' = accountKey
      BY <2>1
    <3>4. w.pc = "head" \/ (w.pc = "wire" /\ w.key = accountKey' /\ w.kid = 0)
      BY <2>4, <3>3
    <3> QED
      BY <1>0, <2>1, <2>2, <2>4, <3>1, <3>2, <3>3, <3>4, PostFits
  <2> QED
    BY <2>2, <2>3, <2>4
<1> QED
  BY <1>1, <1>2

\* What the server does to the account is what the call asked for.
LEMMA AnswerFits ==
    ASSUME TypeInv, AccountOpsAlone, KeyAndUrl, Steady, NEW t \in Tasks, Process(t)
    PROVE  KeyAndUrl'
<1> DEFINE m == task[t]
<1>1. /\ m.pc = "wire" /\ UNCHANGED <<scenario, accountKey, accountUrl>>
  BY AnswerEffect
<1>2. PICK w : /\ Moves(t, w) /\ w.pc = "reply" /\ w.op = m.op
               /\ w.saved = m.saved /\ w.newKey = m.newKey
               /\ \/ w.reply # "ok" /\ w.location = m.location /\ accounts' = accounts
                  \/ /\ w.reply = "ok" /\ w.op = "account"
                     /\ \A a \in DOMAIN accounts :
                           a \in DOMAIN accounts' /\ accounts'[a] = accounts[a]
                     /\ w.location \in DOMAIN accounts' /\ accounts'[w.location] = m.key
                  \/ /\ w.reply = "ok" /\ w.location = m.location
                     /\ w.op = "rollover" /\ Rebound(m.kid, m.newKey) /\ m.kid \in DOMAIN accounts
                  \/ /\ w.reply = "ok" /\ w.location = m.location
                     /\ w.op \notin {"account", "rollover"} /\ accounts' = accounts
  BY AnswerEffect
<1>3. Fits(m)
  BY DEF KeyAndUrl
<1>4. CASE accounts' = accounts /\ w.location = m.location
           /\ (w.reply # "ok" \/ w.op \notin {"account", "rollover"})
  <2>1. Fits(w)
    BY <1>1, <1>2, <1>3, <1>4 DEF Fits
  <2> QED
    BY <1>1, <1>2, <1>4, <2>1, FitsTurn
<1>5. ASSUME w.op \in {"account", "rollover"} PROVE \A s \in Tasks \ {t} : ~ Busy(s)
  <2>1. Busy(t) /\ m.op \in AccountOps
    BY <1>1, <1>2, <1>5 DEF Busy, Signs, AccountOps
  <2> QED
    BY <2>1, OthersAreIdle
<1>6. CASE /\ w.reply = "ok" /\ w.op = "account"
           /\ \A a \in DOMAIN accounts : a \in DOMAIN accounts' /\ accounts'[a] = accounts[a]
           /\ w.location \in DOMAIN accounts' /\ accounts'[w.location] = m.key
  <2>1. accountUrl' = 0 /\ m.key = accountKey' /\ (m.saved # 0 => Bound(m.saved))
    BY <1>1, <1>2, <1>3, <1>6 DEF Fits
  <2>2. w.saved # 0 => Bound(w.saved)'
    BY <1>1, <1>2, <1>6, <2>1 DEF Bound
  <2>3. Bound(w.location)'
    BY <1>6, <2>1 DEF Bound
  <2>4. Fits(w)'
    BY <1>2, <1>6, <2>1, <2>2, <2>3 DEF Fits
  <2> QED
    BY <1>2, <1>5, <1>6, <2>1, <2>4, FitsAlone
<1>7. CASE /\ w.reply = "ok" /\ w.location = m.location
           /\ w.op = "rollover" /\ Rebound(m.kid, m.newKey)
  <2>1. /\ m.kid = accountUrl /\ accountUrl \in DOMAIN accounts /\ accountUrl # 0
        /\ m.saved = accountKey /\ m.location = accountUrl /\ accountKey # 0
    BY <1>1, <1>2, <1>3, <1>7 DEF Fits
  <2>2. accountUrl' \in DOMAIN accounts' /\ accounts'[accountUrl'] = m.newKey
    BY <1>1, <1>7, <2>1 DEF Rebound
  <2>3. Fits(w)'
    BY <1>1, <1>2, <1>7, <2>1, <2>2 DEF Fits
  <2> QED
    BY <1>2, <1>5, <1>7, <2>3, FitsAlone
<1> QED
  BY <1>2, <1>4, <1>6, <1>7

\* What the client makes of the response leaves key and URL together.
LEMMA ReturnFits ==
    ASSUME TypeInv, AccountOpsAlone, KeyAndUrl, Steady, NEW t \in Tasks, Respond(t)
    PROVE  KeyAndUrl'
<1> DEFINE m == task[t]
<1>1. m.pc = "reply" /\ UNCHANGED <<scenario, accounts>>
  BY ReturnEffect
<1>2. PICK w : /\ Moves(t, w)
               /\ \/ w = Idle /\ m.reply = "ok" /\ Succeed(t)
                  \/ w = Idle /\ m.reply # "ok" /\ Fail(t)
                  \/ /\ Going(w, m, KeyFor(m), UrlFor(m))
                     /\ m.reply = "badNonce"
                     /\ UNCHANGED <<accountKey, accountUrl>>
  BY ReturnEffect
<1>3. Fits(m)
  BY DEF KeyAndUrl
<1>4. Idle.pc = "idle" /\ Fits(Idle) /\ Fits(Idle)'
  <2>1. Idle.pc = "idle"
    BY IdleFacts
  <2>2. PICK i : i = Idle
    OBVIOUS
  <2>3. Fits(i) /\ Fits(i)'
    BY <2>1, <2>2, OthersFit DEF Signs
  <2> QED
    BY <2>1, <2>2, <2>3
<1>5. ASSUME m.op \in {"account", "rollover"} PROVE \A s \in Tasks \ {t} : ~ Busy(s)
  <2>1. Busy(t) /\ m.op \in AccountOps
    BY <1>1, <1>5 DEF Busy, Signs, AccountOps
  <2> QED
    BY <2>1, OthersAreIdle
<1>6. CASE w = Idle /\ m.reply = "ok" /\ Succeed(t)
  <2>1. CASE m.op = "account"
    <3>1. accountUrl' = m.location /\ accountKey' = accountKey
      BY <1>6, <2>1 DEF Succeed
    <3>2. Bound(m.location)
      BY <1>1, <1>3, <1>6, <2>1 DEF Fits
    <3>3. Bound(accountUrl)'
      BY <1>1, <3>1, <3>2 DEF Bound
    <3> QED
      BY <1>2, <1>4, <1>5, <1>6, <2>1, <3>3, FitsAlone
  <2>2. CASE m.op = "rollover"
    <3>1. accountUrl' = accountUrl /\ accountKey' = m.newKey
      BY <1>6, <2>2 DEF Succeed
    <3>2. accountUrl \in DOMAIN accounts /\ accounts[accountUrl] = m.newKey
      BY <1>1, <1>3, <1>6, <2>2 DEF Fits
    <3>3. Bound(accountUrl)'
      BY <1>1, <3>1, <3>2 DEF Bound
    <3> QED
      BY <1>2, <1>4, <1>5, <1>6, <2>2, <3>3, FitsAlone
  <2>3. CASE m.op \notin {"account", "rollover"}
    <3>1. UNCHANGED <<accountKey, accountUrl>>
      BY <1>6, <2>3 DEF Succeed
    <3> QED
      BY <1>1, <1>2, <1>4, <1>6, <2>3, <3>1, FitsTurn
  <2> QED
    BY <2>1, <2>2, <2>3
<1>7. CASE w = Idle /\ m.reply # "ok" /\ Fail(t)
  <2>1. CASE m.op = "account"
    <3>1. accountUrl' = m.saved /\ accountKey' = accountKey
      BY <1>1, <1>7, <2>1 DEF Fail
    <3>2. m.saved # 0 => Bound(m.saved)
      BY <1>1, <1>3, <2>1 DEF Fits
    <3>3. accountUrl' # 0 => Bound(accountUrl)'
      BY <1>1, <3>1, <3>2 DEF Bound
    <3> QED
      BY <1>2, <1>4, <1>5, <1>7, <2>1, <3>3, FitsAlone
  <2>2. CASE m.op # "account"
    <3>1. UNCHANGED <<accountKey, accountUrl>>
      BY <1>7, <2>2 DEF Fail
    <3>2. m.op = "rollover" => Bound(accountUrl)
      BY <1>1, <1>3, <1>7 DEF Fits, Bound
    <3> QED
      BY <1>1, <1>2, <1>4, <1>7, <3>1, <3>2, FitsTurn
  <2> QED
    BY <2>1, <2>2
<1>8. CASE /\ Going(w, m, KeyFor(m), UrlFor(m))
           /\ m.reply = "badNonce"
           /\ UNCHANGED <<accountKey, accountUrl>>
  <2>1. Fits(w) /\ w.op = m.op /\ w.pc # "idle"
    BY <1>1, <1>3, <1>8, GoingFits DEF Going
  <2> QED
    BY <1>1, <1>2, <1>8, <2>1, FitsTurn
<1> QED
  BY <1>2, <1>6, <1>7, <1>8

\* Every step keeps the URL with its key.
LEMMA KeyAndUrlStep ==
    ASSUME TypeInv, AccountOpsAlone, KeyAndUrl, [Next]_vars
    PROVE  KeyAndUrl'
<1>0. TypeOK /\ References
  BY DEF TypeInv
<1>1. scenario' = scenario
  BY DEF Next, vars, CreateAccount, Request, RolloverKey, DeactivateAccount, RevokeWithCertKey,
         DirectoryArrives, NonceArrives, Process, Respond, Lose, Cancel, Expire,
         SaveNewKeyFails, Restart
<1> SUFFICES ASSUME Steady PROVE KeyAndUrl'
  BY <1>1 DEF KeyAndUrl, Steady
<1>2. ASSUME NEW t \in Tasks, NonceArrives(t) PROVE KeyAndUrl'
  <2>1. task[t].pc = "head" /\ UNCHANGED <<scenario, accountKey, accountUrl, accounts>>
    BY <1>0, <1>2, NonceEffect DEF account
  <2>2. PICK w : Moves(t, w) /\ Going(w, task[t], KeyFor(task[t]), UrlFor(task[t]))
    BY <1>0, <1>2, NonceEffect
  <2>3. Fits(task[t])
    BY DEF KeyAndUrl
  <2>4. Fits(w) /\ w.op = task[t].op /\ w.pc # "idle"
    BY <2>1, <2>2, <2>3, GoingFits DEF Going
  <2> QED
    BY <2>1, <2>2, <2>4, FitsTurn
<1>3. ~ \E t \in Tasks : Lose(t) \/ Cancel(t)
  BY <1>0, StopEffect DEF Steady
<1>4. CASE (\E n \in live : Expire(n)) \/ UNCHANGED vars
  <2>1. UNCHANGED <<scenario, accountKey, accountUrl, accounts, task>>
    BY <1>0, <1>4, OtherEffect DEF account
  <2> QED
    BY <2>1 DEF KeyAndUrl, Steady, Running, Bound, Fits
<1>5. CASE SaveNewKeyFails
  <2>1. accountKey = 0 /\ UNCHANGED <<accountUrl, accounts, task>>
    BY <1>0, <1>5, SaveNewKeyFailsEffect
  <2>2. \A a : ~ Bound(a)
    BY <1>0, <2>1, BoundFacts
  <2>3. ~ Running("rollover")
    BY <2>1 DEF KeyAndUrl, Fits, Running
  <2>4. accountUrl = 0
    BY <2>2, <2>3 DEF KeyAndUrl
  <2>5. ASSUME NEW s \in Tasks PROVE ~ Signs(task[s])
    <3>1. task[s].op \in Ops /\ Fits(task[s])
      BY <1>0, TypeFacts, TaskFields DEF KeyAndUrl
    <3>2. task[s].op \in {"request", "rollover", "deactivate"} => task[s].pc = "idle"
      BY <2>4, <3>1 DEF Fits
    <3>3. task[s].op = "account" => task[s].pc = "idle"
      BY <1>0, <2>1 DEF References, Refers
    <3> QED
      BY <3>1, <3>2, <3>3 DEF Signs, Ops
  <2>6. ASSUME NEW s \in Tasks PROVE Fits(task[s])'
    <3>1. PICK m : m = task'[s]
      OBVIOUS
    <3>2. ~ Signs(m)
      BY <2>1, <2>5, <3>1
    <3> QED
      BY <3>1, <3>2, OthersFit, FitsNext
  <2> QED
    BY <2>1, <2>4, <2>6 DEF KeyAndUrl
<1>6. CASE Restart
  <2>1. accountUrl' = 0 /\ (\A t \in Tasks : task'[t] = Idle) /\ Idle.pc = "idle"
    BY <1>0, <1>6, RestartEffect, IdleFacts
  <2>2. ASSUME NEW s \in Tasks PROVE Fits(task[s])'
    <3>1. PICK m : m = task'[s]
      OBVIOUS
    <3>2. ~ Signs(m)
      BY <2>1, <3>1 DEF Signs
    <3> QED
      BY <3>1, <3>2, OthersFit, FitsNext
  <2> QED
    BY <2>1, <2>2 DEF KeyAndUrl
<1> QED
  BY <1>2, <1>3, <1>4, <1>5, <1>6, StartFits, CreateFits, AnswerFits, ReturnFits DEF Next

-----------------------------------------------------------------------------
(* The URL is not lost *)

\* Calls other than create_account have no URL to keep.
LEMMA OthersSave ==
    ASSUME NEW m, m.op # "account" \/ m.pc = "idle"
    PROVE  Located(m) /\ Saves(m) /\ Saves(m)'
  BY DEF Located, Saves

\* What task s is doing next saves the URL if that call does.
LEMMA SavesNext ==
    ASSUME NEW s, NEW m, task'[s] = m, Saves(m)'
    PROVE  Saves(task[s])'
  BY DEF Saves

\* The application manages the account alone and cancels nothing.
Managed == scenario.exclusive /\ "cancel" \notin scenario.faults

\* One call goes on; the client knows the same URL, or the others are not
\* about the account.
LEMMA UrlTurn ==
    ASSUME UrlSaved, UNCHANGED scenario, NEW t \in Tasks, NEW w, Moves(t, w), Located(w),
           Managed /\ known' =>
              /\ Saves(w)'
              /\ \/ known /\ accountUrl' = accountUrl
                 \/ \A s \in Tasks \ {t} : ~ Busy(s)
              /\ \/ w.pc # "idle" /\ w.op = "account"
                 \/ ~ (task[t].pc # "idle" /\ task[t].op = "account")
                       /\ known /\ accountUrl' = accountUrl
                 \/ accountUrl' # 0
    PROVE  UrlSaved'
<1>1. ASSUME NEW s \in Tasks PROVE Located(task[s])'
  <2>1. Located(task'[s])
    BY DEF UrlSaved, Moves
  <2> QED
    BY <2>1 DEF Located
<1>2. ASSUME Managed, known', NEW s \in Tasks PROVE Saves(task[s])'
  <2>1. PICK m : m = task'[s]
    OBVIOUS
  <2>2. CASE s = t
    BY <1>2, <2>1, <2>2, SavesNext DEF Moves
  <2>3. CASE s # t /\ known /\ accountUrl' = accountUrl
    <3>1. Saves(m)
      BY <1>2, <2>1, <2>3 DEF UrlSaved, Managed, Moves
    <3>2. Saves(m)'
      BY <2>3, <3>1 DEF Saves
    <3> QED
      BY <2>1, <3>2, SavesNext
  <2>4. CASE s # t /\ ~ Busy(s)
    <3>1. m.op # "account" \/ m.pc = "idle"
      BY <2>1, <2>4 DEF Busy, Signs, Moves
    <3> QED
      BY <2>1, <3>1, OthersSave, SavesNext
  <2> QED
    BY <1>2, <2>2, <2>3, <2>4
<1>3. ASSUME Managed, known', ~Running("account")' PROVE accountUrl' # 0
  <2>1. ~ (w.pc # "idle" /\ w.op = "account")
    BY <1>3 DEF Running, Moves
  <2>2. CASE ~ (task[t].pc # "idle" /\ task[t].op = "account") /\ known /\ accountUrl' = accountUrl
    <3>1. ~ Running("account")
      BY <1>3, <2>2 DEF Running, Moves
    <3> QED
      BY <1>3, <2>2, <3>1 DEF UrlSaved, Managed
  <2> QED
    BY <1>3, <2>1, <2>2
<1> QED
  BY <1>1, <1>2, <1>3 DEF UrlSaved, Managed

\* The URL that goes away is put aside.
LEMMA CreateSaves ==
    ASSUME TypeInv, AccountOpsAlone, UrlSaved, NEW t \in Tasks,
           CreateAccount(t) \/ DirectoryArrives(t)
    PROVE  UrlSaved'
<1>0. TypeOK
  BY DEF TypeInv
<1>1. CASE CreateAccount(t)
  <2>1. PICK w : /\ Moves(t, w) /\ w.op = "account"
                 /\ \/ w.pc = "directory" /\ accountUrl' = accountUrl
                    \/ w.saved = accountUrl /\ w.pc \in {"head", "wire"}
    BY <1>0, <1>1, CreateEffect
  <2>2. Guarded("account") /\ UNCHANGED <<scenario, known>>
    BY <1>0, <1>1, CreateEffect
  <2>3. ASSUME Managed PROVE \A s \in Tasks : ~ Busy(s)
    BY <2>2, <2>3 DEF Guarded, AccountOps, Managed
  <2>4. ASSUME Managed, known' PROVE Saves(w)'
    <3>1. ~ Running("account")
      BY <2>3, <2>4 DEF Running, Busy, Signs
    <3>2. accountUrl # 0
      BY <2>2, <2>4, <3>1 DEF UrlSaved, Managed
    <3> QED
      BY <2>1, <3>2 DEF Saves
  <2>5. Located(w) /\ w.pc # "idle"
    BY <2>1 DEF Located
  <2> QED
    BY <2>1, <2>2, <2>3, <2>4, <2>5, UrlTurn
<1>2. CASE DirectoryArrives(t)
  <2>1. task[t].pc = "directory" /\ UNCHANGED <<scenario, known>>
    BY <1>0, <1>2, DirectoryEffect
  <2>2. PICK w : /\ Moves(t, w) /\ w.op = task[t].op /\ w.pc \in {"head", "wire"}
                 /\ \/ w.op = "account" /\ w.saved = accountUrl
                    \/ w.op = "certRevoke" /\ accountUrl' = accountUrl
    BY <1>0, <1>2, DirectoryEffect
  <2>3. Located(w) /\ w.pc # "idle"
    BY <2>2 DEF Located
  <2>4. CASE w.op = "certRevoke" /\ accountUrl' = accountUrl
    <3>1. Saves(w)'
      BY <2>4, OthersSave
    <3> QED
      BY <2>1, <2>2, <2>3, <2>4, <3>1, UrlTurn
  <2>5. CASE w.op = "account" /\ w.saved = accountUrl
    <3>1. ASSUME Managed PROVE \A s \in Tasks \ {t} : ~ Busy(s)
      BY <2>1, <2>2, <2>5, <3>1 DEF Managed, AccountOpsAlone, AccountOps, Busy, Signs
    <3>2. ASSUME Managed, known' PROVE Saves(w)'
      <4>1. accountUrl # 0
        BY <2>1, <2>2, <2>5, <3>2 DEF UrlSaved, Managed, Saves
      <4> QED
        BY <2>2, <2>5, <4>1 DEF Saves
    <3> QED
      BY <2>1, <2>2, <2>3, <2>5, <3>1, <3>2, UrlTurn
  <2> QED
    BY <2>2, <2>4, <2>5
<1> QED
  BY <1>1, <1>2

\* A call that ends leaves the URL of its answer, or the one put aside.
LEMMA EndSaves ==
    ASSUME TypeInv, AccountOpsAlone, UrlSaved, NEW t \in Tasks, task[t].pc # "idle",
           task[t].op = "account" /\ Managed => \A s \in Tasks \ {t} : ~ Busy(s),
           Moves(t, Idle), UNCHANGED scenario,
           Fail(t) \/ (task[t].pc = "reply" /\ task[t].reply = "ok" /\ Succeed(t))
    PROVE  UrlSaved'
<1>1. task[t].pc \in {"directory", "head", "wire", "reply"} /\ task[t].op \in Ops
  BY TypeFacts, TaskFields DEF TypeInv
<1>2. PICK w : w = Idle
  OBVIOUS
<1>3. Moves(t, w) /\ Located(w) /\ Saves(w)'
  BY <1>2, IdleFacts, OthersSave
<1>4. CASE task[t].op # "account"
  <2>1. UNCHANGED <<accountUrl, known>>
    BY <1>4 DEF Fail, Succeed
  <2> QED
    BY <1>3, <1>4, <2>1, UrlTurn
<1>5. CASE task[t].op = "account"
  <2>1. ASSUME Managed, known' PROVE accountUrl' # 0
    <3>1. CASE Fail(t)
      <4>1. known /\ Saves(task[t])
        BY <2>1, <3>1 DEF Fail, UrlSaved, Managed
      <4> QED
        BY <1>1, <1>5, <3>1, <4>1 DEF Fail, Saves
    <3>2. CASE task[t].pc = "reply" /\ task[t].reply = "ok" /\ Succeed(t)
      <4>1. accountUrl' = task[t].location
        BY <1>5, <3>2 DEF Succeed
      <4> QED
        BY <1>5, <3>2, <4>1 DEF UrlSaved, Located
    <3> QED
      BY <3>1, <3>2
  <2> QED
    BY <1>3, <1>5, <2>1, UrlTurn
<1> QED
  BY <1>4, <1>5

\* No step loses the URL.
LEMMA UrlSavedStep ==
    ASSUME TypeInv, AccountOpsAlone, UrlSaved, [Next]_vars
    PROVE  UrlSaved'
<1>0. TypeOK /\ Idle.pc = "idle"
  BY IdleFacts DEF TypeInv
<1>1. ASSUME NEW t \in Tasks,
             Request(t) \/ DeactivateAccount(t) \/ RevokeWithCertKey(t) \/ RolloverKey(t)
      PROVE  UrlSaved'
  <2>1. PICK w : Moves(t, w) /\ w.op # "account"
    BY <1>0, <1>1, StartEffect, RevokeEffect, RolloverEffect
  <2>2. task[t].pc = "idle" /\ UNCHANGED <<scenario, accountUrl, known>>
    BY <1>0, <1>1, StartEffect, RevokeEffect, RolloverEffect DEF account
  <2>3. Located(w) /\ Saves(w)'
    BY <2>1, OthersSave
  <2> QED
    BY <2>1, <2>2, <2>3, UrlTurn
<1>2. ASSUME NEW t \in Tasks, NEW w, Moves(t, w), w.op = task[t].op, w.saved = task[t].saved,
             w.pc \in {"head", "wire", "reply"}, task[t].pc \in {"head", "wire", "reply"},
             Located(w), UNCHANGED <<scenario, accountUrl, known>>
      PROVE  UrlSaved'
  <2>1. ASSUME Managed, known' PROVE Saves(w)'
    <3>1. Saves(task[t])
      BY <1>2, <2>1 DEF UrlSaved, Managed
    <3> QED
      BY <1>2, <3>1 DEF Saves
  <2> QED
    BY <1>2, <2>1, UrlTurn
<1>3. ASSUME NEW t \in Tasks, NonceArrives(t) PROVE UrlSaved'
  <2>1. PICK w : Moves(t, w) /\ Going(w, task[t], KeyFor(task[t]), UrlFor(task[t]))
    BY <1>0, <1>3, NonceEffect
  <2>2. task[t].pc = "head" /\ UNCHANGED <<scenario, accountUrl, known>>
    BY <1>0, <1>3, NonceEffect DEF account
  <2> QED
    BY <1>2, <2>1, <2>2 DEF Going, Located
<1>4. ASSUME NEW t \in Tasks, Process(t) PROVE UrlSaved'
  <2>1. PICK w : /\ Moves(t, w) /\ w.pc = "reply" /\ w.op = task[t].op
                 /\ w.saved = task[t].saved /\ Located(w)
    BY <1>4, AnswerEffect DEF Located
  <2>2. task[t].pc = "wire" /\ UNCHANGED <<scenario, accountUrl, known>>
    BY <1>4, AnswerEffect
  <2> QED
    BY <1>2, <2>1, <2>2
<1>5. ASSUME NEW t \in Tasks, task[t].pc # "idle", task[t].op = "account", Managed
      PROVE  \A s \in Tasks \ {t} : ~ Busy(s)
  BY <1>5 DEF AccountOpsAlone, AccountOps, Busy, Signs, Managed
<1>6. ASSUME NEW t \in Tasks, Respond(t) PROVE UrlSaved'
  <2>1. PICK w : /\ Moves(t, w)
                 /\ \/ w = Idle /\ task[t].reply = "ok" /\ Succeed(t)
                    \/ w = Idle /\ Fail(t)
                    \/ /\ Going(w, task[t], KeyFor(task[t]), UrlFor(task[t]))
                       /\ UNCHANGED <<accountUrl, known>>
    BY <1>6, ReturnEffect
  <2>2. task[t].pc = "reply" /\ UNCHANGED scenario
    BY <1>6, ReturnEffect
  <2>3. CASE w = Idle
    <3>1. Moves(t, Idle) /\ (Fail(t) \/ (task[t].reply = "ok" /\ Succeed(t)))
      BY <1>0, <2>1, <2>3 DEF Going
    <3>2. task[t].op = "account" /\ Managed => \A s \in Tasks \ {t} : ~ Busy(s)
      BY <1>0, <1>5, <2>2
    <3> QED
      BY <2>2, <3>1, <3>2, EndSaves
  <2>4. CASE Going(w, task[t], KeyFor(task[t]), UrlFor(task[t])) /\ UNCHANGED <<accountUrl, known>>
    BY <1>2, <2>1, <2>2, <2>4 DEF Going, Located
  <2> QED
    BY <2>1, <2>3, <2>4
<1>7. ASSUME NEW t \in Tasks, Lose(t) PROVE UrlSaved'
  <2>1. task[t].pc # "idle" /\ Fail(t) /\ Moves(t, Idle) /\ UNCHANGED scenario
    BY <1>0, <1>7, StopEffect DEF Lose
  <2> QED
    BY <1>5, <2>1, EndSaves
<1>8. ASSUME NEW t \in Tasks, Cancel(t) PROVE UrlSaved'
  <2>1. "cancel" \in scenario.faults /\ Moves(t, Idle) /\ UNCHANGED scenario
    BY <1>0, <1>8, StopEffect DEF Cancel
  <2>2. PICK w : w = Idle
    OBVIOUS
  <2>3. Located(w)
    BY <1>0, <2>2, OthersSave
  <2> QED
    BY <2>1, <2>2, <2>3, UrlTurn DEF Managed
<1>9. CASE (\E n \in live : Expire(n)) \/ UNCHANGED vars \/ SaveNewKeyFails
  <2>1. UNCHANGED <<scenario, accountUrl, known, task>>
    BY <1>0, <1>9, OtherEffect, SaveNewKeyFailsEffect DEF account
  <2> QED
    BY <2>1 DEF UrlSaved, Located, Saves, Running
<1>10. CASE Restart
  BY <1>0, <1>10, RestartEffect DEF UrlSaved, Located
<1> QED
  BY <1>1, <1>3, <1>4, <1>6, <1>7, <1>8, <1>9, <1>10, CreateSaves DEF Next

-----------------------------------------------------------------------------
(* Errors *)

\* The server refuses nothing by itself, and no answer is lost.
Obliging == scenario.exclusive /\ scenario.faults \subseteq {"expire", "save", "restart"}

\* One call goes on.
LEMMA ErrorTurn ==
    ASSUME ErrorsAreDue, UNCHANGED scenario, closed \subseteq closed',
           NEW t \in Tasks, NEW w, Moves(t, w),
           Obliging /\ w.pc = "reply" /\ w.reply = "error" => closed # {} /\ w.op # "certRevoke"
    PROVE  ErrorsAreDue'
  BY DEF ErrorsAreDue, Moves, Obliging

\* The server can object only to an account that is closed.
LEMMA ObjectionIsDue ==
    ASSUME TypeInv, AccountOpsAlone, RevocationsSigned, KeyAndUrl, Obliging,
           NEW t \in Tasks, task[t].pc = "wire", ~ Authentic(task[t])
    PROVE  closed # {} /\ task[t].op # "certRevoke"
<1> DEFINE m == task[t]
<1>1. m.op \in Ops
  BY TypeFacts, TaskFields DEF TypeInv
<1>2. m.op # "certRevoke"
  BY DEF RevocationsSigned, Authentic
<1>3. Steady /\ Fits(m)
  BY DEF KeyAndUrl, Steady, Obliging
<1>4. CASE m.op = "account"
  BY <1>3, <1>4 DEF Authentic, Fits
<1>5. CASE m.op \in {"request", "rollover", "deactivate"}
  <2>1. m.kid = accountUrl /\ m.key = accountKey /\ accountUrl # 0
    BY <1>3, <1>5 DEF Fits
  <2>2. Bound(accountUrl)
    <3>1. CASE m.op = "rollover"
      BY <1>3, <3>1 DEF Fits, Bound
    <3>2. CASE m.op # "rollover"
      <4>1. Busy(t)
        BY <1>2 DEF Busy, Signs
      <4>2. ~ Running("rollover")
        BY <3>2, <4>1 DEF Running, Busy, Signs, AccountOpsAlone, AccountOps, Obliging
      <4> QED
        BY <1>3, <2>1, <4>2 DEF KeyAndUrl
    <3> QED
      BY <3>1, <3>2
  <2>3. m.op = "rollover" => m.saved = m.key /\ m.location = m.kid
    BY <1>3, <2>1 DEF Fits
  <2>4. Authentic(m) <=> /\ m.kid \in DOMAIN accounts \ closed /\ accounts[m.kid] = m.key
                         /\ m.op = "rollover" => m.saved = m.key /\ m.location = m.kid
    BY <1>5 DEF Authentic
  <2> QED
    BY <1>2, <2>1, <2>2, <2>3, <2>4 DEF Bound
<1> QED
  BY <1>1, <1>2, <1>4, <1>5 DEF Ops

\* Every error a step brings about is due.
LEMMA ErrorsStep ==
    ASSUME TypeInv, AccountOpsAlone, RevocationsSigned, KeyAndUrl, ErrorsAreDue, [Next]_vars
    PROVE  ErrorsAreDue'
<1>0. TypeOK /\ Idle.pc = "idle"
  BY IdleFacts DEF TypeInv
<1>1. ASSUME NEW t \in Tasks, NEW w, Moves(t, w), w.pc # "reply", UNCHANGED <<scenario, closed>>
      PROVE  ErrorsAreDue'
  BY <1>1, ErrorTurn
<1>2. ASSUME NEW t \in Tasks,
             Request(t) \/ DeactivateAccount(t) \/ RevokeWithCertKey(t) \/ RolloverKey(t)
                \/ CreateAccount(t) \/ DirectoryArrives(t)
      PROVE  ErrorsAreDue'
  <2>1. PICK w : Moves(t, w) /\ w.pc \in {"directory", "head", "wire"}
    BY <1>0, <1>2, StartEffect, RevokeEffect, RolloverEffect, CreateEffect, DirectoryEffect
  <2>2. UNCHANGED <<scenario, closed>>
    BY <1>0, <1>2, StartEffect, RevokeEffect, RolloverEffect, CreateEffect, DirectoryEffect
       DEF account
  <2> QED
    BY <1>1, <2>1, <2>2
<1>3. ASSUME NEW t \in Tasks, NonceArrives(t) \/ Respond(t) PROVE ErrorsAreDue'
  <2>1. PICK w : /\ Moves(t, w)
                 /\ w = Idle \/ Going(w, task[t], KeyFor(task[t]), UrlFor(task[t]))
    BY <1>0, <1>3, NonceEffect, ReturnEffect
  <2>2. UNCHANGED <<scenario, closed>>
    BY <1>0, <1>3, NonceEffect, ReturnEffect DEF account
  <2>3. w.pc # "reply"
    BY <1>0, <2>1 DEF Going
  <2> QED
    BY <1>1, <2>1, <2>2, <2>3
<1>4. ASSUME NEW t \in Tasks, Process(t) PROVE ErrorsAreDue'
  <2>1. PICK w : /\ Moves(t, w) /\ w.op = task[t].op
                 /\ w.reply = "error" => "refuse" \in scenario.faults \/ ~Authentic(task[t])
    BY <1>4, AnswerEffect
  <2>2. task[t].pc = "wire" /\ UNCHANGED scenario /\ closed \subseteq closed'
    BY <1>4, AnswerEffect
  <2>3. Obliging /\ w.reply = "error" => closed # {} /\ w.op # "certRevoke"
    BY <2>1, <2>2, ObjectionIsDue DEF Obliging
  <2> QED
    BY <2>1, <2>2, <2>3, ErrorTurn
<1>5. ASSUME NEW t \in Tasks, Lose(t) \/ Cancel(t) PROVE ErrorsAreDue'
  BY <1>0, <1>1, <1>5, StopEffect
<1>6. CASE (\E n \in live : Expire(n)) \/ UNCHANGED vars \/ SaveNewKeyFails
  <2>1. UNCHANGED <<scenario, closed, task>>
    BY <1>0, <1>6, OtherEffect, SaveNewKeyFailsEffect DEF account
  <2> QED
    BY <2>1 DEF ErrorsAreDue
<1>7. CASE Restart
  BY <1>0, <1>7, RestartEffect DEF ErrorsAreDue
<1> QED
  BY <1>2, <1>3, <1>4, <1>5, <1>6, <1>7 DEF Next

-----------------------------------------------------------------------------
(* Theorems *)

\* What is inductive about the account.
AccountInv ==
    /\ AccountOpsAlone /\ KeyStored /\ RevocationsSigned
    /\ KeyAndUrl /\ UrlSaved /\ ErrorsAreDue

\* The account is always like that.
LEMMA AccountIsKept == Spec => [](TypeInv /\ NonceInv /\ AccountInv)
<1>1. Init => AccountInv
  BY IdleFacts DEF Init, AccountInv, AccountOpsAlone, Busy, Signs, KeyStored, StoresKeys, RevocationsSigned,
     KeyAndUrl, Bound, Fits, UrlSaved, Located, ErrorsAreDue
<1>2. TypeInv /\ AccountInv /\ [Next]_vars => AccountInv'
  BY AloneStep, KeyStoredStep, RevocationsStep, KeyAndUrlStep, UrlSavedStep, ErrorsStep
     DEF AccountInv
<1> QED
  BY <1>1, <1>2, SessionTypesAndNonces, PTL DEF Spec

\* In an application that manages its account alone, however its calls and
\* the server's failures and restarts interleave, the key in memory is the one
\* the server has for the account URL in use, outside a key change; it is
\* stored too unless saving it failed.
THEOREM KeyIsTheServers == Spec => []KeyMatchesServer
<1>1. TypeInv /\ AccountInv => KeyMatchesServer
  <2> SUFFICES ASSUME TypeInv, AccountInv, Steady, accountUrl # 0, ~Running("rollover")
               PROVE  /\ accountUrl \in DOMAIN accounts /\ accounts[accountUrl] = accountKey
                      /\ StoresKeys => storedKey = accountKey
    BY DEF KeyMatchesServer, Steady, StoresKeys
  <2>1. Bound(accountUrl)
    BY DEF AccountInv, KeyAndUrl
  <2>2. accountKey # 0
    BY <2>1, BoundFacts DEF TypeInv
  <2> QED
    BY <2>1, <2>2 DEF AccountInv, KeyStored, Bound
<1> QED
  BY <1>1, AccountIsKept, PTL

\* After create_account has returned once, the client has an account URL
\* whenever no create_account runs, whatever failed meanwhile, if it runs
\* alone and is not cancelled.
THEOREM UrlIsKept == Spec => []AccountUrlKeptAlone
<1>1. AccountInv => AccountUrlKeptAlone
  BY DEF AccountInv, UrlSaved, AccountUrlKeptAlone, AccountUrlKept
<1> QED
  BY <1>1, AccountIsKept, PTL

\* A server that forgets no nonce never answers badNonce, and one that refuses
\* nothing by itself refuses nothing but what follows a deactivation.
THEOREM NobodyIsRefused == Spec => []NothingIsRefused
<1>1. NonceInv /\ AccountInv => NothingIsRefused
  BY DEF NonceInv, NoncesLive, Accepted, AccountInv, ErrorsAreDue, NothingIsRefused
<1> QED
  BY <1>1, AccountIsKept, PTL
=============================================================================
