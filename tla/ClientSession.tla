---------------------------- MODULE ClientSession ----------------------------
(***************************************************************************)
(* The state one lacme.client.Client keeps between requests (nonce pool,   *)
(* account key, account URL, key store) used by several asyncio tasks, and *)
(* the ACME server it talks to.                                            *)
(*                                                                         *)
(* A task can be interrupted only where the code awaits the network, so a  *)
(* step runs from one response to the next request: taking a nonce from a  *)
(* non-empty pool, signing and posting is one step.  The server is         *)
(* external: a strict RFC 8555 CA.                                         *)
(***************************************************************************)
EXTENDS Naturals, Sequences

CONSTANTS
    Tasks,      \* asyncio tasks sharing the client
    MaxKeys,    \* bound on the keys generated by a client
    Scenarios   \* what applications and environments do: see Scenario

FaultKinds == {"expire",   \* the server forgets a nonce
               "refuse",   \* the server answers an error
               "lose",     \* the transport fails
               "cancel",   \* a task is cancelled while it waits
               "save",     \* writing the account key to the store fails
               "restart"}  \* the process restarts

Ops == {"account", "request", "rollover", "deactivate", "certRevoke"}

\* "exclusive": the application changes the account while nothing else runs
\* that is signed with its key; "store": the client has a store; "given": it
\* may be constructed with an account key; "ops": what the application calls;
\* "maxOps" bounds how often.
Scenario == [exclusive : BOOLEAN, store : BOOLEAN, given : BOOLEAN,
             faults : SUBSET FaultKinds, ops : SUBSET Ops, maxOps : Nat]

ASSUME SessionAssumption ==
    /\ MaxKeys \in Nat
    /\ Scenarios \subseteq Scenario

VARIABLES
    scenario,    \* chosen once, never changed
    pool,        \* Client._nonces, last in first out
    accountKey,  \* Client._account_key, 0 for None
    accountUrl,  \* Client._account_url, 0 for None
    storedKey,   \* the account key in the store, 0 for none
    keys,        \* keys generated so far, by the client or for it
    directory,   \* Client._directory is cached
    task,        \* what each task is doing
    ops,         \* operations started
    accounts,    \* server: accounts[a] is the key account a is bound to
    closed,      \* server: accounts that were deactivated
    issued,      \* server: nonces handed out are 1..issued
    live,        \* server: nonces it would accept
    spent,       \* history: nonces put on the wire
    known        \* history: create_account has returned in this process

client == <<pool, accountKey, accountUrl, storedKey, keys, directory>>
server == <<accounts, closed, issued, live>>
vars == <<scenario, client, server, task, ops, spent, known>>

\* pc "directory": waiting for the directory; "head": for HEAD newNonce;
\* "wire": the POST is on its way; "reply": its response is on the way back.
Idle == [pc |-> "idle", op |-> "request", retried |-> FALSE, saved |-> 0,
         newKey |-> 0, nonce |-> 0, key |-> 0, kid |-> 0,
         reply |-> "ok", fresh |-> 0, location |-> 0]

Task == [pc : {"idle", "directory", "head", "wire", "reply"}, op : Ops, retried : BOOLEAN,
         saved : Nat, newKey : Nat, nonce : Nat, key : Nat, kid : Nat,
         reply : {"ok", "badNonce", "error"}, fresh : Nat, location : Nat]

\* Every variable has its type; nonces were handed out by the server, keys
\* generated by the client, account URLs created by the server.
TypeOK ==
    /\ scenario \in Scenarios
    /\ issued \in Nat
    /\ pool \in Seq(1..issued) /\ live \subseteq 1..issued /\ spent \subseteq 1..issued
    /\ keys \in Nat /\ ops \in Nat
    /\ accounts \in Seq(1..keys)
    /\ accountKey \in 0..keys /\ storedKey \in 0..keys
    /\ accountUrl \in 0..Len(accounts)
    /\ closed \subseteq DOMAIN accounts
    /\ task \in [Tasks -> Task]
    /\ directory \in BOOLEAN
    /\ known \in BOOLEAN

Init ==
    /\ scenario \in Scenarios
    /\ pool = <<>>
    /\ accountKey \in IF scenario.given THEN {0, 1} ELSE {0}
    /\ keys = accountKey
    /\ accountUrl = 0 /\ storedKey = 0 /\ ops = 0
    /\ task = [t \in Tasks |-> Idle]
    /\ directory = FALSE
    /\ accounts = <<>> /\ closed = {} /\ issued = 0 /\ live = {}
    /\ spent = {} /\ known = FALSE

-----------------------------------------------------------------------------
\* Mistake: the nonce stays in the pool.
SendPeek(t, m, p, key, url) ==
    IF p = <<>>
    THEN /\ task' = [task EXCEPT ![t] = [m EXCEPT !.pc = "head"]]
         /\ pool' = p
         /\ UNCHANGED spent
    ELSE LET n == p[Len(p)] IN
         /\ task' = [task EXCEPT ![t] = [m EXCEPT
                        !.pc = "wire", !.nonce = n, !.key = key, !.kid = url]]
         /\ pool' = p
         /\ spent' = spent \cup {n}

\* Mistake: the oldest nonce is used first.
SendOldest(t, m, p, key, url) ==
    IF p = <<>>
    THEN /\ task' = [task EXCEPT ![t] = [m EXCEPT !.pc = "head"]]
         /\ pool' = p
         /\ UNCHANGED spent
    ELSE /\ task' = [task EXCEPT ![t] = [m EXCEPT
                        !.pc = "wire", !.nonce = Head(p), !.key = key, !.kid = url]]
         /\ pool' = Tail(p)
         /\ spent' = spent \cup {Head(p)}

\* _signed_request up to its next await, for the pool, key and URL of that
\* moment: pop a nonce, sign and post, or ask the server for one.
Send(t, m, p, key, url) ==
    IF p = <<>>
    THEN /\ task' = [task EXCEPT ![t] = [m EXCEPT !.pc = "head"]]
         /\ pool' = p
         /\ UNCHANGED spent
    ELSE LET n == p[Len(p)] IN
         /\ task' = [task EXCEPT ![t] = [m EXCEPT
                        !.pc = "wire", !.nonce = n, !.key = key, !.kid = url]]
         /\ pool' = SubSeq(p, 1, Len(p) - 1)
         /\ spent' = spent \cup {n}

\* The key of a certificate, which its holder may revoke it with.
CertKey == MaxKeys + 1

\* The key and URL a request is signed with when it is sent or sent again.
Resend(t, m, p) ==
    IF m.op = "certRevoke" THEN Send(t, m, p, CertKey, 0)
    ELSE Send(t, m, p, accountKey, accountUrl)

Running(op) == \E t \in Tasks : task[t].pc # "idle" /\ task[t].op = op
AccountOps == {"account", "rollover", "deactivate"}

\* Task t may start op: it is idle and, if the application keeps account
\* management to itself, nothing signed with the account key overlaps a
\* change of the account.
MayStart(t, op) ==
    /\ ops < scenario.maxOps
    /\ ops' = ops + 1
    /\ op \in scenario.ops
    /\ task[t].pc = "idle"
    /\ scenario.exclusive =>
          /\ op \in AccountOps => \A o \in Ops \ {"certRevoke"} : ~Running(o)
          /\ op = "request" => \A o \in AccountOps : ~Running(o)

-----------------------------------------------------------------------------
AwaitDirectory(t, op) ==
    task' = [task EXCEPT ![t] = [Idle EXCEPT !.pc = "directory", !.op = op]]

\* Mistake: a request for an existing account is signed with its URL.
PostAccountUnderUrl(t, key, p) ==
    /\ Send(t, [Idle EXCEPT !.op = "account", !.saved = accountUrl],
            p, key, accountUrl)
    /\ UNCHANGED accountUrl

\* create_account with the directory at hand: forget the account URL so that
\* the request is signed with the key itself, and send it.
PostAccount(t, key, p) ==
    /\ Send(t, [Idle EXCEPT !.op = "account", !.saved = accountUrl], p, key, 0)
    /\ accountUrl' = 0

\* create_account: make sure of a key first, in memory, in the store if there
\* is one, or generated and saved there; then of the directory.
CreateAccount(t) ==
    /\ MayStart(t, "account")
    /\ LET key == IF accountKey # 0 THEN accountKey
                  ELSE IF storedKey # 0 THEN storedKey ELSE keys + 1
       IN /\ key <= MaxKeys
          /\ accountKey' = key
          /\ storedKey' = IF key = keys + 1 /\ scenario.store THEN key ELSE storedKey
          /\ keys' = IF key = keys + 1 THEN key ELSE keys
          /\ \/ directory /\ PostAccount(t, key, pool)
             \/ /\ ~directory
                /\ AwaitDirectory(t, "account")
                /\ UNCHANGED <<pool, accountUrl, spent>>
    /\ UNCHANGED <<scenario, directory, server, known>>

\* The directory arrives, with a nonce or without; several tasks may have
\* asked for it.
DirectoryArrives(t) ==
    /\ task[t].pc = "directory"
    /\ directory' = TRUE
    /\ \E p \in {pool, Append(pool, issued + 1)} :
          /\ issued' = issued + Len(p) - Len(pool)
          /\ live' = live \cup (1..issued' \ 1..issued)
          /\ \/ task[t].op = "account" /\ PostAccount(t, accountKey, p)
             \/ /\ task[t].op = "certRevoke"
                /\ Resend(t, task[t], p)
                /\ UNCHANGED accountUrl
    /\ UNCHANGED <<scenario, accountKey, storedKey, keys, accounts, closed, ops, known>>

\* revoke_with_cert_key, which needs no account.
RevokeWithCertKey(t) ==
    /\ MayStart(t, "certRevoke")
    /\ \/ directory /\ Resend(t, [Idle EXCEPT !.op = "certRevoke"], pool)
       \/ /\ ~directory
          /\ AwaitDirectory(t, "certRevoke")
          /\ UNCHANGED <<pool, spent>>
    /\ UNCHANGED <<scenario, accountKey, accountUrl, storedKey, keys, directory,
                   server, known>>

\* A generated key cannot be saved: the call raises, the key stays in memory.
SaveNewKeyFails ==
    /\ "save" \in scenario.faults /\ scenario.store
    /\ accountKey = 0 /\ storedKey = 0 /\ keys < MaxKeys
    /\ keys' = keys + 1
    /\ accountKey' = keys + 1
    /\ UNCHANGED <<scenario, pool, accountUrl, storedKey, directory, server, task, ops,
                   spent, known>>

\* Any call signed with the account URL, such as create_order.
Request(t) ==
    /\ MayStart(t, "request")
    /\ accountUrl # 0
    /\ Resend(t, [Idle EXCEPT !.op = "request"], pool)
    /\ UNCHANGED <<scenario, accountKey, accountUrl, storedKey, keys, directory,
                   server, known>>

\* deactivate_account: the client keeps its key and URL whatever happens.
DeactivateAccount(t) ==
    /\ MayStart(t, "deactivate")
    /\ accountUrl # 0
    /\ Resend(t, [Idle EXCEPT !.op = "deactivate"], pool)
    /\ UNCHANGED <<scenario, accountKey, accountUrl, storedKey, keys, directory,
                   server, known>>

\* Mistake: the new key is not a new one.
RolloverKeyUncounted(t) ==
    /\ MayStart(t, "rollover")
    /\ accountUrl # 0 /\ accountKey # 0
    /\ Send(t, [Idle EXCEPT !.op = "rollover", !.newKey = keys + 1,
                            !.saved = accountKey, !.location = accountUrl],
            pool, accountKey, accountUrl)
    /\ UNCHANGED <<scenario, accountKey, accountUrl, storedKey, keys, directory,
                   server, known>>

\* rollover_key with a new key, generated or supplied by the caller (a caller
\* that supplies a key used before is not modelled); the inner JWS names the
\* current key as the old one ("saved") and the current account URL
\* ("location").
RolloverKey(t) ==
    /\ MayStart(t, "rollover")
    /\ accountUrl # 0 /\ accountKey # 0
    /\ keys < MaxKeys
    /\ keys' = keys + 1
    /\ Send(t, [Idle EXCEPT !.op = "rollover", !.newKey = keys + 1,
                            !.saved = accountKey, !.location = accountUrl],
            pool, accountKey, accountUrl)
    /\ UNCHANGED <<scenario, accountKey, accountUrl, storedKey, directory, server, known>>

\* The nonce asked for arrives; it is harvested and popped without an await.
NonceArrives(t) ==
    /\ task[t].pc = "head"
    /\ issued' = issued + 1
    /\ live' = live \cup {issued + 1}
    /\ Resend(t, task[t], Append(pool, issued + 1))
    /\ UNCHANGED <<scenario, accountKey, accountUrl, storedKey, keys, directory,
                   accounts, closed, ops, known>>

-----------------------------------------------------------------------------
(* The server *)

Registered(key) == \E a \in DOMAIN accounts : accounts[a] = key
AccountOf(key) == CHOOSE a \in DOMAIN accounts : accounts[a] = key

\* What the server answers by itself to a request with a live nonce; the
\* key of a deactivated account opens no other.
Authentic(m) ==
    CASE m.op = "account"    -> m.kid = 0 /\ (Registered(m.key) => AccountOf(m.key) \notin closed)
      [] m.op = "certRevoke" -> m.kid = 0 /\ m.key = CertKey
      [] OTHER -> /\ m.kid \in DOMAIN accounts \ closed /\ accounts[m.kid] = m.key
                  /\ m.op = "rollover" => m.saved = m.key /\ m.location = m.kid

Answer(t, result, loc) ==
    task' = [task EXCEPT ![t].pc = "reply", ![t].reply = result,
                         ![t].fresh = issued + 1, ![t].location = loc]

\* The server processes the request of task t and answers with a new nonce.
Process(t) ==
    LET m == task[t] IN
    /\ m.pc = "wire"
    /\ issued' = issued + 1
    /\ live' = (live \ {m.nonce}) \cup {issued + 1}
    /\ \/ /\ m.nonce \notin live
          /\ Answer(t, "badNonce", m.location)
          /\ UNCHANGED <<accounts, closed>>
       \/ /\ m.nonce \in live
          /\ "refuse" \in scenario.faults \/ ~Authentic(m)
          /\ Answer(t, "error", m.location)
          /\ UNCHANGED <<accounts, closed>>
       \/ /\ m.nonce \in live /\ Authentic(m) /\ m.op = "account"
          /\ accounts' = IF Registered(m.key) THEN accounts ELSE Append(accounts, m.key)
          /\ Answer(t, "ok", IF Registered(m.key) THEN AccountOf(m.key)
                             ELSE Len(accounts) + 1)
          /\ UNCHANGED closed
       \/ /\ m.nonce \in live /\ Authentic(m) /\ m.op # "account"
          /\ accounts' = IF m.op = "rollover" THEN [accounts EXCEPT ![m.kid] = m.newKey]
                         ELSE accounts
          /\ closed' = IF m.op = "deactivate" THEN closed \cup {m.kid} ELSE closed
          /\ Answer(t, "ok", m.location)
    /\ UNCHANGED <<scenario, client, ops, spent, known>>

Expire(n) ==
    /\ "expire" \in scenario.faults
    /\ live' = live \ {n}
    /\ UNCHANGED <<scenario, client, accounts, closed, issued, task, ops, spent, known>>

-----------------------------------------------------------------------------
(* The response *)

Finish(t) == task' = [task EXCEPT ![t] = Idle]

\* Mistake: nothing is put back.
FailForgetting(t) ==
    /\ Finish(t)
    /\ UNCHANGED <<accountKey, accountUrl, storedKey, keys, known>>

\* The call raises: create_account puts the account URL it forgot back.
Fail(t) ==
    /\ Finish(t)
    /\ accountUrl' = IF task[t].op = "account" /\ task[t].pc # "directory"
                     THEN task[t].saved ELSE accountUrl
    /\ UNCHANGED <<accountKey, storedKey, keys, known>>

\* Mistake: the new key is adopted after it was saved, or not at all.
SucceedSaveFirst(t) ==
    /\ Finish(t)
    /\ \/ /\ task[t].op = "account"
          /\ accountUrl' = task[t].location
          /\ known' = TRUE
          /\ UNCHANGED <<accountKey, storedKey>>
       \/ /\ task[t].op = "rollover"
          /\ \/ accountKey' = task[t].newKey
                /\ storedKey' = IF scenario.store THEN task[t].newKey ELSE storedKey
             \/ "save" \in scenario.faults /\ UNCHANGED <<accountKey, storedKey>>
          /\ UNCHANGED <<accountUrl, known>>
       \/ /\ task[t].op \in {"request", "deactivate", "certRevoke"}
          /\ UNCHANGED <<accountKey, accountUrl, storedKey, known>>
    /\ UNCHANGED keys

\* The call returns.  rollover_key adopts the new key before it saves it, if
\* there is a store; a failing save is raised.
Succeed(t) ==
    /\ Finish(t)
    /\ \/ /\ task[t].op = "account"
          /\ accountUrl' = task[t].location
          /\ known' = TRUE
          /\ UNCHANGED <<accountKey, storedKey>>
       \/ /\ task[t].op = "rollover"
          /\ accountKey' = task[t].newKey
          /\ \/ storedKey' = IF scenario.store THEN task[t].newKey ELSE storedKey
             \/ "save" \in scenario.faults /\ UNCHANGED storedKey
          /\ UNCHANGED <<accountUrl, known>>
       \/ /\ task[t].op \in {"request", "deactivate", "certRevoke"}
          /\ UNCHANGED <<accountKey, accountUrl, storedKey, known>>
    /\ UNCHANGED keys

\* The response arrives: its nonce is harvested whatever it says, and the
\* first badNonce is retried at once.
Respond(t) ==
    LET m == task[t]
        p == Append(pool, m.fresh)
    IN
    /\ m.pc = "reply"
    /\ \/ /\ m.reply = "ok"
          /\ pool' = p
          /\ Succeed(t)
          /\ UNCHANGED spent
       \/ /\ m.reply = "badNonce" /\ ~m.retried
          /\ Resend(t, [m EXCEPT !.retried = TRUE], p)
          /\ UNCHANGED <<accountKey, accountUrl, storedKey, keys, known>>
       \/ /\ m.reply = "error" \/ (m.reply = "badNonce" /\ m.retried)
          /\ pool' = p
          /\ Fail(t)
          /\ UNCHANGED spent
    /\ UNCHANGED <<scenario, directory, server, ops>>

\* The transport fails before or after the server has seen the request.
Lose(t) ==
    /\ "lose" \in scenario.faults
    /\ task[t].pc # "idle"
    /\ Fail(t)
    /\ UNCHANGED <<scenario, pool, directory, server, ops, spent>>

\* CancelledError is not an Exception: nothing is put back.
Cancel(t) ==
    /\ "cancel" \in scenario.faults
    /\ task[t].pc # "idle"
    /\ Finish(t)
    /\ UNCHANGED <<scenario, client, server, ops, spent, known>>

\* A new process starts with what the store holds, or constructs the client
\* with any key there was.
Restart ==
    /\ "restart" \in scenario.faults
    /\ accountKey' \in IF scenario.given THEN 0..keys ELSE {0}
    /\ pool' = <<>> /\ accountUrl' = 0 /\ directory' = FALSE
    /\ task' = [t \in Tasks |-> Idle]
    /\ known' = FALSE
    /\ UNCHANGED <<scenario, storedKey, keys, server, ops, spent>>

-----------------------------------------------------------------------------
Next ==
    \/ \E t \in Tasks :
         \/ CreateAccount(t) \/ Request(t) \/ RolloverKey(t)
         \/ DeactivateAccount(t) \/ RevokeWithCertKey(t)
         \/ DirectoryArrives(t) \/ NonceArrives(t) \/ Process(t) \/ Respond(t)
         \/ Lose(t) \/ Cancel(t)
    \/ \E n \in live : Expire(n)
    \/ SaveNewKeyFails
    \/ Restart

Spec == Init /\ [][Next]_vars

-----------------------------------------------------------------------------
(* Properties *)

\* However tasks interleave, whatever is lost or cancelled, a nonce is never
\* in the pool twice and never again after it was put on the wire.
NoncesAreSentOnce ==
    /\ \A i, j \in DOMAIN pool : pool[i] = pool[j] => i = j
    /\ \A i \in DOMAIN pool : pool[i] \notin spent
    /\ \A s, t \in Tasks :
          task[s].pc = "wire" /\ task[t].pc = "wire"
            /\ task[s].nonce = task[t].nonce => s = t

\* The retry after badNonce uses the nonce that came with the rejection, not
\* an older one another task left in the pool: the pool is last in, first out
\* and nothing runs between the response and the retry.
RetryUsesFreshNonce ==
    [][\A t \in Tasks :
         task[t].pc = "reply" /\ task'[t].pc \in {"head", "wire"} =>
             task'[t].pc = "wire" /\ task'[t].nonce = task[t].fresh]_vars

\* No refusal is the client's own fault.  If the server forgets no nonce, the
\* pool holds only nonces it accepts and badNonce never comes.  An
\* application that manages the account alone, with a server that refuses
\* nothing by itself, is refused only after it deactivated its account, not
\* even by a process that starts from a store an interrupted or failed key
\* change left behind: every request is signed by the key and under the URL
\* the server knows, or by the certificate's own key and under none.
NothingIsRefused == \A t \in Tasks : task[t].pc = "reply" =>
    /\ "expire" \notin scenario.faults => task[t].reply # "badNonce"
    /\ /\ scenario.exclusive /\ scenario.faults \subseteq {"expire", "save", "restart"}
       /\ task[t].reply = "error"
       => closed # {} /\ task[t].op # "certRevoke"

\* When no key change is under way, the key in memory is the one the server
\* has for the account URL in use, also when saving it failed; unless it
\* did, a store holds that key too, if the client was not given another one.
KeyMatchesServer ==
    /\ scenario.exclusive /\ scenario.faults \cap {"lose", "cancel"} = {}
    /\ accountUrl # 0 /\ ~Running("rollover")
    => /\ accountUrl \in DOMAIN accounts /\ accounts[accountUrl] = accountKey
       /\ scenario.store /\ ~scenario.given /\ "save" \notin scenario.faults =>
             storedKey = accountKey

\* Once create_account has returned, the client has an account URL whenever
\* no create_account is running ("If create_account fails, _account_url
\* should be restored").
AccountUrlKept == known /\ ~Running("account") => accountUrl # 0

\* It is so if create_account runs alone and is not cancelled.
AccountUrlKeptAlone ==
    scenario.exclusive /\ "cancel" \notin scenario.faults => AccountUrlKept
=============================================================================
