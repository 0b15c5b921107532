---------------------------- MODULE ACMEResponder ----------------------------
(***************************************************************************)
(* The embedded ACME server of lacme/acme_server.py: accounts, orders,     *)
(* authorizations and certificates kept in dictionaries, and the handlers  *)
(* that change them.                                                       *)
(*                                                                         *)
(* A handler runs without interruption up to its next await.  The only     *)
(* await between two state changes is the one on the challenge validator,  *)
(* so with all requests on one event loop the signing of a certificate     *)
(* excludes every other step.  With requests on several threads only the   *)
(* sections under self._lock exclude each other.  The one section that     *)
(* looks something up and then writes what depends on it, newAccount's, is *)
(* modelled in two steps with the lock held in between; each other section *)
(* is a step.                                                              *)
(*                                                                         *)
(* Not modelled, because they change nothing here: directory, nonce,       *)
(* authorization, certificate and CA-root reads, key-change and revoke     *)
(* (accepted without effect), and requests refused with 400 or 404.        *)
(***************************************************************************)
EXTENDS Naturals, Sequences, FiniteSets, Functions

CONSTANTS
    Keys,        \* thumbprints of account keys
    IdLists,     \* identifier arrays clients put in newOrder
    Csrs,        \* identifier sets of the CSRs clients send
    Requests,    \* requests whose handlers take more than one step
    Approvals,   \* how challenges are decided: "auto", "validator", "none"
    MaxOrders,   \* bound on orders
    MaxCerts     \* bound on certificates

Identifier == [kind : {"dns", "ip"}, wildcard : BOOLEAN, name : STRING]

ASSUME ResponderAssumption ==
    /\ IdLists \subseteq Seq(Identifier) \ {<<>>}
    /\ Approvals \subseteq {"auto", "validator", "none"}
    /\ MaxOrders \in Nat
    /\ MaxCerts \in Nat

VARIABLES
    approval,    \* the constructor's choice, never changed
    threaded,    \* are requests served by several threads? never changed
    accounts,    \* accounts[n]: thumbprint of the n-th account
    orders,      \* orders[o]: identifiers, status, number of its certificate
    authzs,      \* authzs[o][i]: authorization for the i-th identifier of o
    certs,       \* certs[c]: the order and the identifiers it was issued for
    slot         \* slot[r]: where request r is inside its handler

fixed == <<approval, threaded>>
vars == <<fixed, accounts, orders, authzs, certs, slot>>

OrderStatus == {"pending", "ready", "valid"}
AuthzStatus == {"pending", "valid", "invalid"}
ChallengeStatus == AuthzStatus \cup {"processing"}
Order == [ids : IdLists, status : OrderStatus, cert : Nat]
Authorization == [status : AuthzStatus, challenge : ChallengeStatus]
Certificate == [order : Nat, ids : SUBSET Identifier, csr : Csrs]

Idle == [pc |-> "idle"]
Registering == [pc : {"registering"}, key : Keys, known : BOOLEAN]
Validating == [pc : {"validating"}, order : Nat, authz : Nat]
Signing == [pc : {"signing"}, order : Nat, csr : Csrs]

\* Every variable has its type; each order has one authorization per
\* identifier (the loop of _handle_new_order), and a request with the
\* validator or the CA works on an order and an authorization that exist.
TypeOK ==
    /\ approval \in Approvals /\ threaded \in BOOLEAN
    /\ accounts \in Seq(Keys)
    /\ orders \in Seq(Order)
    /\ authzs \in Seq(Seq(Authorization))
    /\ DOMAIN authzs = DOMAIN orders
    /\ \A o \in DOMAIN orders : DOMAIN authzs[o] = DOMAIN orders[o].ids
    /\ certs \in Seq(Certificate)
    /\ slot \in [Requests -> {Idle} \cup Registering \cup Validating \cup Signing]
    /\ \A r \in Requests :
         /\ slot[r] \in Validating \cup Signing => slot[r].order \in DOMAIN orders
         /\ slot[r] \in Validating =>
                slot[r].authz \in DOMAIN authzs[slot[r].order]

Init ==
    /\ approval \in Approvals /\ threaded \in BOOLEAN
    /\ accounts = <<>>
    /\ orders = <<>>
    /\ authzs = <<>>
    /\ certs = <<>>
    /\ slot = [r \in Requests |-> Idle]

-----------------------------------------------------------------------------
\* No request is inside a handler without having awaited: the event loop may
\* run another one.  Threads do not wait for each other.
LoopIsFree == threaded \/ \A q \in Requests : slot[q] \notin Registering \cup Signing

\* No request holds self._lock.
LockIsFree == \A q \in Requests : slot[q] \notin Registering

\* A handler may run, through a section under the lock.
MayEnter == LoopIsFree /\ LockIsFree

AllValid(o) == \A i \in DOMAIN authzs[o] : authzs[o][i].status = "valid"

\* Mistake: one valid authorization is enough.
SettledByOne(o) ==
    IF orders[o].status = "pending" /\ \E i \in DOMAIN authzs[o] : authzs[o][i].status = "valid"
    THEN "ready" ELSE orders[o].status

\* The status of order o after the pending -> ready transition that both
\* _handle_order and _handle_finalize apply before they look at it.
Settled(o) ==
    IF orders[o].status = "pending" /\ AllValid(o) THEN "ready"
                                                   ELSE orders[o].status

SetAuthz(o, i, s) ==
    authzs' = [authzs EXCEPT ![o][i] = [status |-> s, challenge |-> s]]

-----------------------------------------------------------------------------
\* Mistake: the lookup is made before the lock is taken.
BeginAccountUnlocked(r, k) ==
    /\ LoopIsFree
    /\ slot[r] = Idle
    /\ slot' = [slot EXCEPT ![r] =
                   [pc |-> "registering", key |-> k, known |-> k \in Range(accounts)]]
    /\ UNCHANGED <<fixed, accounts, orders, authzs, certs>>

\* newAccount takes the lock and looks for an account with the request's key.
BeginAccount(r, k) ==
    /\ MayEnter
    /\ slot[r] = Idle
    /\ slot' = [slot EXCEPT ![r] =
                   [pc |-> "registering", key |-> k, known |-> k \in Range(accounts)]]
    /\ UNCHANGED <<fixed, accounts, orders, authzs, certs>>

\* ... adds one if it found none, and releases the lock.  A known key (200)
\* and onlyReturnExisting (400) change nothing.
EndAccount(r, onlyReturnExisting) ==
    /\ slot[r] \in Registering
    /\ accounts' = IF slot[r].known \/ onlyReturnExisting
                   THEN accounts ELSE Append(accounts, slot[r].key)
    /\ slot' = [slot EXCEPT ![r] = Idle]
    /\ UNCHANGED <<fixed, orders, authzs, certs>>

\* Mistake: only the first identifier gets an authorization.
NewOrderFirstOnly(ids) ==
    /\ MayEnter
    /\ Len(orders) < MaxOrders
    /\ orders' = Append(orders, [ids |-> ids, status |-> "pending", cert |-> 0])
    /\ authzs' = Append(authzs, <<[status |-> "pending", challenge |-> "pending"]>>)
    /\ UNCHANGED <<fixed, accounts, certs, slot>>

NewOrder(ids) ==
    /\ MayEnter
    /\ Len(orders) < MaxOrders
    /\ orders' = Append(orders, [ids |-> ids, status |-> "pending", cert |-> 0])
    /\ authzs' = Append(authzs, [i \in DOMAIN ids |->
                         [status |-> "pending", challenge |-> "pending"]])
    /\ UNCHANGED <<fixed, accounts, certs, slot>>

\* POST of a challenge URL: a wildcard has no http-01 URL, an IP address no
\* dns-01 URL.
Offers(id, type) == IF type = "http-01" THEN ~id.wildcard ELSE id.kind = "dns"

Challenge(r, o, i, type) ==
    /\ MayEnter
    /\ slot[r] = Idle
    /\ Offers(orders[o].ids[i], type)
    /\ \/ /\ approval = "auto"
          /\ SetAuthz(o, i, "valid")
          /\ UNCHANGED slot
       \/ /\ approval = "validator"
          /\ slot' = [slot EXCEPT ![r] =
                         [pc |-> "validating", order |-> o, authz |-> i]]
          /\ UNCHANGED authzs
       \/ /\ approval = "none"
          /\ authzs' = [authzs EXCEPT ![o][i].challenge = "processing"]
          /\ UNCHANGED slot
    /\ UNCHANGED <<fixed, accounts, orders, certs>>

\* The validator answers; whatever happened to the authorization meanwhile,
\* the answer is written.
Validated(r, ok) ==
    /\ MayEnter
    /\ slot[r] \in Validating
    /\ SetAuthz(slot[r].order, slot[r].authz, IF ok THEN "valid" ELSE "invalid")
    /\ slot' = [slot EXCEPT ![r] = Idle]
    /\ UNCHANGED <<fixed, accounts, orders, certs>>

\* The validator raises, or the client goes away while it runs.
ValidatorRaises(r) ==
    /\ LoopIsFree
    /\ slot[r] \in Validating
    /\ slot' = [slot EXCEPT ![r] = Idle]
    /\ UNCHANGED <<fixed, accounts, orders, authzs, certs>>

\* Mistake: the status is computed afresh.
GetOrderAfresh(o) ==
    /\ MayEnter
    /\ orders' = [orders EXCEPT ![o].status = IF AllValid(o) THEN "ready" ELSE "pending"]
    /\ UNCHANGED <<fixed, accounts, authzs, certs, slot>>

GetOrder(o) ==
    /\ MayEnter
    /\ orders' = [orders EXCEPT ![o].status = Settled(o)]
    /\ UNCHANGED <<fixed, accounts, authzs, certs, slot>>

\* Mistake: a CSR for some of the identifiers is accepted.
CsrIsCovered(o, csr) == csr \subseteq Range(orders[o].ids)

\* decode_and_validate_csr accepts a CSR that carries exactly the order's
\* identifiers.
CsrMatches(o, csr) == csr = Range(orders[o].ids)

\* Mistake: a completed order can be finalized again.
FinalizeAgain(r, o, csr) ==
    /\ MayEnter
    /\ slot[r] = Idle
    /\ Settled(o) \in {"ready", "valid"}
    /\ CsrMatches(o, csr)
    /\ orders' = [orders EXCEPT ![o].status = Settled(o)]
    /\ slot' = [slot EXCEPT ![r] =
                   [pc |-> "signing", order |-> o, csr |-> csr]]
    /\ UNCHANGED <<fixed, accounts, authzs, certs>>

\* finalize up to the call of the CA.  A bad CSR is refused only after the
\* order was made ready.
Finalize(r, o, csr) ==
    /\ MayEnter
    /\ slot[r] = Idle
    /\ Settled(o) = "ready"
    /\ orders' = [orders EXCEPT ![o].status = "ready"]
    /\ \/ /\ CsrMatches(o, csr)
          /\ slot' = [slot EXCEPT ![r] =
                         [pc |-> "signing", order |-> o, csr |-> csr]]
       \/ /\ ~CsrMatches(o, csr)
          /\ UNCHANGED slot
    /\ UNCHANGED <<fixed, accounts, authzs, certs>>

\* The CA has signed: number the certificate and complete the order.
Signed(r) ==
    /\ LockIsFree
    /\ slot[r] \in Signing
    /\ Len(certs) < MaxCerts
    /\ LET o == slot[r].order IN
       /\ certs' = Append(certs, [order |-> o, ids |-> Range(orders[o].ids),
                                  csr |-> slot[r].csr])
       /\ orders' = [orders EXCEPT ![o].status = "valid",
                                   ![o].cert = Len(certs) + 1]
    /\ slot' = [slot EXCEPT ![r] = Idle]
    /\ UNCHANGED <<fixed, accounts, authzs>>

\* issue_from_csr raises: the request fails, the order stays as it was.
SigningFails(r) ==
    /\ slot[r] \in Signing
    /\ slot' = [slot EXCEPT ![r] = Idle]
    /\ UNCHANGED <<fixed, accounts, orders, authzs, certs>>

-----------------------------------------------------------------------------
ClientStep ==
    \/ \E r \in Requests, k \in Keys : BeginAccount(r, k)
    \/ \E ids \in IdLists : NewOrder(ids)
    \/ \E r \in Requests, o \in DOMAIN orders, csr \in Csrs : Finalize(r, o, csr)
    \/ \E o \in DOMAIN orders : GetOrder(o)
    \/ \E r \in Requests, o \in DOMAIN orders : \E i \in DOMAIN authzs[o] :
          \E type \in {"http-01", "dns-01"} : Challenge(r, o, i, type)

ServerStep ==
    \E r \in Requests :
        \/ \E only \in BOOLEAN : EndAccount(r, only)
        \/ \E ok \in BOOLEAN : Validated(r, ok)
        \/ ValidatorRaises(r)
        \/ Signed(r)
        \/ SigningFails(r)

Next == ClientStep \/ ServerStep

Spec == Init /\ [][Next]_vars

-----------------------------------------------------------------------------
(* Properties *)

\* newAccount never registers a second account for one key, even if clients
\* with one key register from several threads at once: between one request's
\* lookup and its insertion no other request may look.  A client that lost
\* its account URL finds the same account again (create_account relies on it
\* when the account key is loaded from the store).
OneAccountPerKey ==
    \A m, n \in DOMAIN accounts : accounts[m] = accounts[n] => m = n

\* On one event loop an order receives exactly one certificate: every
\* certificate in self._certificates is the one its order points to.
OneCertificatePerOrder ==
    ~threaded => \A c \in DOMAIN certs : orders[certs[c].order].cert = c

\* Even when several threads finalize one order, its certificate URL leads to
\* a certificate for that order, and every certificate carries the
\* identifiers its order authorized and its CSR asked for.
CertificatesMatchOrders ==
    /\ \A o \in DOMAIN orders :
          orders[o].status = "valid" =>
              /\ orders[o].cert \in DOMAIN certs
              /\ certs[orders[o].cert].order = o
    /\ \A c \in DOMAIN certs :
          /\ certs[c].order \in DOMAIN orders
          /\ certs[c].ids = Range(orders[certs[c].order].ids)
          /\ certs[c].csr = certs[c].ids

\* An order leaves pending only at a moment when all its authorizations are
\* valid, never goes back although an authorization may turn invalid later,
\* and nothing about a completed order changes, except that a second thread
\* may give it another certificate.
OrdersMoveForward ==
    [][\A o \in DOMAIN orders :
         /\ orders[o].status = "pending" =>
                orders'[o].status = "pending" \/ AllValid(o)
         /\ orders[o].status = "ready" => orders'[o].status \in {"ready", "valid"}
         /\ orders[o].status = "valid" =>
                \/ orders'[o] = orders[o]
                \/ threaded /\ orders'[o] = [orders[o] EXCEPT !.cert = orders'[o].cert]]_vars

\* The responder implements the promise about orders.
Promise == INSTANCE OrderLifecycle WITH
    status <- [o \in DOMAIN orders |-> orders[o].status],
    issued <- [c \in DOMAIN certs |-> certs[c].order]

ImplementsOrderLifecycle == Promise!Spec
=============================================================================
