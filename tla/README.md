# lacme in TLA+

`lacme` is a Python ACME (RFC 8555) client library with a private certificate
authority, an embedded ACME server, a certificate store, renewal and framework
glue. This directory holds TLA+ modules of its stateful parts, the TLC
configurations that check them on small instances, and TLAPS proofs of the
properties that carry most weight. Line numbers refer to `src/lacme/`.

## 1. Inventory

| Part | State | Operations | Talks to | What is hard | What makes it correct |
|---|---|---|---|---|---|
| `client.py`, session part | `_nonces` (stack), `_account_key`, `_account_url`, cached directory | `_signed_request` with badNonce retry, `create_account`, `deactivate_account`, `rollover_key`, `revoke_with_cert_key`, every signed call | ACME server (HTTP), store (account key) | tasks interleave at every await; lost answers; failing save after the server changed its key; cancellation; restart | a nonce is sent once; key, URL and server agree; the stored key reaches the account |
| `client.py`, `issue()` | local: order, authorizations, list of provisioned challenges; shared: tracker, store | rate check, order, provision/respond loop, four polling loops, finalize, download, cleanup, checks, save, record | ACME server, challenge handler, tracker, store, events | failures and cancellation between any two awaits; a server that answers late, early or never; concurrent calls | responses are there while validation runs; all are removed; what is returned is complete; every call ends |
| `challenges/` (dns01, http01, providers) | `_records`, `_challenges`, provider record ids | provision, propagation wait, deprovision | DNS APIs, HTTP validators | a record created but not remembered; two values under one name; a change that goes on after its caller was cancelled | records exist exactly while needed |
| `store.py` | files under one base directory | save/load/delete/list certificates, account key, root | file system; other processes | four files replaced one by one; crashes; concurrent readers and writers; directories shared by case | files that are read together belong together |
| `ca.py` | `_root_cert`, `_root_key`; two files | `init`, `issue`, `issue_from_csr` | store, events | root written as two files after it is in memory; several processes | leaves verify, under one root |
| `acme_server.py` | `_accounts`, `_orders`, `_authorizations`, `_certificates` | one handler per ACME resource | CA, challenge validator, ASGI server | the validator is awaited in mid-handler; the CA runs outside the lock; requests on threads | orders only move forward; one certificate, for exactly the order's identifiers |
| `ratelimit.py` | list of records, one JSON file | `check`, `record`, pruning | `issue()` | read-modify-write of a file; window against pruning age | no issuance inside the window is forgotten |
| `renewal.py` | `_task` | `run`, `check_and_renew`, `start`, `stop` | client or CA, store, events | start and stop around an await; one failing renewal among many | one loop at a time; every expiring certificate is retried |
| `sync.py` | runner or background loop with its thread, `_is_open` | `open`, `run`, `close`, one blocking method per client method | client, events | calls from several threads around `close`; a handler that blocks; a callback that calls the client | every call returns; the HTTP client is closed before its loop |
| `events.py`, `metrics.py` | callback lists | `subscribe`, `unsubscribe`, `emit`, `emit_sync` | user callbacks | callbacks and threads that subscribe and unsubscribe during an emission | no deadlock, nobody is skipped or called twice |
| `_identifiers.py` | none of its own; what it compares lives in orders, CSRs, certificates and bundles | normalisation, CSR against order, bundle against metadata | client, server, CA, renewal | type, spelling, order and repetition each survive in some of those places only | exact equality of typed sets; a renewal asks for what was asked for first |
| `_types, models, _jose, crypto, errors` | none | parsing, encoding, signatures | everything | - | - |
| `cli.py`, `mtls.py`, `asgi/starlette/ext_fastapi/uvicorn`, `testing.py` | none of their own | argument parsing, SSL contexts, adapters, test doubles | everything | - | - |

`ACMEResponder` implements a server; `ClientSession` and `Issue` treat the
server they talk to as external (any RFC 8555 CA). The parts meet in these
places: `issue()` runs on the session's signed requests, drives a challenge
handler and its DNS provider, asks the tracker before and tells it after, saves
into the store and emits events; the renewal loop lists the store, calls
`issue()` or the CA and saves; the responder calls the CA; the CA keeps its
root in the store; the synchronous client runs the client's coroutines, and the
callbacks of its events, on a loop that belongs to it; identifiers pass through
all of them.

## 2. Modules

| Module | Models | State | Actions |
|---|---|---|---|
| `OrderLifecycle` | what a server promises about its orders (abstract) | status of orders, orders of certificates | `Open`, `BecomeReady`, `Certify` |
| `ACMEResponder` | `acme_server.py` | `accounts`, `orders`, `authzs`, `certs` are the dictionaries; `slot[r]` is a request inside a handler of several steps | one action per handler that changes state; `_handle_new_account` is split between the lookup and the insertion, with the lock held (`BeginAccount`, `EndAccount`), `_handle_challenge` is split at the await on the validator (`Challenge`, `Validated`, `ValidatorRaises`), `_handle_finalize` at the call of the CA outside the lock (`Finalize`, `Signed`, `SigningFails`) |
| `ClientSession` | `Client.directory`, `_signed_request`, `create_account`, `deactivate_account`, `rollover_key`, `revoke_with_cert_key`, account key in the store, or given to the constructor | `pool`, `accountKey`, `accountUrl`, `storedKey`, `directory` are the attributes; `task[t]` is the request a task waits for | one step per response: what the code does from one response to the next request is one action, because asyncio switches tasks at awaits only |
| `ChallengeHandlers` | `challenges/http01.py`, `challenges/dns01.py`, the three DNS providers | none: operators on the set of published responses | `Publish`, `Withdraw`, `Answers`; who shares a record name |
| `Issue` (extends `ChallengeHandlers`) | `Client.issue` over any of those handlers | `pc[c]` is the await a call is suspended at, `provisioned[c]` the list it cleans up from, `records` the responses that exist, `tracked` those the DNS-01 handler remembers, `late` changes of cancelled calls still on their way | one action per stretch between awaits; `finally` is one removal per step, the final checks, the save and the record are one step because nothing is awaited there |
| `FileStore` | `save_cert`, `load_cert`, `list_certs`, `delete_cert` on one directory | `file[f]`: which save wrote file `f`; `dir`: the domain the directory is named after | one file read, written or removed per step |
| `CertAuthority` | `CertificateAuthority` with `save_ca`, `load_ca` | `disk`, `mem[p]`: the roots of the two files and of the two attributes | one file per step; `init`, `issue` of several processes |
| `RateLimit` | `RateLimitTracker`, `FileRateLimitStore`, registered domains | `file`: the records; `issuances`: what the CA counts; `thread[t]`: local variables | one domain per step of `check` and `record`; the file is read and replaced in two steps with the lock of the thread's store held between them |
| `EventDispatcher` | `events.py`, the counters of `metrics.py` | `typed`, `global` are the subscription lists; `snapshot[t]`, `at[t]` the copy an emission walks through | `Subscribe`, `Unsubscribe`, `BeginEmission`, `CallNext`, `EndEmission`, and `AbandonEmission` if it is cancelled where a callback awaits |
| `SyncClient` (extends `EventDispatcher`) | `sync.py` | `isOpen`, `refs`, `loop` are the runner's attributes and its event loop; `pc[t]` where a thread is in `run` or `close`; `task[t]` the coroutine it waits for | `run` and `close` line by line where another thread can come between; the loop's own steps are separate actions |
| `Identifiers` | `_identifiers.py` and its uses in `client.py`, `crypto.py`, `acme_server.py`, `ca.py`, `renewal.py` | `asked`, `csr`, `sans`, `store`: the identifiers of one certificate in each of the forms they pass through | `Ask`, `Authorize`, `Finalize`, `CheckAndSave`, then `Renew` as often as the bound allows; `OtherClient` and `IssueFromCSR` for CSRs that `lacme` did not make |
| `Renewal` | `RenewalManager` | `task` is `_task`; `loop[k]`: the tasks that were ever started; `waiting[c]`: a `stop()` suspended at its await | `Start`, `Stop`, `StopReturns`, one sweep as `BeginSweep`, `Renew`, `EndSweep` |

Theorems and proofs are in modules of their own that extend the module they are
about: `ACMEResponder_proofs`, `ClientSession_proofs`, `Issue_proofs`,
`RateLimit_proofs`, `Renewal_proofs`, `Identifiers_proofs`, `SyncClient_proofs`
(about `EventDispatcher` too), and `Storage_proofs` about both `FileStore` and
`CertAuthority`.

Every `MC*` module only gives constants their values. Operators commented
"Mistake" are plausible errors of the code; no action uses them. Each
is put in place of the operator it is a variant of to see that a property really
notices the error.

Data are abstracted to what the properties tell apart: a certificate is the
save, order or key it came from; a key or a nonce is a number; a domain name is
a sequence of labels in `RateLimit`, a name with a spelling in `Identifiers`,
and a model value elsewhere. Faults are
chosen once per behaviour from the `Scenarios` or `FaultSets` of a
configuration, so that one run can check both what holds without a fault
and what survives it; every action of the environment that models a
fault has the fault's name in its guard.

## 3. Runs and what they show

Bounds are in the `.cfg` files and named in each module's CONSTANTS.

**`responder`** (122 000 states). Two requests that register accounts and work
on two orders (one with an apex and
its wildcard, one with an IP address), CSRs that match, match in part or belong
to the other order, all three ways to decide challenges, on one event loop and
on threads. Two requests are enough for a validator to answer after another
request, and for two signings of one order; three certificates leave room for a
second one. It shows that accounts are unique (`OneAccountPerKey`), also when two
threads register one key at once and look before either has inserted, that
certificates and orders match (`CertificatesMatchOrders`), also when two threads
finalize an order at once, that on one loop no order has two certificates
(`OneCertificatePerOrder`), that an order leaves `pending` only with all authorizations valid and never falls back
(`OrdersMoveForward`), and that all this implements `OrderLifecycle`
(`ImplementsOrderLifecycle`). On threads a second certificate for an order is
reachable: the model says so instead of hiding it.

**`session`** (2.7 million states). Two tasks, up to four operations and four
keys, a client with and without a store, with and without a key passed to its
constructor (any key there was, after a restart). Overlapping use of the client
with expiring nonces, refusals, lost answers, cancellation and restarts, and
disciplined use (`exclusive`: nothing
signed with the account key overlaps a change of the account) with failing
saves, deactivation and restarts. The directory may still be missing, so that
several tasks ask for it; `revoke_with_cert_key` runs beside everything else.
Nonces are put on the wire once and the pool never holds a used one
(`NoncesAreSentOnce`); the badNonce retry uses the nonce it was just given
although other tasks use the pool (`RetryUsesFreshNonce`); no refusal is the
client's own fault (`NothingIsRefused`); key, URL and stored key agree with the
server after any legal sequence of create, rollover, failing save and restart
(`KeyMatchesServer`, `AccountUrlKeptAlone`). Their antecedents name what breaks
them: a lost answer to a key change leaves client and server with different
keys, a deactivated account is refused for ever because key and URL stay, and a
cancelled `create_account` loses the URL. The code has no remedy for any of
these. A client that is given its key may be given another one than the store
holds: the stored key is compared for the others.

**`issue`** (519 000 states). Two calls with two authorizations each, in five
scenarios that cover the four handlers (HTTP-01, Cloudflare, Route 53, hook),
record names shared between the identifiers of a call and between calls, and
every failure kind: a failing or refusing server, a handler that raises before
or after its effect, slow propagation, failing removal, cancellation with a
provider that goes on, a failing store or tracker. Responses stay available
while they are validated (`ResponseAvailable`: with several values under one
name and late effects of cancelled calls, unless the provider replaces record
sets). What is returned was validated, is issued for the call's own key, stored
and counted (`IssuedIsComplete`); everything is removed (`CleanedUp`); an
exception survives the cleanup and says truly what was stored and counted
(`FailureIsNotMasked`); calls one after another keep the limit
(`ReturnedWithinLimit`); every call ends (`CallsEnd`). `MaxPolls = 1` lets each
polling loop poll, find nothing, and run into its timeout; a higher number
repeats the same states.

**`store`** (179 000 states). Three saves of two domains that share a directory,
deletions, one reader that loads or lists, saves or deletions cut short at any
file. Metadata are never newer than what lies beside them, on disk and in what a
concurrent reader returns (`MetaIsOldest`), so a broken directory looks due for
renewal and not fresh; another domain's bundle is not overwritten and the
directory can be listed (`OneOwner`); undisturbed saves and deletions leave
whole bundles (`SettledIsWhole`). Three saves are needed: one cut short, one
complete, one being read meanwhile. A save that is cut before its metadata
leaves a directory that a domain with another spelling may fill later; its name
is then wrong and every listing of the store raises: `OneOwner` excludes it.
Changes by two processes at once (the fault "overlap") break all of these and
are left out of the run.

**`authority`** (7 800 states). Three processes, four roots, crashes and failing
writes after a first `init()` that ran alone: leaves verify (`LeavesVerify`),
under one root, which a restart finds (`OneAuthorityIfSaved`).

**`sync`** (190 000 states). Two threads with two operations each in both runner
modes, seven scenarios: a challenge handler that never returns, callbacks that
raise, are coroutines, unsubscribe themselves, subscribe another one, call the
client or close it, in each mode also callbacks that do neither, threads that
close while others call. A cancelled emission ends where a callback awaits or goes
on to the end. The HTTP client is
closed before its loop stops, and a `close()` that returns leaves neither loop
nor thread behind (`ClosedInOrder`); each callback that stays subscribed is
called exactly once per event (`EventsDelivered`); who waits for a coroutine waits
for a loop that runs (`WaitsForRunningLoop`), and every blocking call returns,
also beside another thread's stuck handler (`CallsReturn`). The conditions of
the last two are about what the code does not guard against: in thread mode a
callback that calls the client on its own loop waits for itself, and a
`close()` that overtakes another thread's call leaves that call waiting for a
future nobody completes. In runner mode a callback that calls `close()` cancels
the call it runs in and leaves the HTTP client open. Runner mode is
restricted to one thread, because `asyncio.Runner` is.

**`identifiers`** (5 600 states). Nine requests with an apex and its wildcard,
names in two spellings, repeated names, addresses of both families and a DNS
name that reads like an address; every assignment of challenge types; the
responder, a public CA that lower-cases, reorders and removes repetitions, and a CA
that answers with other identifiers or offers fewer authorizations; CSRs of other clients with up to two common
names and two SANs against ten orders; up to three calls of `issue()`, so two
renewals. The responder signs if and only if the CSR describes exactly the
order (`CSRBinding`, stated without the code's case distinction on common
names); only certificates of exactly the typed identifiers are stored and
handlers see the caller's own text, for every identifier unless the authority offers
too few authorizations, which the code does not notice (`IdentifiersKept`); a renewal asks for the
same identifiers and replaces the entry it renews (`RenewalReplaces`). Its
condition `Regular` names three ways a certificate falls out of renewal: names
the CA spells otherwise (below), names that are equal but for case with a CA
that merges them (metadata and certificate then differ in number and every
renewal raises), and identifiers that needed two challenge types, because the
manager has one. Two further renewals repeat the same states: a renewal's
result is what the next one starts from.

**`ratelimit`** (1.9 million states). Two threads that share a
`FileRateLimitStore`, hence a lock, or have one each, in one process or two;
trackers that refuse and trackers that only warn; orders that name two
registered domains, a wildcard in upper case, a bare domain under a second-level
suffix; a limit of one, windows equal to and shorter than the pruning age,
three units of time so that records age, leave the window and are pruned. The CA
counts by itself, by public suffix and by the time it issued. One issuance after
another never exceeds the limit (`LimitKept`), and nothing recorded is lost to
threads of one store, crashes or failing writes (`NothingForgotten`). An order
is refused only if the CA's own window is full for one of its names
(`RefusalIsDue`), where the window begins earlier by the time it took to record
the certificates: a record bears the time it was made, so a certificate issued
at 0 and recorded at 1 does refuse an order at 3 with a window of 2, although
the CA would accept it. Recorded in the instant they are issued, certificates
refuse nothing the CA would accept.

**`renewal`** (1.4 million states). Two certificates with every initial expiry,
an interval, jitter and sweep of one unit each, two tasks that start, stop and
cancel, where none starts while a stop waits (`Alone`; `renewal_restart` drops
the condition). The running loop is always the one the manager can stop
(`Stoppable`); when
`days_before_expiry` covers an interval, its jitter and two sweeps, no
certificate expires unless its own renewal or the listing failed
(`NoneExpires`). `Days` is exactly at the boundary of `Provident`; five
units of time contain two whole cycles. The bound on time ends behaviours, so
`CHECK_DEADLOCK FALSE`; in the other modules bounds on operations do.

### Disagreements with what the repository says

Each has a run that finds the behaviour and a neighbour property that shows
under which condition the statement does hold.

| Run | Statement | What the code does | Holds when |
|---|---|---|---|
| `renewal_restart` | `start()` raises if a task is running (docstring) | `stop()` clears `_task` after its await, also when it is a new task by then; the next `start()` runs a second loop | `Stoppable`: no start while a stop waits |
| `issue_upsert` | `UPSERT` is idempotent and safe, and an apex is issued with its wildcard through Route 53 (guide) | the second response replaces the first under the common record name; the server may look for the first afterwards | `ResponseAvailable`: no shared record name, or a provider that adds |
| `identifiers_case` | stored keys use unchanged strings and `RenewalManager` recovers the identifiers (guide) | a renewal takes the certificate's spelling; stored under "Host", the certificate is renewed as "host" beside the old entry, which stays and is renewed again in every sweep. The recovery itself is meant to answer in the certificate's spelling (`test_renewal.py:182-194`); what becomes of the stored key is tested nowhere | `RenewalReplaces`: names asked for as the CA spells them |

Four statements are refuted by the code but keep only the conditioned property,
whose condition names what is needed: `AccountUrlKept` (a cancelled
`create_account` does not restore the URL, `client.py:426`), `NothingLeftBehind`
(a record whose propagation wait times out or is cancelled is never removed,
`client.py:929`), `OneAuthority` (two first `init()`s at once sign under two
roots, `ca.py:96`), and the tracker's limit under concurrent calls (the check is
before the first await, the record after the last, `client.py:879`). Each
definition is in its module; giving it to TLC as an invariant shows the
behaviour.

### Fairness

`Issue` and `SyncClient` have liveness properties and state weak fairness.

In `Issue` it is the steps of each call. Each step follows an await that ends,
because every HTTP request, the propagation wait and each polling loop has a
timeout, and the event loop runs every task that is ready. Nothing is assumed of
the server (validation and issuance may never happen), of faults, of
cancellation or of late effects.

In `SyncClient` it is the steps of each thread once it is inside the client, of
each coroutine on the loop, and of the loop's stop: the operating system runs
every thread, asyncio's ready queue is first in first out, and requests and
callbacks end (those that do not are a scenario: the stuck handler, the callback
that blocks the loop). Whether a thread begins an operation is the
application's choice and has no fairness.

All other specifications are safety only; a process may stop anywhere.

## 4. Proofs

Every theorem holds for all values of the constants that satisfy the module's
assumption; none relies on the bounds of the runs. The assumptions are the
named ASSUMEs: bounds are numbers, scenarios are of the declared type, and what
the code checks itself (identifier arrays are not empty, for instance).
`FileStore` needs in addition that `"none"`, the directory without a name, is no
domain. `SyncClient` has finitely many threads; no callback is subscribed twice
at first, a callback that subscribes another one has one to subscribe, and what calls
the client from a callback does so from a callback of the loop, not of
`check_rate_limits`, which runs in the calling thread. Where a theorem has a hypothesis of its own it is listed below.

Most of the safety properties are not inductive: they say what must be true at the
end of something, and the proof needs what is true on the way. The named
invariants below were given to TLC as invariants of the component's run first. A
proof that a step keeps an invariant has one step per action. Where many
actions do the same to a variable, one lemma says what they do ("Effect",
"Moves", "Stays") and the invariant is proved from the lemma.

### The responder (`ACMEResponder_proofs`)

- `TypeCorrect`. `TypeOK` is inductive by itself since it says how orders,
  authorizations and suspended requests refer to each other.
- `AccountsUnique`: `AccountInv` adds that one request at most is between lookup
  and insertion (`LockIsExclusive`), and that what it found is still so
  (`LookupIsFresh`). Without the lock the second is false.
- `CertificatesMatch`, `OneCertificate`: what a suspended request will write
  depends on what it saw before, so `CertInv` adds `SigningIsEntitled` (a request
  in the CA carries a CSR that was compared with the identifiers of an order
  that left `pending`, and identifiers never change), `SigningIsExclusive` (on
  one loop there is one such request and its order has no certificate yet) and
  `OrdersOfCertsValid`.
- `OrdersOnlyMoveForward`, `KeepsPromise`: the lemma `OrderSteps` says that each
  step opens an order, makes one ready, certifies one or leaves the orders alone.
  The action property follows for each order; the refinement of
  `OrderLifecycle` follows by mapping those four to `Open`, `BecomeReady`,
  `Certify` and a stutter, with lemmas on what the mapped sequences
  (`StatusesOf`, `OrdersOf`) become when an order or certificate changes.

### The session (`ClientSession_proofs`)

- `TypeCorrect`: `References` bounds what each task carries by what has been
  issued, generated and created.
- `NoNonceTwice`: `OnePlace` says that a nonce is at one place only, in the pool,
  in an answer not yet read, on the wire, or spent; `NoncesLive` that a server
  that forgets none accepts all of them.
- `RetryIsFresh`, an action property, from the same invariant.
- `KeyIsTheServers`: under `Steady` (the application does nothing beside a change
  of its account, and no answer to such a change is lost), `KeyAndUrl` ties the account
  URL in use to the account that has the key in memory, also in the middle of a
  key change, when the server already has the new key; `KeyStored` ties the key
  in memory to the one in the store, if there is a store and no key was given.
- `UrlIsKept`: `UrlSaved` says that a `create_account` under way holds the URL it
  put aside.
- `NobodyIsRefused`: `ErrorsAreDue` says which answers may be errors;
  `RevocationsSigned` that a certificate's own key needs no account.

### Issuance (`Issue_proofs`)

Here the invariant is per call: `InOrder` (it cleans up before it is over), `Asked`
(authorizations are asked for one by one, before the order can be ready), `Fetched`
(what is downloaded comes from a valid order), `Kept` (what is stored and counted
goes with the outcome). A step of one call leaves all of that alone for
the others (`OthersStay`). What calls share is in three more:

- `AnnouncedStays`: `Published` starts before the property does, when the record is
  created; `LateRemovals` says that a removal still on its way belongs
  to a call that is over.
- `AllIsCleanedUp`: `OnTheList` says that a record is on the list its call cleans
  up from, or about to get there, and that the DNS-01 handler remembers it.
- `LimitBoundsReturned`: `Counting` says that of calls one after another one is
  active, and that there is still room for it until it is counted.
- `TypeCorrect`, `ReturnedIsComplete`, and `FailuresShow`, an action property.

### Store and authority (`Storage_proofs`)

- `MetadataIsOldest`: the save that runs has written exactly the files before the
  one it writes next, and nobody else is writing (`OneChange`); then nothing
  beside the metadata is older (`NoneOlder`), also in what a reader that goes
  the other way has fetched (`ReadsNoneOlder`).
- `OwnersKeepTheirFiles` by `SameOwner` and `DirNamed`, `BundlesAreWhole` by
  `WholeButWritten`.
- `AuthorityTypeCorrect`, a lemma only (no run checks it): certificate and key in memory
  come and go together, and what `init()` has found in the store is not erased.
- `AllLeavesVerify` and `OneAuthorityForAll` have the hypothesis `FirstAlone`: the
  first `init()` runs while no other does. Without it both are false (see above).
  `PairsMatch` says that certificate and key belong together in every memory and
  on a complete disk, `WriterIsAlone` that a new root is written by one process while
  there is no key file, `OneRoot` that who has a root has it from the store.

### Policy and background work (`RateLimit_proofs`, `Renewal_proofs`)

- `RecordsKept`: `Locked` says that what a thread read under the lock is still
  what the file says.
- `LimitIsKept` has the hypothesis `Coarser` (names the CA counts together have one
  registered domain), `NeverTooStrict` its converse `Finer`. Both are about the
  two functions that map a name to a domain. `ListedSuffixesSuffice` and
  `KnownSuffixesSuffice` prove them from what the list of second-level suffixes
  must satisfy: they are public suffixes (`SuffixesListed`), and there is no other public
  suffix in use but top-level domains (`SuffixesKnown`). The run's instance satisfies all
  four. `RecordsComplete` and `WithinLimit` carry the counting: each issuance has
  its record or a thread that owes it, and a thread between check and issuance
  has room. `NeverTooStrict` counts the other way: `CountIsIssued` finds for each
  record the tracker counts a certificate of its own in the CA's window, which
  begins earlier by the delay between issuance and record (`OneRecordEach`).
- `RunningLoopIsKnown`: `WaitsForKnown` says whom a suspended `stop()` waits for.
- `NothingExpires`: `OnTime` bounds when the running loop is due, `Lasts` says that
  each certificate lasts until the sweep after the next. The arithmetic is
  symbolic in `Days`, `Interval`, `Jitter`, `SweepTime` and `Lifetime`.

### Identifiers (`Identifiers_proofs`)

- `RenewalKeepsIdentifiers`: `Origin` says that whatever is asked for, certified
  or stored names the typed identifiers that were asked for first, through any
  number of renewals; `Provided` that handlers were called for the caller's own
  texts.
- `CSRsAreBound`: `Binding` shows that the responder's test of a CSR, with its cases
  for zero, one and several common names, accepts exactly the CSRs that describe
  the order. `CSRIsCurrent` says that no CSR is left over from an earlier order.
- `RenewalsReplace`: `OrderKept` says that the authority of `lacme` keeps the values as
  they are, and that from a public one, which sorts them, a recovery still gets
  back the order of their texts, if they are spelled as it spells them.
- What the recovery of a bundle computes is in `TakenFacts`, `ExactRecovery` and
  `ArrangedRecovery`. `Taken` is a recursive function and no operator, so that
  it can be proved about: `TakenDef` shows that its recursion has a solution, and
  `AllUpTo` is induction for a set of numbers, from the library's theorem
  about minimal elements, where the induction theorem itself takes an operator.

### The synchronous client and events (`SyncClient_proofs`)

- `EveryEventDelivered`: `Lists` says that each callback is subscribed once, and in
  one list; `Sound` that what an emission has called is the part of its snapshot
  it has gone through, but for skipped coroutine functions, and that what stayed
  subscribed is in the snapshot. `WithoutFacts` says what `unsubscribe` leaves of a
  list, by the same induction as above.
- `TypeCorrect`: that no counter exceeds the operations begun is `CountedOnce`: each
  operation begun is counted, can still be counted, or will not be, and it is
  counted once, because the metrics are subscribed once.
- `ClosesInOrder`: `Phase` ties where a thread is to what it does and waits for.
  `HttpFirst` says that nothing of the runner is taken down while the HTTP client
  is open; in thread mode a `close()` that finds the runner closed comes after
  another one, in runner mode there is no other thread (`RunnerIsMains`,
  `EnteredOpen`). `Orderly` follows a `close()` that is alone in the client
  (`CloserIsAlone`) from the open runner to nothing.
- `LoopRunsForCalls`: with `Served`, nobody waits for the loop of a closed runner;
  as long as it is open its loop runs (`Orderly`). This is what
  `CallsReturn` needs of every step; that the steps are taken is fairness and stays
  with TLC.

### Model-checked only

- `CallsEnd` and `CallsReturn`: liveness needs ENABLED, which the proof system
  cannot treat.
- The three statements of the repository that the code refutes have runs that find
  the behaviour, and no theorem. Every other property of a run is
  proved.

## 5. Not modelled

- Parsing, encoding and cryptography (`_jose`, `crypto`, `models`, `_types`,
  `errors`): no state; where they decide anything (a CSR that does not
  match, a refused signature) the modules have a guard.
- The command line, TLS helpers, framework adapters and test doubles: thin
  layers without protocol state.
- In the modelled parts: logging, read-only handlers, the responder's handlers
  that change no state (directory, nonce, key change, revocation), requests
  refused before any state is touched, path checks of the store, `MemoryStore`,
  the contents of certificates beyond their names and what they are bound to,
  the CRL endpoints, external account binding, the metrics gauge, the HTTP
  framing of the standalone HTTP-01 server, Cloudflare's table of record ids,
  a rollover to a key used before, a `registered_domain_func` of the application,
  names that end in a dot, and two processes changing one certificate directory
  at the same time.
- Module boundaries: `Issue` does not compose with `ClientSession` (nonces and
  account are settled before an order exists), and `Identifiers` handles one
  certificate, one step per request, because nothing in it depends on timing.

## 6. Plan

The order was: the server's orders (`OrderLifecycle`, `ACMEResponder`), the
client (`ClientSession`, `Issue`), persistence (`FileStore`, `CertAuthority`),
policy and background work (`RateLimit`, `Renewal`), the first proofs; then the
handlers and providers (`ChallengeHandlers`), the synchronous client with its
events (`SyncClient`, `EventDispatcher`) and the identifiers (`Identifiers`).
What is left, most important first:

1. *Composition*: renewal, deletion and reading on one store; the abstract
   promise of a store (a reader sees a whole bundle or an error) against
   `FileStore`.
2. *Command line*: sequences of commands on one store (its `account` and
   `revoke` commands start a client without an account URL).

## 7. Running

    tlc -workers 2 -config responder.cfg MCACMEResponder
    tlapm ACMEResponder_proofs.tla      (and the other *_proofs modules)

`PROJECT.json` lists all runs, what each definition stands for in the source
(`map`), the error each property detects (`mutants`) and the hazards of the code
with the properties that cover them.
