------------------------------- MODULE Issue -------------------------------
(***************************************************************************)
(* Client.issue of lacme/client.py: several calls, each with an order of   *)
(* its own, sharing the rate-limit tracker and the certificate store, with *)
(* the challenge handler (DNS-01: create the record, then wait for it) and *)
(* an ACME server that validates and issues in its own time (external).    *)
(* What a handler's calls do to the published responses is in              *)
(* ChallengeHandlers.  A call that is cancelled inside the provider may     *)
(* take effect later: a Route 53 change goes on in its executor thread, a  *)
(* hook process is not killed, a request may have been sent.               *)
(*                                                                         *)
(* Account and nonces are left to ClientSession; every await of the code   *)
(* is a step boundary here.                                                *)
(***************************************************************************)
EXTENDS Naturals, FiniteSets, ChallengeHandlers

CONSTANTS
    Calls,       \* calls of issue()
    N,           \* identifiers, hence authorizations, per order
    MaxPolls,    \* polls within one timeout
    Limit,       \* the tracker's limit for the registered domain
    Scenarios    \* what applications and environments do: see Scenario

FaultKinds == {"request",      \* an ACME request fails, or its response is lost
               "refuse",       \* the server finds a correct response invalid
               "provision",    \* the handler raises before it created anything
               "lost",         \* it raises although the record was created
               "propagation",  \* the record is created but the wait for it times out
               "deprovision",  \* removing a record fails
               "cancel",       \* a call is cancelled
               "early",        \* the server completes the order for another key
               "save",         \* the store raises
               "record"}       \* the tracker raises

\* "sequential": the application awaits each call before the next.
Scenario == [sequential : BOOLEAN, faults : SUBSET FaultKinds,
             handler : Handlers, sharing : Sharing]

ASSUME IssueAssumption ==
    /\ N \in Nat \ {0} /\ MaxPolls \in Nat /\ Limit \in Nat
    /\ Scenarios \subseteq Scenario

Ids == 1..N
Responses == Calls \X Ids

VARIABLES
    scenario,     \* chosen once, never changed
    pc,           \* pc[c]: the await call c is suspended at
    at,           \* at[c]: the authorization it is working on
    polls,        \* polls[c]: fruitless polls since the timeout was started
    provisioned,  \* provisioned[c]: the list issue() cleans up from
    outcome,      \* outcome[c]: how the call ends, or will after the cleanup
    records,      \* the challenge responses that exist
    tracked,      \* DNS-01: the responses the handler knows it created
    late,         \* changes of cancelled calls that may still take effect
    order,        \* server: status of the order of call c
    authz,        \* server: authz[c][i]
    certKey,      \* server: whose key the certificate of order c carries
    stored,       \* the calls whose bundle was saved
    recorded      \* the calls the tracker knows of

callVars == <<pc, at, polls, provisioned, outcome>>
serverVars == <<order, authz, certKey>>
handlerVars == <<records, tracked, late>>
vars == <<scenario, callVars, handlerVars, serverVars, stored, recorded>>

Awaiting == {"provision", "propagate", "respond", "authz", "ready",
             "finalize", "poll", "download"}
Changes == [op : {"create", "delete"}, response : Responses]

\* Every variable has its type.
TypeOK ==
    /\ scenario \in Scenarios
    /\ pc \in [Calls -> {"start", "order", "notify", "cleanup", "emit", "done"} \cup Awaiting]
    /\ at \in [Calls -> Ids]
    /\ polls \in [Calls -> 0..MaxPolls]
    /\ provisioned \in [Calls -> SUBSET Ids]
    /\ outcome \in [Calls -> {"none", "issued", "failed", "cancelled"}]
    /\ records \subseteq Responses
    /\ tracked \subseteq Responses
    /\ late \subseteq Changes
    /\ order \in [Calls -> {"none", "pending", "ready", "processing", "valid",
                            "invalid"}]
    /\ authz \in [Calls -> [Ids -> {"pending", "processing", "valid", "invalid"}]]
    /\ certKey \in [Calls -> {"none", "own", "other"}]
    /\ stored \subseteq Calls
    /\ recorded \subseteq Calls

Init ==
    /\ scenario \in Scenarios
    /\ pc = [c \in Calls |-> "start"]
    /\ at = [c \in Calls |-> 1]
    /\ polls = [c \in Calls |-> 0]
    /\ provisioned = [c \in Calls |-> {}]
    /\ outcome = [c \in Calls |-> "none"]
    /\ records = {}
    /\ tracked = {}
    /\ late = {}
    /\ order = [c \in Calls |-> "none"]
    /\ authz = [c \in Calls |-> [i \in Ids |-> "pending"]]
    /\ certKey = [c \in Calls |-> "none"]
    /\ stored = {}
    /\ recorded = {}

-----------------------------------------------------------------------------
Goto(c, label) == pc' = [pc EXCEPT ![c] = label]
NextStep(c, label) == Goto(c, label) /\ UNCHANGED <<at, polls, provisioned, outcome>>

\* Mistake: no cleanup on failure.
RaiseAtOnce(c, how) ==
    /\ Goto(c, "done")
    /\ outcome' = [outcome EXCEPT ![c] = how]
    /\ UNCHANGED <<at, polls, provisioned>>

\* An exception: inside the try block the cleanup comes first, and before it,
\* if an authorization was being polled, the awaited ChallengeFailed event.
Raise(c, how) ==
    /\ Goto(c, IF pc[c] = "authz" /\ how = "failed" THEN "notify"
               ELSE IF pc[c] \in Awaiting THEN "cleanup" ELSE "done")
    /\ outcome' = [outcome EXCEPT ![c] = how]
    /\ UNCHANGED <<at, polls, provisioned>>

\* Mistake: off by one.
CheckRateLimitLate(c) ==
    /\ pc[c] = "start"
    /\ scenario.sequential => \A d \in Calls : pc[d] \in {"start", "done"}
    /\ Cardinality(recorded) <= Limit
    /\ NextStep(c, "order")
    /\ UNCHANGED <<scenario, handlerVars, serverVars, stored, recorded>>

CheckRateLimit(c) ==
    /\ pc[c] = "start"
    /\ scenario.sequential => \A d \in Calls : pc[d] \in {"start", "done"}
    /\ \/ /\ Cardinality(recorded) < Limit
          /\ NextStep(c, "order")
       \/ /\ Cardinality(recorded) >= Limit
          /\ Raise(c, "failed")
    /\ UNCHANGED <<scenario, handlerVars, serverVars, stored, recorded>>

OpenOrder(c) ==
    /\ pc[c] = "order"
    /\ order' = [order EXCEPT ![c] = "pending"]
    /\ NextStep(c, "provision")
    /\ UNCHANGED <<scenario, handlerVars, authz, certKey, stored, recorded>>

Current(c) == <<c, at[c]>>
AfterPublish(c) == Publish(scenario.handler, scenario.sharing, records, Current(c))

\* HTTP01Handler.provision: no await inside.
AddToken(c) ==
    /\ pc[c] = "provision" /\ scenario.handler = "http"
    /\ records' = AfterPublish(c)
    /\ provisioned' = [provisioned EXCEPT ![c] = @ \cup {at[c]}]
    /\ Goto(c, "respond")
    /\ UNCHANGED <<scenario, at, polls, outcome, tracked, late, serverVars, stored,
                   recorded>>

\* DNS01Handler.provision up to the creation of the record.
CreateRecord(c) ==
    /\ pc[c] = "provision" /\ scenario.handler # "http"
    /\ records' = AfterPublish(c)
    /\ tracked' = tracked \cup {Current(c)}
    /\ NextStep(c, "propagate")
    /\ UNCHANGED <<scenario, late, serverVars, stored, recorded>>

\* The handler raises: an unusable token, an error of the provider, or an
\* answer that is lost or comes after the timeout.
ProvisionFails(c) ==
    /\ pc[c] = "provision"
    /\ \/ "provision" \in scenario.faults /\ UNCHANGED records
       \/ /\ "lost" \in scenario.faults /\ scenario.handler # "http"
          /\ records' = AfterPublish(c)
    /\ Raise(c, "failed")
    /\ UNCHANGED <<scenario, tracked, late, serverVars, stored, recorded>>

\* provision returns; only now does issue() remember to clean up.
Propagated(c) ==
    /\ pc[c] = "propagate"
    /\ Goto(c, "respond")
    /\ provisioned' = [provisioned EXCEPT ![c] = @ \cup {at[c]}]
    /\ UNCHANGED <<scenario, at, polls, outcome, handlerVars, serverVars, stored,
                   recorded>>

PropagationTimesOut(c) ==
    /\ pc[c] = "propagate"
    /\ "propagation" \in scenario.faults
    /\ Raise(c, "failed")
    /\ UNCHANGED <<scenario, handlerVars, serverVars, stored, recorded>>

\* respond_to_challenge; after the last one the polling starts at the first.
Respond(c) ==
    /\ pc[c] = "respond"
    /\ authz' = [authz EXCEPT ![c][at[c]] = "processing"]
    /\ \/ /\ at[c] < N
          /\ at' = [at EXCEPT ![c] = @ + 1]
          /\ Goto(c, "provision")
       \/ /\ at[c] = N
          /\ at' = [at EXCEPT ![c] = 1]
          /\ Goto(c, "authz")
    /\ UNCHANGED <<scenario, polls, provisioned, outcome, handlerVars, order, certKey,
                   stored, recorded>>

\* Mistake: the timeout is compared with <= instead of <.
KeepPollingOnceMore(c) ==
    \/ Raise(c, "failed")
    \/ /\ polls[c] <= MaxPolls
       /\ polls' = [polls EXCEPT ![c] = @ + 1]
       /\ UNCHANGED <<pc, at, provisioned, outcome>>

\* Mistake: no timeout.
KeepPollingForever(c) == UNCHANGED callVars

\* A poll that finds nothing decided: raise when the timeout has passed, else
\* sleep and poll again.
KeepPolling(c) ==
    \/ Raise(c, "failed")
    \/ /\ polls[c] < MaxPolls
       /\ polls' = [polls EXCEPT ![c] = @ + 1]
       /\ UNCHANGED <<pc, at, provisioned, outcome>>

PollAuthorization(c) ==
    /\ pc[c] = "authz"
    /\ \/ /\ authz[c][at[c]] = "valid"
          /\ polls' = [polls EXCEPT ![c] = 0]
          /\ \/ at[c] < N /\ at' = [at EXCEPT ![c] = @ + 1] /\ UNCHANGED pc
             \/ at[c] = N /\ Goto(c, "ready") /\ UNCHANGED at
          /\ UNCHANGED <<provisioned, outcome>>
       \/ /\ authz[c][at[c]] = "invalid"
          /\ Raise(c, "failed")
       \/ /\ authz[c][at[c]] \in {"pending", "processing"}
          /\ KeepPolling(c)
    /\ UNCHANGED <<scenario, handlerVars, serverVars, stored, recorded>>

\* ChallengeFailed was emitted (a failing callback is logged).
Notified(c) ==
    /\ pc[c] = "notify"
    /\ NextStep(c, "cleanup")
    /\ UNCHANGED <<scenario, handlerVars, serverVars, stored, recorded>>

Advance(c, label) ==
    /\ Goto(c, label)
    /\ polls' = [polls EXCEPT ![c] = 0]
    /\ UNCHANGED <<at, provisioned, outcome>>

\* _poll_order_ready; finalize is skipped when the order is already beyond.
PollOrderReady(c) ==
    /\ pc[c] = "ready"
    /\ \/ order[c] = "ready" /\ Advance(c, "finalize")
       \/ order[c] = "processing" /\ Advance(c, "poll")
       \/ order[c] = "valid" /\ Advance(c, "download")
       \/ order[c] = "invalid" /\ Raise(c, "failed")
       \/ order[c] = "pending" /\ KeepPolling(c)
    /\ UNCHANGED <<scenario, handlerVars, serverVars, stored, recorded>>

\* finalize_order with a CSR for a new key; the server answers at once or
\* later.
FinalizeOrder(c) ==
    /\ pc[c] = "finalize"
    /\ \/ /\ order[c] = "ready"
          /\ certKey' = [certKey EXCEPT ![c] = "own"]
          /\ \/ order' = [order EXCEPT ![c] = "valid"] /\ NextStep(c, "download")
             \/ order' = [order EXCEPT ![c] = "processing"] /\ NextStep(c, "poll")
             \/ /\ "request" \in scenario.faults
                /\ order' = [order EXCEPT ![c] = "processing"]
                /\ Raise(c, "failed")
       \/ /\ order[c] # "ready"
          /\ Raise(c, "failed")
          /\ UNCHANGED <<order, certKey>>
    /\ UNCHANGED <<scenario, handlerVars, authz, stored, recorded>>

PollOrder(c) ==
    /\ pc[c] = "poll"
    /\ \/ order[c] = "valid" /\ NextStep(c, "download")
       \/ order[c] = "invalid" /\ Raise(c, "failed")
       \/ order[c] \in {"pending", "ready", "processing"} /\ KeepPolling(c)
    /\ UNCHANGED <<scenario, handlerVars, serverVars, stored, recorded>>

DownloadCertificate(c) ==
    /\ pc[c] = "download"
    /\ NextStep(c, "cleanup")
    /\ UNCHANGED <<scenario, handlerVars, serverVars, stored, recorded>>

\* The finally loop goes through the list in the order of provisioning.
NextToRemove(c, i) == i \in provisioned[c] /\ \A j \in provisioned[c] : i <= j

\* One turn of it.  The DNS-01 handler forgets the record before it deletes
\* it; a failure is logged.
Deprovision(c) ==
    /\ pc[c] = "cleanup"
    /\ \E i \in provisioned[c] :
         /\ NextToRemove(c, i)
         /\ provisioned' = [provisioned EXCEPT ![c] = @ \ {i}]
         /\ tracked' = tracked \ {<<c, i>>}
         /\ \/ /\ scenario.handler = "http" \/ <<c, i>> \in tracked
               /\ records' = Withdraw(records, <<c, i>>)
            \/ /\ scenario.handler # "http"
               /\ <<c, i>> \in tracked => "deprovision" \in scenario.faults
               /\ UNCHANGED records
    /\ UNCHANGED <<scenario, pc, at, polls, outcome, late, serverVars, stored, recorded>>

\* The exception goes on to the caller.
Reraise(c) ==
    /\ pc[c] = "cleanup" /\ provisioned[c] = {}
    /\ outcome[c] # "none"
    /\ NextStep(c, "done")
    /\ UNCHANGED <<scenario, handlerVars, serverVars, stored, recorded>>

Concluding(c) == pc[c] = "cleanup" /\ provisioned[c] = {} /\ outcome[c] = "none"
ConcludeAs(c, label, how) ==
    /\ Goto(c, label)
    /\ outcome' = [outcome EXCEPT ![c] = how]
    /\ UNCHANGED <<scenario, at, polls, provisioned, handlerVars, serverVars>>

\* Mistake: the public key of the certificate is not compared.
ConcludeUnchecked(c) ==
    /\ Concluding(c)
    /\ stored' = stored \cup {c}
    /\ recorded' = recorded \cup {c}
    /\ ConcludeAs(c, "emit", "none")

\* Mistake: the issuance is recorded before the bundle is saved.
ConcludeRecordFirst(c) ==
    /\ Concluding(c)
    /\ \/ /\ certKey[c] = "own"
          /\ stored' = stored \cup {c} /\ recorded' = recorded \cup {c}
          /\ ConcludeAs(c, "emit", "none")
       \/ /\ certKey[c] = "own" /\ "save" \in scenario.faults
          /\ recorded' = recorded \cup {c} /\ UNCHANGED stored
          /\ ConcludeAs(c, "done", "failed")
       \/ /\ certKey[c] # "own"
          /\ UNCHANGED <<stored, recorded>>
          /\ ConcludeAs(c, "done", "failed")

\* Check the certificate, save it, record the issuance: one step, no await.
Conclude(c) ==
    /\ Concluding(c)
    /\ \/ /\ certKey[c] = "own"
          /\ stored' = stored \cup {c}
          /\ \/ recorded' = recorded \cup {c} /\ ConcludeAs(c, "emit", "none")
             \/ /\ "record" \in scenario.faults
                /\ UNCHANGED recorded /\ ConcludeAs(c, "done", "failed")
       \/ /\ certKey[c] # "own" \/ "save" \in scenario.faults
          /\ UNCHANGED <<stored, recorded>>
          /\ ConcludeAs(c, "done", "failed")

\* CertificateIssued was emitted (a failing callback is logged): return.
Return(c) ==
    /\ pc[c] = "emit"
    /\ ConcludeAs(c, "done", "issued")
    /\ UNCHANGED <<stored, recorded>>

\* A request raises (an error response, the transport) without effect.
RequestFails(c) ==
    /\ "request" \in scenario.faults
    /\ pc[c] \in {"order", "respond", "authz", "ready", "finalize", "poll", "download"}
    /\ Raise(c, "failed")
    /\ UNCHANGED <<scenario, handlerVars, serverVars, stored, recorded>>

GivesUp(op, r) == late' \in {late, late \cup {[op |-> op, response |-> r]}}

\* CancelledError: it runs the finally block like an exception, but one that
\* arrives inside a deprovision ends the loop.  What the provider was doing
\* may go on.
Cancel(c) ==
    /\ "cancel" \in scenario.faults
    /\ \/ /\ pc[c] \in {"order"} \cup (Awaiting \ {"provision"})
          /\ Raise(c, "cancelled")
          /\ UNCHANGED <<tracked, late>>
       \/ /\ pc[c] = "provision" /\ scenario.handler # "http"
          /\ Raise(c, "cancelled")
          /\ GivesUp("create", Current(c))
          /\ UNCHANGED tracked
       \/ /\ pc[c] = "cleanup" /\ scenario.handler # "http"
          /\ \E i \in provisioned[c] :
               /\ NextToRemove(c, i)
               /\ tracked' = tracked \ {<<c, i>>}
               /\ GivesUp("delete", <<c, i>>)
          /\ Goto(c, "done")
          /\ outcome' = [outcome EXCEPT ![c] = "cancelled"]
          /\ provisioned' = [provisioned EXCEPT ![c] = {}]
          /\ UNCHANGED <<at, polls>>
       \/ /\ pc[c] \in {"notify", "emit"}
          /\ Goto(c, IF pc[c] = "notify" THEN "cleanup" ELSE "done")
          /\ outcome' = [outcome EXCEPT ![c] = "cancelled"]
          /\ UNCHANGED <<at, polls, provisioned, tracked, late>>
    /\ UNCHANGED <<scenario, records, serverVars, stored, recorded>>

TakesEffectLate(change) ==
    /\ change \in late
    /\ late' = late \ {change}
    /\ \/ /\ change.op = "create"
          /\ records' = Publish(scenario.handler, scenario.sharing, records,
                                change.response)
       \/ /\ change.op = "delete"
          /\ records' = Withdraw(records, change.response)
    /\ UNCHANGED <<scenario, callVars, tracked, serverVars, stored, recorded>>

-----------------------------------------------------------------------------
(* The server *)

\* The server looks for the challenge response.
Validate(c, i) ==
    /\ authz[c][i] = "processing"
    /\ \E result \in {"valid", "invalid"} :
         /\ result = "valid" => Answers(records, <<c, i>>)
         /\ result = "invalid" =>
                ~Answers(records, <<c, i>>) \/ "refuse" \in scenario.faults
         /\ authz' = [authz EXCEPT ![c][i] = result]
    /\ UNCHANGED <<scenario, callVars, handlerVars, order, certKey, stored, recorded>>

\* Decided authorizations reach the order with a delay.
DecideOrder(c) ==
    /\ order[c] = "pending"
    /\ \/ /\ \A i \in Ids : authz[c][i] = "valid"
          /\ order' = [order EXCEPT ![c] = "ready"]
       \/ /\ \E i \in Ids : authz[c][i] = "invalid"
          /\ order' = [order EXCEPT ![c] = "invalid"]
    /\ UNCHANGED <<scenario, callVars, handlerVars, authz, certKey, stored, recorded>>

IssueCertificate(c) ==
    /\ order[c] = "processing"
    /\ order' = [order EXCEPT ![c] = "valid"]
    /\ UNCHANGED <<scenario, callVars, handlerVars, authz, certKey, stored, recorded>>

CompleteEarly(c) ==
    /\ "early" \in scenario.faults
    /\ order[c] = "ready"
    /\ certKey' = [certKey EXCEPT ![c] = "other"]
    /\ \E s \in {"processing", "valid"} : order' = [order EXCEPT ![c] = s]
    /\ UNCHANGED <<scenario, callVars, handlerVars, authz, stored, recorded>>

-----------------------------------------------------------------------------
ClientStep(c) ==
    \/ CheckRateLimit(c) \/ OpenOrder(c)
    \/ AddToken(c) \/ CreateRecord(c) \/ ProvisionFails(c)
    \/ Propagated(c) \/ PropagationTimesOut(c)
    \/ Respond(c) \/ PollAuthorization(c) \/ Notified(c) \/ PollOrderReady(c)
    \/ FinalizeOrder(c) \/ PollOrder(c) \/ DownloadCertificate(c)
    \/ Deprovision(c) \/ Reraise(c) \/ Conclude(c) \/ Return(c)
    \/ RequestFails(c)

ServerStep(c) ==
    \/ \E i \in Ids : Validate(c, i)
    \/ DecideOrder(c) \/ IssueCertificate(c) \/ CompleteEarly(c)

Next ==
    \/ \E c \in Calls : ClientStep(c) \/ Cancel(c) \/ ServerStep(c)
    \/ \E change \in late : TakesEffectLate(change)

\* Every await of the code ends (requests and the propagation wait have
\* timeouts); the server owes nothing.
Spec == Init /\ [][Next]_vars /\ \A c \in Calls : WF_vars(ClientStep(c))

-----------------------------------------------------------------------------
(* Properties *)

\* While the call waits for the server, the response to every challenge it
\* has announced is still available, so the server never finds it missing.
AnnouncedIsAvailable ==
    \A c \in Calls, i \in Ids :
        pc[c] \in Awaiting /\ authz[c][i] = "processing" =>
            Answers(records, <<c, i>>)

\* It is so, also for several responses under one record name and beside the
\* late effects of cancelled calls, unless the provider replaces record sets.
ResponseAvailable ==
    scenario.handler # "route53" \/ scenario.sharing = {} => AnnouncedIsAvailable

\* issue() returns a bundle only after every authorization was validated,
\* for an order the server completed, with a certificate for the key the call
\* generated, and the bundle is then in the store and counted.
IssuedIsComplete ==
    \A c \in Calls : outcome[c] = "issued" =>
        /\ order[c] = "valid" /\ certKey[c] = "own"
        /\ \A i \in Ids : authz[c][i] = "valid"
        /\ c \in stored \cap recorded

\* A call that is over has left no challenge response behind, however it
\* ended ("catch errors so all are cleaned up").
NothingLeftBehind == \A r \in records : pc[r[1]] # "done"

\* It is so unless creating a record succeeds without an answer, removing one
\* fails, the wait for one times out, or the call is cancelled; the token of
\* HTTP-01 never stays.
CleanedUp ==
    \/ scenario.handler = "http"
    \/ scenario.faults \cap {"lost", "propagation", "deprovision", "cancel"} = {}
    => NothingLeftBehind

\* A call that failed or was cancelled never loses its exception in the
\* cleanup, is never counted, and stored nothing; except that the bundle is
\* kept when the tracker raises, and kept and counted when the call is
\* cancelled while CertificateIssued is emitted.
FailureIsNotMasked ==
    [][\A c \in Calls :
         /\ outcome[c] \in {"failed", "cancelled"} =>
                outcome'[c] \in {"failed", "cancelled"}
         /\ outcome'[c] = "failed" =>
                c \notin recorded' /\ (c \in stored' => "record" \in scenario.faults)
         /\ outcome'[c] = "cancelled" => (c \in stored' <=> c \in recorded')]_vars

\* Calls that run one after another return at most as many certificates as
\* the limit allows.
ReturnedWithinLimit ==
    scenario.sequential =>
        Cardinality({c \in Calls : outcome[c] = "issued"}) <= Limit

\* Every call ends, whatever the server does: each wait has its timeout.
CallsEnd == \A c \in Calls : pc[c] # "start" ~> pc[c] = "done"
=============================================================================
