---------------------------- MODULE Issue_proofs ----------------------------
(***************************************************************************)
(* Theorems about Issue, for any calls, number of identifiers, limit and   *)
(* scenarios.                                                              *)
(***************************************************************************)
EXTENDS Issue, FiniteSetTheorems, TLAPS

-----------------------------------------------------------------------------
(* Inductive invariants *)

\* Call c goes through its steps in order: it cleans up what it provisioned
\* before it is over, asks the server for one validation per authorization,
\* and saves and counts the certificate only at the end.
InOrder(c) ==
    /\ outcome[c] # "none" => pc[c] \in {"notify", "cleanup", "done"}
    /\ pc[c] = "notify" => outcome[c] = "failed"
    /\ pc[c] \in {"start", "order", "emit", "done"} => provisioned[c] = {}
    /\ pc[c] = "propagate" => scenario.handler # "http"

\* Its authorizations are asked for one by one, before the order can be ready.
Asked(c) ==
    /\ pc[c] \in {"start", "order"} =>
          order[c] = "none" /\ \A i \in Ids : authz[c][i] = "pending"
    /\ pc[c] \in {"provision", "propagate", "respond"} =>
          \A i \in Ids : at[c] <= i => authz[c][i] = "pending"
    /\ order[c] \in {"ready", "processing", "valid"} => \A i \in Ids : authz[c][i] = "valid"

\* It gets its certificate from an order that is complete.
Fetched(c) ==
    /\ pc[c] \in {"download", "emit"} => order[c] = "valid"
    /\ pc[c] = "cleanup" /\ outcome[c] = "none" => order[c] = "valid"
    /\ pc[c] = "emit" \/ outcome[c] = "issued" =>
          order[c] = "valid" /\ certKey[c] = "own" /\ c \in stored /\ c \in recorded

\* What it stores and records goes with how it ends.
Kept(c) ==
    /\ pc[c] \notin {"emit", "done"} => c \notin stored /\ c \notin recorded
    /\ outcome[c] = "failed" =>
          c \notin recorded /\ (c \in stored => "record" \in scenario.faults)
    /\ outcome[c] = "cancelled" => (c \in stored <=> c \in recorded)

\* Late removals are those of calls that are over.
LateRemovals == \A change \in late : change.op = "delete" => pc[change.response[1]] = "done"

\* The provider does not replace the responses of others.
Apart == scenario.handler # "route53" \/ scenario.sharing = {}

\* The response of the authorization at hand exists before it is announced,
\* and as long as the call waits for the server.
Public(c) ==
    /\ pc[c] \in {"propagate", "respond"} => Current(c) \in records
    /\ \A i \in Ids : pc[c] \in Awaiting /\ authz[c][i] = "processing" => <<c, i>> \in records
Published == Apart => \A c \in Calls : Public(c)

\* Nothing keeps a call from removing what it created.
Tidy == \/ scenario.handler = "http"
        \/ scenario.faults \cap {"lost", "propagation", "deprovision", "cancel"} = {}

\* Then every response is on the list its call cleans up from, or about to be,
\* and the DNS-01 handler knows those it is to remove.
Listed(c) ==
    /\ \A i \in Ids : <<c, i>> \in records =>
          i \in provisioned[c] \/ (pc[c] = "propagate" /\ i = at[c])
    /\ scenario.handler # "http" =>
          /\ \A i \in provisioned[c] : <<c, i>> \in tracked
          /\ pc[c] = "propagate" => Current(c) \in tracked
OnTheList == Tidy => late = {} /\ \A c \in Calls : Listed(c)

\* Calls that run one after another are counted before the next one asks.
Active(c) == pc[c] \notin {"start", "done"}
Counting ==
    /\ IsFiniteSet(recorded)
    /\ scenario.sequential =>
          /\ \A c, d \in Calls : Active(c) /\ Active(d) => c = d
          /\ Cardinality(recorded) <= Limit
          /\ \A c \in Calls : Active(c) /\ pc[c] # "emit" => Cardinality(recorded) < Limit

-----------------------------------------------------------------------------
(* Types *)

Labels == {"start", "order", "notify", "cleanup", "emit", "done"} \cup Awaiting
Outcomes == {"none", "issued", "failed", "cancelled"}
OrderStatus == {"none", "pending", "ready", "processing", "valid", "invalid"}
AuthzStatus == {"pending", "processing", "valid", "invalid"}

\* What TypeOK says of one call.
LEMMA CallTypes ==
    ASSUME TypeOK, NEW c \in Calls
    PROVE  /\ pc[c] \in Labels /\ at[c] \in Ids /\ polls[c] \in 0..MaxPolls
           /\ provisioned[c] \subseteq Ids /\ outcome[c] \in Outcomes
           /\ order[c] \in OrderStatus /\ authz[c] \in [Ids -> AuthzStatus]
           /\ certKey[c] \in {"none", "own", "other"}
           /\ Current(c) \in Responses
  BY DEF TypeOK, Labels, Outcomes, OrderStatus, AuthzStatus, Current, Responses

\* Identifiers are numbered.
LEMMA IdFacts ==
    /\ N \in Nat /\ 1 \in Ids /\ N \in Ids /\ Ids \subseteq Nat
    /\ \A i \in Ids : i <= N /\ (i < N => i + 1 \in Ids)
  BY IssueAssumption DEF Ids

\* Publishing and withdrawing yield responses.
LEMMA HandlerTypes ==
    ASSUME NEW r \in Responses, records \subseteq Responses
    PROVE  /\ Publish(scenario.handler, scenario.sharing, records, r) \subseteq records \cup {r}
           /\ Publish(scenario.handler, scenario.sharing, records, r) \subseteq Responses
           /\ Withdraw(records, r) \subseteq records
  BY DEF Publish, Withdraw

\* The variables of the calls have their types.
CallsTyped ==
    /\ pc \in [Calls -> Labels] /\ at \in [Calls -> Ids]
    /\ polls \in [Calls -> 0..MaxPolls] /\ provisioned \in [Calls -> SUBSET Ids]
    /\ outcome \in [Calls -> Outcomes]

\* Going on and raising keep them.
LEMMA CallsGoOn ==
    ASSUME TypeOK, NEW c \in Calls, NEW label \in Labels, NEW how \in Outcomes,
           NextStep(c, label) \/ Raise(c, how) \/ ConcludeAs(c, label, how)
    PROVE  CallsTyped'
  BY DEF TypeOK, CallsTyped, Labels, Outcomes, Awaiting, NextStep, Raise, ConcludeAs, Goto

\* So do polling and advancing.
LEMMA CallsPoll ==
    ASSUME TypeOK, NEW c \in Calls, NEW label \in Labels,
           KeepPolling(c) \/ Advance(c, label)
    PROVE  CallsTyped'
<1>1. MaxPolls \in Nat
  BY IssueAssumption
<1>2. CASE Raise(c, "failed")
  BY <1>2, CallsGoOn DEF Labels, Outcomes
<1>3. CASE /\ polls[c] < MaxPolls /\ polls' = [polls EXCEPT ![c] = @ + 1]
           /\ UNCHANGED <<pc, at, provisioned, outcome>>
  <2>1. polls[c] \in 0..MaxPolls
    BY CallTypes
  <2>2. polls[c] + 1 \in 0..MaxPolls
    BY <1>1, <1>3, <2>1
  <2> QED
    BY <1>3, <2>2 DEF TypeOK, CallsTyped, Labels, Outcomes
<1>4. CASE Advance(c, label)
  <2>1. 0 \in 0..MaxPolls
    BY <1>1
  <2> QED
    BY <1>4, <2>1 DEF TypeOK, CallsTyped, Labels, Outcomes, Advance, Goto
<1> QED
  BY <1>2, <1>3, <1>4 DEF KeepPolling

\* Every step preserves the types.
LEMMA TypeStep ==
    ASSUME TypeOK, [Next]_vars
    PROVE  TypeOK'
<1> USE DEF serverVars, handlerVars, callVars
<1> DEFINE Rest == /\ scenario' \in Scenarios
                   /\ records' \subseteq Responses /\ tracked' \subseteq Responses
                   /\ late' \subseteq Changes
                   /\ order' \in [Calls -> OrderStatus]
                   /\ authz' \in [Calls -> [Ids -> AuthzStatus]]
                   /\ certKey' \in [Calls -> {"none", "own", "other"}]
                   /\ stored' \subseteq Calls /\ recorded' \subseteq Calls
<1>1. CallsTyped' /\ Rest => TypeOK'
  BY DEF CallsTyped, TypeOK, Labels, Outcomes, OrderStatus, AuthzStatus
<1>2. CallsTyped /\ UNCHANGED callVars => CallsTyped'
  BY DEF CallsTyped
<1>3. CallsTyped
  BY DEF CallsTyped, TypeOK, Labels, Outcomes
<1>4. ASSUME NEW c \in Calls,
             CheckRateLimit(c) \/ PropagationTimesOut(c) \/ DownloadCertificate(c)
                \/ Reraise(c) \/ RequestFails(c) \/ Return(c) \/ Notified(c)
      PROVE  TypeOK'
  <2>1. CallsTyped'
    BY <1>4, CallsGoOn
       DEF CheckRateLimit, PropagationTimesOut, DownloadCertificate, Reraise, RequestFails,
           Return, Notified, Labels, Outcomes
  <2>2. Rest
    BY <1>4 DEF CheckRateLimit, PropagationTimesOut, DownloadCertificate, Reraise, RequestFails,
                Return, Notified, ConcludeAs, TypeOK, OrderStatus, AuthzStatus
  <2> QED
    BY <1>1, <2>1, <2>2
<1>5. ASSUME NEW c \in Calls, PollAuthorization(c) \/ PollOrderReady(c) \/ PollOrder(c)
      PROVE  TypeOK'
  <2>1. CallsTyped'
    <3>1. CASE PollAuthorization(c) /\ authz[c][at[c]] = "valid"
      <4>1. at[c] < N => at[c] + 1 \in Ids
        BY CallTypes, IdFacts
      <4>2. MaxPolls \in Nat
        BY IssueAssumption
      <4>3. 0 \in 0..MaxPolls
        BY <4>2
      <4> QED
        BY <1>3, <3>1, <4>1, <4>3 DEF PollAuthorization, CallsTyped, Goto, Labels, Awaiting
    <3>2. CASE ~ (PollAuthorization(c) /\ authz[c][at[c]] = "valid")
      BY <1>5, <3>2, CallsGoOn, CallsPoll
         DEF PollAuthorization, PollOrderReady, PollOrder, Labels, Outcomes, Awaiting
    <3> QED
      BY <3>1, <3>2
  <2>2. Rest
    BY <1>5 DEF PollAuthorization, PollOrderReady, PollOrder, TypeOK, OrderStatus, AuthzStatus
  <2> QED
    BY <1>1, <2>1, <2>2
<1>6. ASSUME NEW c \in Calls, OpenOrder(c) \/ FinalizeOrder(c) PROVE TypeOK'
  <2>1. CallsTyped'
    BY <1>6, CallsGoOn DEF OpenOrder, FinalizeOrder, Labels, Outcomes, Awaiting
  <2>2. Rest
    BY <1>6 DEF OpenOrder, FinalizeOrder, TypeOK, OrderStatus, AuthzStatus
  <2> QED
    BY <1>1, <2>1, <2>2
<1>7. ASSUME NEW c \in Calls, AddToken(c) \/ Propagated(c) PROVE TypeOK'
  <2>1. CallsTyped'
    <3>1. provisioned[c] \cup {at[c]} \subseteq Ids
      BY CallTypes
    <3> QED
      BY <1>3, <1>7, <3>1 DEF AddToken, Propagated, CallsTyped, Goto, Labels, Awaiting
  <2>2. records' \subseteq Responses
    BY <1>7, CallTypes, HandlerTypes DEF AddToken, Propagated, AfterPublish, TypeOK
  <2>3. Rest
    BY <1>7, <2>2 DEF AddToken, Propagated, TypeOK, OrderStatus, AuthzStatus
  <2> QED
    BY <1>1, <2>1, <2>3
<1>8. ASSUME NEW c \in Calls, CreateRecord(c) \/ ProvisionFails(c) PROVE TypeOK'
  <2>1. CallsTyped'
    BY <1>8, CallsGoOn DEF CreateRecord, ProvisionFails, Labels, Outcomes, Awaiting
  <2>2. records' \subseteq Responses
    BY <1>8, CallTypes, HandlerTypes DEF CreateRecord, ProvisionFails, AfterPublish, TypeOK
  <2>3. tracked' \subseteq Responses
    BY <1>8, CallTypes DEF CreateRecord, ProvisionFails, TypeOK
  <2>4. Rest
    BY <1>8, <2>2, <2>3 DEF CreateRecord, ProvisionFails, TypeOK, OrderStatus, AuthzStatus
  <2> QED
    BY <1>1, <2>1, <2>4
<1>9. ASSUME NEW c \in Calls, Respond(c) PROVE TypeOK'
  <2>1. CallsTyped'
    <3>1. (at[c] < N => at[c] + 1 \in Ids) /\ 1 \in Ids
      BY CallTypes, IdFacts
    <3> QED
      BY <1>3, <1>9, <3>1 DEF Respond, CallsTyped, Goto, Labels, Awaiting
  <2>2. authz' \in [Calls -> [Ids -> AuthzStatus]]
    BY <1>9 DEF Respond, TypeOK, AuthzStatus
  <2>3. Rest
    BY <1>9, <2>2 DEF Respond, TypeOK, OrderStatus
  <2> QED
    BY <1>1, <2>1, <2>3
<1>10. ASSUME NEW c \in Calls, Deprovision(c) PROVE TypeOK'
  <2>1. PICK i \in provisioned[c] :
           /\ provisioned' = [provisioned EXCEPT ![c] = @ \ {i}]
           /\ tracked' = tracked \ {<<c, i>>}
           /\ records' = Withdraw(records, <<c, i>>) \/ records' = records
    BY <1>10 DEF Deprovision
  <2>2. CallsTyped'
    BY <1>3, <1>10, <2>1 DEF Deprovision, CallsTyped
  <2>3. Rest
    BY <1>10, <2>1 DEF Deprovision, Withdraw, TypeOK, OrderStatus, AuthzStatus
  <2> QED
    BY <1>1, <2>2, <2>3
<1>11. ASSUME NEW c \in Calls, Conclude(c) PROVE TypeOK'
  <2>1. CallsTyped'
    BY <1>11, CallsGoOn DEF Conclude, Labels, Outcomes
  <2>2. Rest
    BY <1>11 DEF Conclude, ConcludeAs, TypeOK, OrderStatus, AuthzStatus
  <2> QED
    BY <1>1, <2>1, <2>2
<1>12. ASSUME NEW c \in Calls, Cancel(c) PROVE TypeOK'
  <2>1. CallsTyped'
    <3>1. CASE Raise(c, "cancelled")
      BY <3>1, CallsGoOn DEF Labels, Outcomes
    <3>2. CASE ~ Raise(c, "cancelled")
      BY <1>3, <1>12, <3>2 DEF Cancel, CallsTyped, Goto, Labels, Outcomes
    <3> QED
      BY <3>1, <3>2
  <2>2. late' \subseteq Changes /\ tracked' \subseteq Responses
    <3>1. ASSUME NEW o \in {"create", "delete"}, NEW r \in Responses, GivesUp(o, r)
          PROVE  late' \subseteq Changes
      BY <3>1 DEF GivesUp, Changes, TypeOK
    <3>2. CASE UNCHANGED <<tracked, late>>
      BY <3>2 DEF TypeOK
    <3>3. CASE GivesUp("create", Current(c)) /\ UNCHANGED tracked
      BY <3>1, <3>3, CallTypes DEF TypeOK
    <3>4. CASE \E i \in provisioned[c] : /\ tracked' = tracked \ {<<c, i>>}
                                         /\ GivesUp("delete", <<c, i>>)
      <4>1. PICK i \in provisioned[c] : /\ tracked' = tracked \ {<<c, i>>}
                                        /\ GivesUp("delete", <<c, i>>)
        BY <3>4
      <4>2. <<c, i>> \in Responses
        BY CallTypes DEF Responses
      <4> QED
        BY <3>1, <4>1, <4>2 DEF TypeOK
    <3> QED
      BY <1>12, <3>2, <3>3, <3>4 DEF Cancel
  <2>3. Rest
    BY <1>12, <2>2 DEF Cancel, TypeOK, OrderStatus, AuthzStatus
  <2> QED
    BY <1>1, <2>1, <2>3
<1>13. ASSUME NEW change \in late, TakesEffectLate(change) PROVE TypeOK'
  <2>1. change.response \in Responses /\ late' \subseteq Changes
    BY <1>13 DEF TakesEffectLate, TypeOK, Changes
  <2>2. records' \subseteq Responses
    BY <1>13, <2>1, HandlerTypes DEF TakesEffectLate, TypeOK
  <2>3. Rest /\ UNCHANGED callVars
    BY <1>13, <2>1, <2>2 DEF TakesEffectLate, TypeOK, OrderStatus, AuthzStatus
  <2> QED
    BY <1>1, <1>2, <1>3, <2>3
<1>14. ASSUME NEW c \in Calls, ServerStep(c) PROVE TypeOK'
  <2>1. UNCHANGED callVars
    BY <1>14 DEF ServerStep, Validate, DecideOrder, IssueCertificate, CompleteEarly
  <2>2. authz' \in [Calls -> [Ids -> AuthzStatus]]
    <3>1. CASE \E i \in Ids : Validate(c, i)
      <4>1. PICK i \in Ids, result \in {"valid", "invalid"} :
               authz' = [authz EXCEPT ![c][i] = result]
        BY <3>1 DEF Validate
      <4> QED
        BY <4>1 DEF TypeOK, AuthzStatus
    <3>2. CASE UNCHANGED authz
      BY <3>2 DEF TypeOK, AuthzStatus
    <3> QED
      BY <1>14, <3>1, <3>2 DEF ServerStep, DecideOrder, IssueCertificate, CompleteEarly
  <2>3. order' \in [Calls -> OrderStatus]
    <3>1. order' = order \/ \E s \in OrderStatus : order' = [order EXCEPT ![c] = s]
      BY <1>14 DEF ServerStep, Validate, DecideOrder, IssueCertificate, CompleteEarly,
                   OrderStatus
    <3> QED
      BY <3>1 DEF TypeOK, OrderStatus
  <2>4. Rest
    BY <1>14, <2>2, <2>3
       DEF ServerStep, Validate, DecideOrder, IssueCertificate, CompleteEarly, TypeOK
  <2> QED
    BY <1>1, <1>2, <1>3, <2>1, <2>4
<1>15. CASE UNCHANGED vars
  BY <1>15 DEF vars, TypeOK
<1> QED
  BY <1>4, <1>5, <1>6, <1>7, <1>8, <1>9, <1>10, <1>11, <1>12, <1>13, <1>14, <1>15
     DEF Next, ClientStep

-----------------------------------------------------------------------------
(* One call *)

\* Nothing about call d changes.
Stays(d) ==
    /\ pc'[d] = pc[d] /\ at'[d] = at[d] /\ provisioned'[d] = provisioned[d]
    /\ outcome'[d] = outcome[d]
    /\ order'[d] = order[d] /\ authz'[d] = authz[d] /\ certKey'[d] = certKey[d]
    /\ (d \in stored' <=> d \in stored) /\ (d \in recorded' <=> d \in recorded)

\* What a call and the server do for call c changes nothing about call d.
LEMMA OthersStay ==
    ASSUME TypeOK, NEW c \in Calls, NEW d \in Calls \ {c},
           ClientStep(c) \/ Cancel(c) \/ ServerStep(c)
    PROVE  Stays(d) /\ scenario' = scenario
<1> USE DEF serverVars, handlerVars, callVars
<1>1. CASE CheckRateLimit(c) \/ PropagationTimesOut(c) \/ DownloadCertificate(c)
                \/ Reraise(c) \/ RequestFails(c) \/ Return(c) \/ Notified(c)
  BY <1>1 DEF TypeOK, Stays, CheckRateLimit, PropagationTimesOut, DownloadCertificate,
     Reraise, RequestFails, Return, Notified, NextStep, Raise, ConcludeAs, Goto
<1>2. CASE PollAuthorization(c) \/ PollOrderReady(c) \/ PollOrder(c)
  BY <1>2 DEF TypeOK, Stays, PollAuthorization, PollOrderReady, PollOrder, KeepPolling, Advance,
     NextStep, Raise, Goto
<1>3. CASE OpenOrder(c) \/ FinalizeOrder(c)
  BY <1>3 DEF TypeOK, Stays, OpenOrder, FinalizeOrder, NextStep, Raise, Goto
<1>4. CASE AddToken(c) \/ Propagated(c) \/ CreateRecord(c) \/ ProvisionFails(c)
  BY <1>4 DEF TypeOK, Stays, AddToken, Propagated, CreateRecord, ProvisionFails, NextStep, Raise,
     Goto
<1>5. CASE Respond(c) \/ Deprovision(c)
  BY <1>5 DEF TypeOK, Stays, Respond, Deprovision, Goto
<1>6. CASE Conclude(c)
  BY <1>6 DEF TypeOK, Stays, Conclude, ConcludeAs, Goto
<1>7. CASE Cancel(c)
  BY <1>7 DEF TypeOK, Stays, Cancel, Raise, Goto
<1>8. CASE ServerStep(c)
  BY <1>8 DEF TypeOK, Stays, ServerStep, Validate, DecideOrder, IssueCertificate, CompleteEarly
<1> QED
  BY <1>1, <1>2, <1>3, <1>4, <1>5, <1>6, <1>7, <1>8 DEF ClientStep

\* The scenario never changes.
LEMMA ScenarioStays ==
    ASSUME [Next]_vars
    PROVE  scenario' = scenario
<1>1. ASSUME NEW c \in Calls,
             \/ CheckRateLimit(c) \/ OpenOrder(c) \/ AddToken(c) \/ CreateRecord(c)
             \/ ProvisionFails(c) \/ Propagated(c) \/ PropagationTimesOut(c) \/ Respond(c)
             \/ PollAuthorization(c) \/ PollOrderReady(c)
      PROVE  scenario' = scenario
  BY <1>1 DEF CheckRateLimit, OpenOrder, AddToken, CreateRecord, ProvisionFails, Propagated,
     PropagationTimesOut, Respond, PollAuthorization, PollOrderReady
<1>2. ASSUME NEW c \in Calls,
             \/ FinalizeOrder(c) \/ PollOrder(c) \/ DownloadCertificate(c) \/ Deprovision(c)
             \/ Reraise(c) \/ Conclude(c) \/ Return(c) \/ Notified(c) \/ RequestFails(c)
      PROVE  scenario' = scenario
  BY <1>2 DEF FinalizeOrder, PollOrder, DownloadCertificate, Deprovision, Reraise, Conclude,
     ConcludeAs, Return, Notified, RequestFails
<1>3. ASSUME NEW c \in Calls, Cancel(c) \/ ServerStep(c)
      PROVE  scenario' = scenario
  BY <1>3 DEF Cancel, ServerStep, Validate, DecideOrder, IssueCertificate, CompleteEarly
<1>4. ASSUME NEW change \in late, TakesEffectLate(change)
      PROVE  scenario' = scenario
  BY <1>4 DEF TakesEffectLate
<1>5. CASE UNCHANGED vars
  BY <1>5 DEF vars
<1> QED
  BY <1>1, <1>2, <1>3, <1>4, <1>5 DEF Next, ClientStep

\* A call that does its steps in order, asks, fetches and keeps as it should.
Proper(c) == InOrder(c) /\ Asked(c) /\ Fetched(c) /\ Kept(c)

\* A call nothing happens to stays proper.
LEMMA ProperStays ==
    ASSUME NEW d \in Calls, Proper(d), Stays(d), scenario' = scenario
    PROVE  Proper(d)'
  BY DEF Proper, InOrder, Asked, Fetched, Kept, Stays

\* Its own steps keep it proper.
LEMMA ProperStep ==
    ASSUME TypeOK, NEW c \in Calls, Proper(c), ClientStep(c) \/ Cancel(c) \/ ServerStep(c)
    PROVE  Proper(c)'
<1> USE DEF serverVars, handlerVars, callVars
<1>1. CASE CheckRateLimit(c) \/ PropagationTimesOut(c) \/ DownloadCertificate(c)
                \/ Reraise(c) \/ RequestFails(c) \/ Return(c) \/ Notified(c)
  BY <1>1, CallTypes DEF TypeOK, Proper, InOrder, Asked, Fetched, Kept, CheckRateLimit,
     PropagationTimesOut, DownloadCertificate,
     Reraise, RequestFails, Return, Notified, NextStep, Raise, ConcludeAs, Goto, Awaiting, Labels
<1>2. CASE PollAuthorization(c) \/ PollOrderReady(c) \/ PollOrder(c)
  BY <1>2, CallTypes DEF TypeOK, Proper, InOrder, Asked, Fetched, Kept, 
     PollAuthorization, PollOrderReady, PollOrder, KeepPolling, Advance,
     NextStep, Raise, Goto, Awaiting, Labels
<1>3. CASE OpenOrder(c) \/ FinalizeOrder(c)
  BY <1>3, CallTypes DEF TypeOK, Proper, InOrder, Asked, Fetched, Kept, 
     OpenOrder, FinalizeOrder, NextStep, Raise, Goto, Awaiting, Labels
<1>4. CASE AddToken(c) \/ Propagated(c) \/ CreateRecord(c) \/ ProvisionFails(c)
  BY <1>4, CallTypes DEF TypeOK, Proper, InOrder, Asked, Fetched, Kept, 
     AddToken, Propagated, CreateRecord, ProvisionFails, NextStep, Raise,
     Goto, Awaiting, Labels
<1>5. CASE Respond(c)
  <2>1. /\ pc[c] = "respond" /\ at[c] \in Ids /\ order[c] \in OrderStatus
        /\ authz[c] \in [Ids -> AuthzStatus]
    BY <1>5, CallTypes DEF Respond
  <2>2. /\ \/ at[c] < N /\ at'[c] = at[c] + 1 /\ pc'[c] = "provision"
           \/ pc'[c] = "authz"
        /\ UNCHANGED <<scenario, provisioned, outcome, order, certKey, stored, recorded>>
    BY <1>5 DEF Respond, Goto, TypeOK
  <2>3. authz'[c] = [authz[c] EXCEPT ![at[c]] = "processing"]
    BY <1>5 DEF Respond, TypeOK
  <2>4. authz[c][at[c]] = "pending" /\ \A i \in Ids : at[c] <= i => authz[c][i] = "pending"
    <3>1. at[c] <= at[c]
      BY <2>1, IdFacts
    <3> QED
      BY <2>1, <3>1 DEF Proper, Asked
  <2>5. order[c] \notin {"ready", "processing", "valid"}
    BY <2>1, <2>4 DEF Proper, Asked
  <2>6. ASSUME at[c] < N, at'[c] = at[c] + 1, NEW i \in Ids, at'[c] <= i
        PROVE  authz'[c][i] = "pending"
    <3>1. \A m, k \in Nat : m + 1 <= k => m <= k /\ k # m
      OBVIOUS
    <3>2. at[c] \in Nat /\ i \in Nat
      BY <2>1, IdFacts
    <3>3. at[c] + 1 <= i
      BY <2>6
    <3>4. at[c] <= i /\ i # at[c]
      BY <3>1, <3>2, <3>3
    <3> QED
      BY <2>1, <2>3, <2>4, <3>4
  <2>7. Asked(c)'
    BY <2>2, <2>5, <2>6 DEF Asked
  <2>8. (InOrder(c) /\ Fetched(c) /\ Kept(c))'
    BY <2>1, <2>2 DEF Proper, InOrder, Fetched, Kept
  <2> QED
    BY <2>7, <2>8 DEF Proper
<1>6. CASE Deprovision(c)
  BY <1>6, CallTypes DEF TypeOK, Proper, InOrder, Asked, Fetched, Kept, Deprovision
<1>7. CASE Conclude(c)
  BY <1>7, CallTypes DEF TypeOK, Proper, InOrder, Asked, Fetched, Kept, Conclude, Concluding, ConcludeAs, Goto, Awaiting, Labels
<1>8. CASE Cancel(c)
  BY <1>8, CallTypes DEF TypeOK, Proper, InOrder, Asked, Fetched, Kept, Cancel, Raise, Goto, Awaiting, Labels
<1>9. CASE DecideOrder(c) \/ IssueCertificate(c) \/ CompleteEarly(c)
  <2>1. /\ UNCHANGED <<scenario, pc, at, provisioned, outcome, authz, stored, recorded>>
        /\ pc[c] \in Labels
    BY <1>9, CallTypes DEF DecideOrder, IssueCertificate, CompleteEarly
  <2>2. /\ order[c] \in {"pending", "processing", "ready"}
        /\ order'[c] \in {"ready", "processing", "valid"} => \A i \in Ids : authz[c][i] = "valid"
    BY <1>9 DEF DecideOrder, IssueCertificate, CompleteEarly, TypeOK, Proper, Asked
  <2>3. (InOrder(c) /\ Asked(c) /\ Kept(c))'
    BY <2>1, <2>2 DEF Proper, InOrder, Asked, Kept
  <2>4. Fetched(c)'
    BY <2>1, <2>2 DEF Proper, Fetched
  <2> QED
    BY <2>3, <2>4 DEF Proper
<1>10. ASSUME NEW i \in Ids, Validate(c, i) PROVE Proper(c)'
  <2>1. /\ UNCHANGED <<scenario, pc, at, provisioned, outcome, order, certKey, stored, recorded>>
        /\ authz[c][i] = "processing" /\ authz[c] \in [Ids -> AuthzStatus]
    BY <1>10, CallTypes DEF Validate
  <2>2. \A j \in Ids : j # i => authz'[c][j] = authz[c][j]
    BY <1>10 DEF Validate, TypeOK
  <2>3. Asked(c)'
    BY <2>1, <2>2 DEF Proper, Asked
  <2>4. (InOrder(c) /\ Fetched(c) /\ Kept(c))'
    BY <2>1 DEF Proper, InOrder, Fetched, Kept
  <2> QED
    BY <2>3, <2>4 DEF Proper
<1> QED
  BY <1>1, <1>2, <1>3, <1>4, <1>5, <1>6, <1>7, <1>8, <1>9, <1>10 DEF ClientStep, ServerStep

-----------------------------------------------------------------------------
(* The published responses *)

\* Where the provider does not replace the responses of others, publishing
\* one adds it.
LEMMA PublishAdds ==
    ASSUME Apart, NEW r \in Responses, records \subseteq Responses
    PROVE  Publish(scenario.handler, scenario.sharing, records, r) = records \cup {r}
<1>1. CASE scenario.handler # "route53"
  BY <1>1 DEF Publish
<1>2. CASE scenario.sharing = {}
  <2>1. ASSUME NEW q \in records, q # r
        PROVE  RecordName({}, q) # RecordName({}, r)
    BY <2>1 DEF RecordName, Responses
  <2> QED
    BY <1>2, <2>1 DEF Publish
<1> QED
  BY <1>1, <1>2 DEF Apart

\* A response disappears only when its call removes it or is over.
LEMMA RecordsStay ==
    ASSUME TypeOK, LateRemovals, Apart, Next,
           NEW d \in Calls, NEW i \in Ids, <<d, i>> \in records, <<d, i>> \notin records'
    PROVE  pc'[d] \in {"cleanup", "done"}
<1> USE DEF serverVars, handlerVars, callVars
<1>1. ASSUME NEW c \in Calls, AddToken(c) \/ CreateRecord(c) \/ ProvisionFails(c)
      PROVE  FALSE
  <2>1. records' = records \cup {Current(c)} \/ records' = records
    BY <1>1, CallTypes, PublishAdds
       DEF AddToken, CreateRecord, ProvisionFails, AfterPublish, TypeOK
  <2> QED
    BY <2>1
<1>2. ASSUME NEW c \in Calls, Deprovision(c)
      PROVE  pc'[d] = "cleanup"
  BY <1>2 DEF Deprovision, Withdraw
<1>3. ASSUME NEW change \in late, TakesEffectLate(change)
      PROVE  pc'[d] = "done"
  <2>1. change.response \in Responses
    BY <1>3 DEF TypeOK, Changes
  <2>2. change.op = "create" => records' = records \cup {change.response}
    BY <1>3, <2>1, PublishAdds DEF TakesEffectLate, TypeOK
  <2>3. change.op = "delete" /\ change.response = <<d, i>>
    BY <1>3, <2>2 DEF TakesEffectLate, Withdraw
  <2> QED
    BY <1>3, <2>3 DEF LateRemovals, TakesEffectLate
<1>4. ASSUME NEW c \in Calls,
             \/ CheckRateLimit(c) \/ OpenOrder(c) \/ Propagated(c) \/ PropagationTimesOut(c)
             \/ Respond(c) \/ PollAuthorization(c) \/ PollOrderReady(c) \/ FinalizeOrder(c)
             \/ PollOrder(c) \/ DownloadCertificate(c) \/ Reraise(c) \/ Conclude(c)
             \/ Return(c) \/ Notified(c) \/ RequestFails(c) \/ Cancel(c) \/ ServerStep(c)
      PROVE  FALSE
  BY <1>4 DEF CheckRateLimit, OpenOrder, Propagated, PropagationTimesOut, Respond,
     PollAuthorization, PollOrderReady, FinalizeOrder, PollOrder, DownloadCertificate, Reraise,
     Conclude, ConcludeAs, Return, Notified, RequestFails, Cancel, ServerStep, Validate, DecideOrder,
     IssueCertificate, CompleteEarly
<1> QED
  BY <1>1, <1>2, <1>3, <1>4 DEF Next, ClientStep

\* A call that is over stays so, and only such a call leaves a removal behind.
LEMMA LateRemovalsStep ==
    ASSUME TypeOK, LateRemovals, [Next]_vars
    PROVE  LateRemovals'
<1> USE DEF serverVars, handlerVars, callVars
<1>1. CASE UNCHANGED vars
  BY <1>1 DEF vars, LateRemovals
<1>2. ASSUME NEW change \in late, TakesEffectLate(change) PROVE LateRemovals'
  BY <1>2 DEF TakesEffectLate, LateRemovals
<1>3. ASSUME NEW c \in Calls, ClientStep(c) \/ Cancel(c) \/ ServerStep(c)
      PROVE  LateRemovals'
  <2>1. ASSUME NEW d \in Calls, pc[d] = "done" PROVE pc'[d] = "done"
    <3>1. CASE d # c
      BY <1>3, <2>1, <3>1, OthersStay DEF Stays
    <3>2. CASE d = c /\ ClientStep(c)
      BY <2>1, <3>2 DEF ClientStep, CheckRateLimit, OpenOrder, AddToken, CreateRecord,
         ProvisionFails, Propagated, PropagationTimesOut, Respond, PollAuthorization,
         PollOrderReady, FinalizeOrder, PollOrder, DownloadCertificate, Deprovision, Reraise,
         Conclude, Concluding, Return, Notified, RequestFails
    <3>3. CASE d = c /\ Cancel(c)
      BY <2>1, <3>3 DEF Cancel, Awaiting
    <3>4. CASE d = c /\ ServerStep(c)
      BY <2>1, <3>4 DEF ServerStep, Validate, DecideOrder, IssueCertificate, CompleteEarly
    <3> QED
      BY <1>3, <3>1, <3>2, <3>3, <3>4
  <2>2. ASSUME NEW change \in late', change \notin late, change.op = "delete"
        PROVE  pc'[change.response[1]] = "done"
    <3>1. Cancel(c)
      BY <1>3, <2>2 DEF ClientStep, CheckRateLimit, OpenOrder, AddToken, CreateRecord,
         ProvisionFails, Propagated, PropagationTimesOut, Respond, PollAuthorization,
         PollOrderReady, FinalizeOrder, PollOrder, DownloadCertificate, Deprovision, Reraise,
         Conclude, ConcludeAs, Return, Notified, RequestFails, ServerStep, Validate, DecideOrder,
         IssueCertificate, CompleteEarly
    <3>2. /\ pc' = [pc EXCEPT ![c] = "done"]
          /\ \E i \in provisioned[c] : GivesUp("delete", <<c, i>>)
      BY <2>2, <3>1 DEF Cancel, GivesUp, Goto
    <3>3. change.response[1] = c
      BY <2>2, <3>2 DEF GivesUp
    <3> QED
      BY <3>2, <3>3 DEF TypeOK
  <2>3. ASSUME NEW change \in late PROVE change.response[1] \in Calls
    BY <2>3 DEF TypeOK, Changes, Responses
  <2> QED
    BY <2>1, <2>2, <2>3 DEF LateRemovals
<1> QED
  BY <1>1, <1>2, <1>3 DEF Next

\* Call d announces nothing new.
Quiet(d) ==
    /\ pc'[d] \in {"propagate", "respond"} =>
          (pc[d] = pc'[d] /\ at'[d] = at[d]) \/ Current(d)' \in records'
    /\ pc'[d] \in Awaiting => pc[d] \in Awaiting
    /\ \A i \in Ids : authz'[d][i] = "processing" => authz[d][i] = "processing"

\* Then it keeps its responses.
LEMMA PublicStays ==
    ASSUME TypeOK, LateRemovals, Apart, Next, NEW d \in Calls, Public(d), Quiet(d)
    PROVE  Public(d)'
<1>1. ASSUME pc'[d] \in {"propagate", "respond"} PROVE Current(d)' \in records'
  <2>1. CASE pc[d] = pc'[d] /\ at'[d] = at[d]
    <3>1. <<d, at[d]>> \in records /\ at[d] \in Ids
      BY <1>1, <2>1, CallTypes DEF Public, Current
    <3>2. <<d, at[d]>> \in records'
      BY <1>1, <3>1, RecordsStay
    <3> QED
      BY <2>1, <3>2 DEF Current
  <2> QED
    BY <1>1, <2>1 DEF Quiet
<1>2. ASSUME NEW i \in Ids, pc'[d] \in Awaiting, authz'[d][i] = "processing"
      PROVE  <<d, i>> \in records'
  <2>1. <<d, i>> \in records
    BY <1>2 DEF Public, Quiet
  <2> QED
    BY <1>2, <2>1, RecordsStay DEF Awaiting
<1> QED
  BY <1>1, <1>2 DEF Public

\* Whatever happens, the responses a call waits for stay published.
LEMMA PublishedStep ==
    ASSUME TypeOK, LateRemovals, Published, \A c \in Calls : Proper(c), [Next]_vars
    PROVE  Published'
<1> USE DEF serverVars, handlerVars, callVars
<1>1. CASE UNCHANGED vars
  BY <1>1 DEF vars, Published, Public, Current, Apart
<1>2. scenario' = scenario
  BY ScenarioStays
<1>3. SUFFICES ASSUME Next, Apart, NEW d \in Calls PROVE Public(d)'
  BY <1>1, <1>2 DEF Published, Apart
<1>4. Public(d) /\ Proper(d)
  BY <1>3 DEF Published
<1>quiet. Quiet(d) => Public(d)'
  BY <1>3, <1>4, PublicStays
<1>5. CASE Stays(d)
  BY <1>quiet, <1>5 DEF Quiet, Stays
<1>6. ASSUME NEW change \in late, TakesEffectLate(change) PROVE Public(d)'
  BY <1>quiet, <1>6 DEF Quiet, TakesEffectLate
<1>7. CASE CheckRateLimit(d) \/ PropagationTimesOut(d) \/ DownloadCertificate(d)
                \/ Reraise(d) \/ RequestFails(d) \/ Return(d) \/ Notified(d)
  <2>1. authz' = authz
    BY <1>7 DEF CheckRateLimit, PropagationTimesOut, DownloadCertificate, Reraise, RequestFails,
       Return, Notified, ConcludeAs
  <2>2. pc'[d] \in {"order", "notify", "cleanup", "done"}
    BY <1>7 DEF TypeOK, CheckRateLimit, PropagationTimesOut, DownloadCertificate,
     Reraise, RequestFails, Return, Notified, NextStep, Raise, ConcludeAs, Goto, Awaiting
  <2> QED
    BY <1>quiet, <2>1, <2>2 DEF Quiet, Awaiting
<1>8. CASE PollAuthorization(d) \/ PollOrderReady(d) \/ PollOrder(d)
  BY <1>quiet, <1>8 DEF Quiet, TypeOK,
     PollAuthorization, PollOrderReady, PollOrder, KeepPolling, Advance,
     NextStep, Raise, Goto, Awaiting
<1>9. CASE FinalizeOrder(d) \/ Deprovision(d) \/ Conclude(d) \/ Cancel(d)
  BY <1>quiet, <1>9 DEF Quiet, TypeOK, FinalizeOrder, Deprovision, Conclude, Concluding,
     ConcludeAs, Cancel, NextStep, Raise, Goto, Awaiting
<1>10. CASE OpenOrder(d)
  <2>1. pc'[d] = "provision" /\ authz' = authz /\ \A i \in Ids : authz[d][i] = "pending"
    BY <1>4, <1>10 DEF OpenOrder, NextStep, Goto, TypeOK, Proper, Asked
  <2> QED
    BY <2>1 DEF Public
<1>11. CASE AddToken(d) \/ CreateRecord(d)
  <2>1. /\ pc[d] = "provision" /\ at' = at /\ authz' = authz
        /\ records' = AfterPublish(d)
    BY <1>11 DEF AddToken, CreateRecord, NextStep
  <2>2. Current(d)' \in records'
    BY <1>3, <2>1, CallTypes, PublishAdds DEF AfterPublish, Current, TypeOK
  <2> QED
    BY <1>quiet, <2>1, <2>2 DEF Quiet, Awaiting
<1>12. CASE ProvisionFails(d) \/ Propagated(d)
  <2>1. CASE ProvisionFails(d)
    BY <1>quiet, <2>1 DEF Quiet, TypeOK, ProvisionFails, Raise, Goto, Awaiting
  <2>2. CASE Propagated(d)
    BY <1>4, <2>2 DEF TypeOK, Propagated, Goto, Awaiting, Public, Current
  <2> QED
    BY <1>12, <2>1, <2>2
<1>13. CASE Respond(d)
  <2>1. /\ pc[d] = "respond" /\ pc'[d] \in {"provision", "authz"} /\ records' = records
        /\ \A i \in Ids : i # at[d] => authz'[d][i] = authz[d][i]
    BY <1>13, CallTypes DEF Respond, Goto, TypeOK
  <2>2. Current(d) \in records
    BY <1>4, <2>1 DEF Public
  <2> QED
    BY <1>4, <2>1, <2>2 DEF Public, Current, Awaiting
<1>14. CASE ServerStep(d)
  <2>1. ASSUME NEW i \in Ids, Validate(d, i) PROVE Public(d)'
    BY <1>quiet, <2>1 DEF Quiet, TypeOK, Validate
  <2>2. CASE DecideOrder(d) \/ IssueCertificate(d) \/ CompleteEarly(d)
    BY <1>quiet, <2>2 DEF Quiet, DecideOrder, IssueCertificate, CompleteEarly
  <2> QED
    BY <1>14, <2>1, <2>2 DEF ServerStep
<1>15. ASSUME NEW c \in Calls, c # d, ClientStep(c) \/ Cancel(c) \/ ServerStep(c)
       PROVE  Stays(d)
  BY <1>15, OthersStay
<1> QED
  BY <1>3, <1>5, <1>6, <1>7, <1>8, <1>9, <1>10, <1>11, <1>12, <1>13, <1>14, <1>15
     DEF Next, ClientStep

-----------------------------------------------------------------------------
(* The cleanup *)

\* What happens to a call changes nothing about the responses of another.
LEMMA OthersListed ==
    ASSUME TypeOK, NEW c \in Calls, NEW d \in Calls \ {c}, Listed(d),
           ClientStep(c) \/ Cancel(c) \/ ServerStep(c)
    PROVE  Listed(d)'
<1> USE DEF serverVars, handlerVars, callVars
<1>1. Stays(d) /\ scenario' = scenario
  BY OthersStay
<1>2. ASSUME NEW i \in Ids
      PROVE  /\ <<d, i>> \in records' => <<d, i>> \in records
             /\ <<d, i>> \in tracked => <<d, i>> \in tracked'
  <2>1. Current(c) # <<d, i>> /\ \A j : <<c, j>> # <<d, i>>
    BY DEF Current
  <2>2. CASE AddToken(c) \/ CreateRecord(c) \/ ProvisionFails(c)
    <3>1. records' \subseteq records \cup {Current(c)} /\ tracked \subseteq tracked'
      BY <2>2, CallTypes, HandlerTypes
         DEF AddToken, CreateRecord, ProvisionFails, AfterPublish, TypeOK
    <3> QED
      BY <2>1, <3>1
  <2>3. CASE Deprovision(c) \/ Cancel(c)
    BY <2>1, <2>3 DEF Deprovision, Cancel, Withdraw
  <2>4. CASE \/ CheckRateLimit(c) \/ OpenOrder(c) \/ Propagated(c) \/ PropagationTimesOut(c)
             \/ Respond(c) \/ PollAuthorization(c) \/ PollOrderReady(c) \/ FinalizeOrder(c)
             \/ PollOrder(c) \/ DownloadCertificate(c) \/ Reraise(c) \/ Conclude(c)
             \/ Return(c) \/ Notified(c) \/ RequestFails(c) \/ ServerStep(c)
    BY <2>4 DEF CheckRateLimit, OpenOrder, Propagated, PropagationTimesOut, Respond,
     PollAuthorization, PollOrderReady, FinalizeOrder, PollOrder, DownloadCertificate, Reraise,
     Conclude, ConcludeAs, Return, Notified, RequestFails, ServerStep, Validate, DecideOrder,
     IssueCertificate, CompleteEarly
  <2> QED
    BY <2>2, <2>3, <2>4 DEF ClientStep
<1>3. at[d] \in Ids /\ provisioned[d] \subseteq Ids
  BY CallTypes
<1> QED
  BY <1>1, <1>2, <1>3 DEF Listed, Stays, Current

\* Its own steps keep its responses on the list.
LEMMA OwnListed ==
    ASSUME TypeOK, NEW c \in Calls, Listed(c), Proper(c), Tidy,
           ClientStep(c) \/ Cancel(c) \/ ServerStep(c)
    PROVE  Listed(c)' /\ late' = late
<1> USE DEF serverVars, handlerVars, callVars
<1>1. /\ at[c] \in Ids /\ provisioned[c] \subseteq Ids /\ Current(c) = <<c, at[c]>>
      /\ pc[c] = "propagate" => scenario.handler # "http"
  BY CallTypes DEF Current, Proper, InOrder
<1>2. CASE AddToken(c) \/ CreateRecord(c)
  <2>1. records' \subseteq records \cup {Current(c)}
    BY <1>2, CallTypes, HandlerTypes DEF AddToken, CreateRecord, AfterPublish, TypeOK
  <2>2. CASE AddToken(c)
    BY <1>1, <2>1, <2>2 DEF AddToken, Goto, TypeOK, Listed, Current
  <2>3. CASE CreateRecord(c)
    BY <1>1, <2>1, <2>3 DEF CreateRecord, NextStep, Goto, TypeOK, Listed, Current
  <2> QED
    BY <1>2, <2>2, <2>3
<1>3. CASE ProvisionFails(c)
  <2>1. UNCHANGED <<scenario, records, tracked, late, provisioned>> /\ pc[c] = "provision"
    BY <1>3 DEF ProvisionFails, Raise, Tidy
  <2> QED
    BY <2>1, <1>3 DEF ProvisionFails, Raise, Goto, TypeOK, Listed, Current, Awaiting
<1>4. CASE Propagated(c)
  BY <1>1, <1>4 DEF Propagated, Goto, TypeOK, Listed, Current
<1>5. ~ PropagationTimesOut(c)
  BY <1>1 DEF PropagationTimesOut, Tidy
<1>6. CASE Deprovision(c)
  <2>1. PICK i \in provisioned[c] :
          /\ provisioned' = [provisioned EXCEPT ![c] = @ \ {i}]
          /\ tracked' = tracked \ {<<c, i>>}
          /\ \/ records' = Withdraw(records, <<c, i>>)
             \/ /\ scenario.handler # "http"
                /\ <<c, i>> \in tracked => "deprovision" \in scenario.faults
    BY <1>6 DEF Deprovision
  <2>2. records' = records \ {<<c, i>>}
    BY <2>1 DEF Listed, Tidy, Withdraw
  <2>3. pc[c] = "cleanup" /\ UNCHANGED <<scenario, pc, at, late>>
    BY <1>6 DEF Deprovision
  <2>4. provisioned'[c] = provisioned[c] \ {i}
    BY <2>1 DEF TypeOK
  <2> QED
    BY <2>1, <2>2, <2>3, <2>4 DEF Listed
<1>7. CASE Cancel(c)
  <2>1. /\ pc[c] \notin {"propagate", "provision"} \/ scenario.handler = "http"
        /\ "cancel" \in scenario.faults /\ scenario.handler = "http"
    BY <1>7 DEF Cancel, Tidy
  <2>2. /\ UNCHANGED <<scenario, records, tracked, late, provisioned, at>>
        /\ pc[c] # "propagate"
    BY <1>1, <1>7, <2>1 DEF Cancel, Raise
  <2> QED
    BY <2>1, <2>2 DEF Listed
<1>8. CASE \/ CheckRateLimit(c) \/ OpenOrder(c)
           \/ Respond(c) \/ PollAuthorization(c) \/ PollOrderReady(c) \/ FinalizeOrder(c)
           \/ PollOrder(c) \/ DownloadCertificate(c) \/ Reraise(c) \/ Conclude(c)
           \/ Return(c) \/ Notified(c) \/ RequestFails(c) \/ ServerStep(c)
  <2>1. UNCHANGED <<scenario, records, tracked, late, provisioned>>
    BY <1>8 DEF CheckRateLimit, OpenOrder, Respond, KeepPolling, Advance, NextStep, Raise,
     PollAuthorization, PollOrderReady, FinalizeOrder, PollOrder, DownloadCertificate, Reraise,
     Conclude, ConcludeAs, Return, Notified, RequestFails, ServerStep, Validate, DecideOrder,
     IssueCertificate, CompleteEarly
  <2>2. pc'[c] = "propagate" => pc[c] = "propagate" /\ at'[c] = at[c]
    BY <1>8 DEF TypeOK, CheckRateLimit, OpenOrder, Respond, KeepPolling, Advance, NextStep,
     Raise, Goto, Awaiting,
     PollAuthorization, PollOrderReady, FinalizeOrder, PollOrder, DownloadCertificate, Reraise,
     Conclude, ConcludeAs, Return, Notified, RequestFails, ServerStep, Validate, DecideOrder,
     IssueCertificate, CompleteEarly
  <2>3. pc[c] = "propagate" => pc'[c] = pc[c]
    BY <1>8 DEF CheckRateLimit, OpenOrder, Respond,
     PollAuthorization, PollOrderReady, FinalizeOrder, PollOrder, DownloadCertificate, Reraise,
     Conclude, Concluding, Return, Notified, RequestFails, ServerStep, Validate, DecideOrder,
     IssueCertificate, CompleteEarly
  <2>4. pc[c] = "propagate" => at'[c] = at[c]
    BY <2>2, <2>3
  <2> QED
    BY <2>1, <2>2, <2>3, <2>4 DEF Listed, Current
<1> QED
  BY <1>2, <1>3, <1>4, <1>5, <1>6, <1>7, <1>8 DEF ClientStep

\* Every response stays on the list its call cleans up from.
LEMMA OnTheListStep ==
    ASSUME TypeOK, OnTheList, \A c \in Calls : Proper(c), [Next]_vars
    PROVE  OnTheList'
<1> USE DEF serverVars, handlerVars, callVars
<1>1. CASE UNCHANGED vars
  BY <1>1 DEF vars, OnTheList, Listed, Current, Tidy
<1>2. ASSUME NEW change \in late, TakesEffectLate(change) PROVE OnTheList'
  BY <1>2 DEF TakesEffectLate, OnTheList, Tidy
<1>3. ASSUME NEW c \in Calls, ClientStep(c) \/ Cancel(c) \/ ServerStep(c)
      PROVE  OnTheList'
  <2>1. scenario' = scenario
    BY <1>3, ScenarioStays DEF Next
  <2>2. SUFFICES ASSUME Tidy PROVE late' = {} /\ \A d \in Calls : Listed(d)'
    BY <2>1 DEF OnTheList, Tidy
  <2>3. late = {} /\ \A d \in Calls : Listed(d)
    BY <2>2 DEF OnTheList
  <2>4. Listed(c)' /\ late' = {}
    BY <1>3, <2>2, <2>3, OwnListed
  <2>5. ASSUME NEW d \in Calls \ {c} PROVE Listed(d)'
    BY <1>3, <2>3, <2>5, OthersListed
  <2> QED
    BY <2>4, <2>5
<1> QED
  BY <1>1, <1>2, <1>3 DEF Next

-----------------------------------------------------------------------------
(* The rate limit *)

\* The first step of a call asks the tracker; the last but one counts.
LEMMA OwnCount ==
    ASSUME TypeOK, NEW c \in Calls, ClientStep(c) \/ Cancel(c) \/ ServerStep(c)
    PROVE  \/ /\ recorded' = recorded /\ ~ Active(c)
              /\ scenario.sequential => \A d \in Calls : ~ Active(d)
              /\ Active(c)' => Cardinality(recorded) < Limit
           \/ /\ recorded' = recorded
              /\ Active(c)' => Active(c) /\ (pc[c] = "emit" => pc'[c] = "emit")
           \/ /\ recorded' = recorded \cup {c} /\ pc'[c] = "emit"
              /\ Active(c) /\ pc[c] # "emit"
<1> USE DEF serverVars, handlerVars, callVars
<1>1. CASE CheckRateLimit(c)
  BY <1>1, IssueAssumption DEF CheckRateLimit, NextStep, Raise, Goto, Active, Awaiting, TypeOK
<1>2. CASE Conclude(c)
  BY <1>2 DEF Conclude, Concluding, ConcludeAs, Goto, Active, TypeOK
<1>3. CASE \/ OpenOrder(c) \/ AddToken(c) \/ CreateRecord(c) \/ ProvisionFails(c)
           \/ Propagated(c) \/ PropagationTimesOut(c) \/ Respond(c) \/ PollAuthorization(c)
           \/ PollOrderReady(c) \/ FinalizeOrder(c) \/ PollOrder(c) \/ DownloadCertificate(c)
           \/ Deprovision(c) \/ Reraise(c) \/ Return(c) \/ Notified(c) \/ RequestFails(c)
  BY <1>3 DEF TypeOK, Active, OpenOrder, AddToken, CreateRecord, ProvisionFails, Propagated,
     PropagationTimesOut, Respond, PollAuthorization, PollOrderReady, FinalizeOrder, PollOrder,
     DownloadCertificate, Deprovision, Reraise, Return, Notified, RequestFails, ConcludeAs, KeepPolling,
     Advance, NextStep, Raise, Goto, Awaiting
<1>4. CASE Cancel(c)
  BY <1>4 DEF Cancel, Raise, Goto, Active, Awaiting, TypeOK
<1>5. CASE ServerStep(c)
  BY <1>5 DEF ServerStep, Validate, DecideOrder, IssueCertificate, CompleteEarly, Active
<1> QED
  BY <1>1, <1>2, <1>3, <1>4, <1>5 DEF ClientStep

\* Every step keeps the count.
LEMMA CountingStep ==
    ASSUME TypeOK, Counting, [Next]_vars
    PROVE  Counting'
<1> USE DEF serverVars, handlerVars, callVars
<1>1. CASE UNCHANGED vars
  BY <1>1 DEF vars, Counting, Active
<1>2. ASSUME NEW change \in late, TakesEffectLate(change) PROVE Counting'
  BY <1>2 DEF TakesEffectLate, Counting, Active
<1>3. ASSUME NEW c \in Calls, ClientStep(c) \/ Cancel(c) \/ ServerStep(c)
      PROVE  Counting'
  <2>1. scenario' = scenario
    BY <1>3, ScenarioStays DEF Next
  <2>2. \A d \in Calls \ {c} : pc'[d] = pc[d]
    BY <1>3, OthersStay DEF Stays
  <2>3. CASE /\ recorded' = recorded /\ ~ Active(c)
             /\ scenario.sequential => \A d \in Calls : ~ Active(d)
             /\ Active(c)' => Cardinality(recorded) < Limit
    BY <2>1, <2>2, <2>3 DEF Counting, Active
  <2>4. CASE /\ recorded' = recorded
             /\ Active(c)' => Active(c) /\ (pc[c] = "emit" => pc'[c] = "emit")
    BY <2>1, <2>2, <2>4 DEF Counting, Active
  <2>5. CASE /\ recorded' = recorded \cup {c} /\ pc'[c] = "emit"
             /\ Active(c) /\ pc[c] # "emit"
    <3>1. IsFiniteSet(recorded) /\ IsFiniteSet(recorded')
      BY <2>5, FS_AddElement DEF Counting
    <3>2. /\ Cardinality(recorded) \in Nat
          /\ Cardinality(recorded') \in {Cardinality(recorded), Cardinality(recorded) + 1}
      BY <2>5, <3>1, FS_AddElement, FS_CardinalityType
    <3>3. ASSUME scenario.sequential PROVE Cardinality(recorded) < Limit
      BY <2>5, <3>3 DEF Counting
    <3>4. scenario.sequential => Cardinality(recorded') <= Limit
      <4>1. \A m, n, l \in Nat : n \in {m, m + 1} /\ m < l => n <= l
        OBVIOUS
      <4>2. Limit \in Nat /\ Cardinality(recorded') \in Nat
        BY <3>1, IssueAssumption, FS_CardinalityType
      <4> QED
        BY <3>2, <3>3, <4>1, <4>2
    <3>5. scenario.sequential => \A d \in Calls : Active(d)' => d = c
      BY <2>2, <2>5 DEF Counting, Active
    <3> QED
      BY <2>1, <2>5, <3>1, <3>4, <3>5 DEF Counting
  <2> QED
    BY <1>3, <2>3, <2>4, <2>5, OwnCount
<1> QED
  BY <1>1, <1>2, <1>3 DEF Next

-----------------------------------------------------------------------------
(* The theorems *)

IssueInv ==
    /\ TypeOK /\ \A c \in Calls : Proper(c)
    /\ LateRemovals /\ Published /\ OnTheList /\ Counting

\* It holds initially.
LEMMA IssueInitially == Init => IssueInv
<1> SUFFICES ASSUME Init PROVE IssueInv
  OBVIOUS
<1>1. TypeOK
  <2>1. MaxPolls \in Nat /\ 1 \in Ids /\ 0 \in 0..MaxPolls
    BY IssueAssumption, IdFacts
  <2> QED
    BY <2>1 DEF Init, TypeOK
<1>2. ASSUME NEW c \in Calls PROVE Proper(c) /\ Public(c) /\ Listed(c) /\ ~ Active(c)
  BY <1>2 DEF Init, Proper, InOrder, Asked, Fetched, Kept, Public, Listed, Active, Awaiting
<1>3. Counting
  <2>1. IsFiniteSet(recorded) /\ Cardinality(recorded) = 0
    BY FS_EmptySet DEF Init
  <2> QED
    BY <1>2, <2>1, IssueAssumption DEF Counting
<1>4. LateRemovals /\ Published /\ OnTheList
  BY <1>2 DEF Init, LateRemovals, Published, OnTheList
<1> QED
  BY <1>1, <1>2, <1>3, <1>4 DEF IssueInv

\* Every step preserves it.
LEMMA IssueIsKept == IssueInv /\ [Next]_vars => IssueInv'
<1> SUFFICES ASSUME IssueInv, [Next]_vars PROVE IssueInv'
  OBVIOUS
<1>1. ASSUME NEW d \in Calls PROVE Proper(d)'
  <2>1. ASSUME NEW c \in Calls, c # d, ClientStep(c) \/ Cancel(c) \/ ServerStep(c)
        PROVE  Proper(d)'
    BY <2>1, OthersStay, ProperStays DEF IssueInv
  <2>2. ASSUME ClientStep(d) \/ Cancel(d) \/ ServerStep(d) PROVE Proper(d)'
    BY <2>2, ProperStep DEF IssueInv
  <2>3. ASSUME UNCHANGED vars \/ \E change \in late : TakesEffectLate(change)
        PROVE  Proper(d)'
    <3>1. Stays(d) /\ scenario' = scenario
      BY <2>3 DEF vars, callVars, serverVars, TakesEffectLate, Stays
    <3> QED
      BY <3>1, ProperStays DEF IssueInv
  <2> QED
    BY <2>1, <2>2, <2>3 DEF Next
<1> QED
  BY <1>1, TypeStep, LateRemovalsStep, PublishedStep, OnTheListStep, CountingStep DEF IssueInv

\* So it always holds.
LEMMA IssueInvariant == Spec => []IssueInv
  BY IssueInitially, IssueIsKept, PTL DEF Spec

\* Every variable has its type.
THEOREM TypeCorrect == Spec => []TypeOK
<1>1. IssueInv => TypeOK
  BY DEF IssueInv
<1> QED
  BY <1>1, IssueInvariant, PTL

\* While a call waits for the server, the responses it has announced can be
\* found, beside any other calls and the late effects of cancelled ones, unless
\* the provider replaces record sets that are shared.
THEOREM AnnouncedStays == Spec => []ResponseAvailable
<1>1. IssueInv => ResponseAvailable
  BY DEF IssueInv, ResponseAvailable, AnnouncedIsAvailable, Published, Public, Apart, Answers
<1> QED
  BY <1>1, IssueInvariant, PTL

\* issue() returns only bundles of completed orders with validated
\* authorizations, for the key of the call, stored and counted.
THEOREM ReturnedIsComplete == Spec => []IssuedIsComplete
<1>1. IssueInv => IssuedIsComplete
  BY DEF IssueInv, Proper, Asked, Fetched, IssuedIsComplete
<1> QED
  BY <1>1, IssueInvariant, PTL

\* A call that is over has removed every response it created, when the
\* provider tells what happened and nobody cancels.
THEOREM AllIsCleanedUp == Spec => []CleanedUp
<1>1. ASSUME IssueInv, Tidy, NEW r \in records PROVE pc[r[1]] # "done"
  <2>1. r = <<r[1], r[2]>> /\ r[1] \in Calls /\ r[2] \in Ids
    BY <1>1 DEF IssueInv, TypeOK, Responses
  <2> QED
    BY <1>1, <2>1 DEF IssueInv, OnTheList, Listed, Proper, InOrder
<1>2. IssueInv => CleanedUp
  BY <1>1 DEF CleanedUp, NothingLeftBehind, Tidy
<1> QED
  BY <1>2, IssueInvariant, PTL

\* Calls that run one after another never get more certificates than the limit.
THEOREM LimitBoundsReturned == Spec => []ReturnedWithinLimit
<1>1. ASSUME IssueInv, scenario.sequential
      PROVE  Cardinality({c \in Calls : outcome[c] = "issued"}) <= Limit
  <2> DEFINE Issued == {c \in Calls : outcome[c] = "issued"}
  <2>1. Issued \subseteq recorded
    BY <1>1 DEF IssueInv, Proper, Fetched
  <2>2. IsFiniteSet(recorded) /\ Cardinality(recorded) <= Limit
    BY <1>1 DEF IssueInv, Counting
  <2>3. /\ Cardinality(Issued) \in Nat /\ Cardinality(recorded) \in Nat
        /\ Cardinality(Issued) <= Cardinality(recorded)
    <3> HIDE DEF Issued
    <3> QED
      BY <2>1, <2>2, FS_Subset, FS_CardinalityType
  <2> HIDE DEF Issued
  <2>4. Cardinality(Issued) <= Limit
    BY <2>2, <2>3, IssueAssumption
  <2> QED
    BY <2>4 DEF Issued
<1>2. IssueInv => ReturnedWithinLimit
  BY <1>1 DEF ReturnedWithinLimit
<1> QED
  BY <1>2, IssueInvariant, PTL

\* The cleanup never loses the exception of a call, and a call that failed or
\* was cancelled is not counted without being stored.
THEOREM FailuresShow == Spec => FailureIsNotMasked
<1> DEFINE Shown(c) ==
        /\ outcome[c] \in {"failed", "cancelled"} => outcome'[c] \in {"failed", "cancelled"}
        /\ outcome'[c] = "failed" =>
               c \notin recorded' /\ (c \in stored' => "record" \in scenario.faults)
        /\ outcome'[c] = "cancelled" => (c \in stored' <=> c \in recorded')
<1>1. ASSUME IssueInv, IssueInv', Next, NEW c \in Calls PROVE Shown(c)
  <2>1. scenario' = scenario
    BY <1>1, ScenarioStays DEF Next
  <2>2. Kept(c)' /\ InOrder(c) /\ TypeOK
    BY <1>1 DEF IssueInv, Proper
  <2>3. ASSUME outcome[c] \in {"failed", "cancelled"}
        PROVE  outcome'[c] \in {"failed", "cancelled"}
    <3>1. pc[c] \in {"notify", "cleanup", "done"}
      BY <2>2, <2>3 DEF InOrder
    <3>2. ASSUME NEW d \in Calls, d # c, ClientStep(d) \/ Cancel(d) \/ ServerStep(d)
          PROVE  outcome'[c] = outcome[c]
      BY <2>2, <3>2, OthersStay DEF Stays
    <3>3. ASSUME ClientStep(c) PROVE outcome'[c] = outcome[c]
      BY <2>3, <3>1, <3>3 DEF ClientStep, CheckRateLimit, OpenOrder, AddToken, CreateRecord,
         ProvisionFails, Propagated, PropagationTimesOut, Respond, PollAuthorization,
         PollOrderReady, FinalizeOrder, PollOrder, DownloadCertificate, Deprovision, Reraise,
         Conclude, Concluding, Return, Notified, RequestFails, NextStep
    <3>4. ASSUME Cancel(c) PROVE outcome'[c] = "cancelled"
      BY <2>2, <3>4 DEF Cancel, Raise, TypeOK
    <3>5. ASSUME ServerStep(c) \/ \E change \in late : TakesEffectLate(change)
          PROVE  outcome' = outcome
      BY <3>5 DEF ServerStep, Validate, DecideOrder, IssueCertificate, CompleteEarly,
         TakesEffectLate, callVars
    <3> QED
      BY <1>1, <2>3, <3>2, <3>3, <3>4, <3>5 DEF Next
  <2> QED
    BY <2>1, <2>2, <2>3 DEF Kept
<1>2. IssueInv /\ IssueInv' /\ [Next]_vars => [\A c \in Calls : Shown(c)]_vars
  BY <1>1
<1>3. Spec => [][\A c \in Calls : Shown(c)]_vars
  <2> HIDE DEF Shown
  <2> QED
    BY <1>2, IssueInvariant, PTL DEF Spec
<1> QED
  BY <1>3 DEF FailureIsNotMasked
=============================================================================
