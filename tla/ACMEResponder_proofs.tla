------------------------ MODULE ACMEResponder_proofs ------------------------
(***************************************************************************)
(* Theorems about ACMEResponder, for any sets of keys, identifier lists,   *)
(* CSRs and requests and any bounds.                                       *)
(***************************************************************************)
EXTENDS ACMEResponder, SequenceTheorems, TLAPS

-----------------------------------------------------------------------------
(* Sequences *)

\* Appending keeps the elements there were and adds the new one at the end.
LEMMA AppendFacts ==
    ASSUME NEW S, NEW s \in Seq(S), NEW e \in S
    PROVE  /\ Append(s, e) \in Seq(S)
           /\ Len(Append(s, e)) = Len(s) + 1
           /\ DOMAIN Append(s, e) = DOMAIN s \cup {Len(s) + 1}
           /\ Len(s) + 1 \notin DOMAIN s
           /\ Append(s, e)[Len(s) + 1] = e
           /\ \A i \in DOMAIN s : Append(s, e)[i] = s[i]
<1>1. /\ Append(s, e) \in Seq(S)
      /\ Len(Append(s, e)) = Len(s) + 1
      /\ \A i \in 1..Len(s) : Append(s, e)[i] = s[i]
      /\ Append(s, e)[Len(s) + 1] = e
  OBVIOUS
<1>2. DOMAIN s = 1..Len(s) /\ Len(s) \in Nat
  BY LenProperties
<1>3. DOMAIN Append(s, e) = 1..(Len(s) + 1)
  BY <1>1, LenProperties
<1> QED
  BY <1>1, <1>2, <1>3

\* Replacing an element keeps the others, the length and the domain.
LEMMA ReplaceFacts ==
    ASSUME NEW S, NEW s \in Seq(S), NEW i \in DOMAIN s, NEW e \in S
    PROVE  /\ [s EXCEPT ![i] = e] \in Seq(S)
           /\ DOMAIN [s EXCEPT ![i] = e] = DOMAIN s
           /\ Len([s EXCEPT ![i] = e]) = Len(s)
           /\ [s EXCEPT ![i] = e][i] = e
           /\ \A j \in DOMAIN s : j # i => [s EXCEPT ![i] = e][j] = s[j]
<1>1. DOMAIN s = 1..Len(s)
  BY LenProperties
<1>2. /\ [s EXCEPT ![i] = e] \in Seq(S)
      /\ Len([s EXCEPT ![i] = e]) = Len(s)
  BY <1>1, ExceptSeq
<1> QED
  BY <1>1, <1>2

-----------------------------------------------------------------------------
(* Types *)

\* The initial state has the right type.
LEMMA TypeInit == Init => TypeOK
<1> SUFFICES ASSUME Init PROVE TypeOK
  OBVIOUS
<1> USE DEF Init
<1>1. orders = <<>> /\ authzs = <<>> /\ accounts = <<>> /\ certs = <<>>
  OBVIOUS
<1>2. DOMAIN orders = {} /\ DOMAIN authzs = {}
  BY <1>1, EmptySeq, LenProperties
<1>3. /\ accounts \in Seq(Keys) /\ orders \in Seq(Order) /\ certs \in Seq(Certificate)
      /\ authzs \in Seq(Seq(Authorization))
  BY <1>1, EmptySeq
<1>4. slot \in [Requests -> {Idle} \cup Registering \cup Validating \cup Signing]
  OBVIOUS
<1>5. \A r \in Requests : slot[r] \notin Validating \cup Signing
  BY DEF Idle, Validating, Signing
<1> QED
  BY <1>2, <1>3, <1>4, <1>5 DEF TypeOK

\* Overwriting one authorization keeps their type and their numbers.
LEMMA OneAuthzChanges ==
    ASSUME authzs \in Seq(Seq(Authorization)),
           NEW o \in DOMAIN authzs, NEW i \in DOMAIN authzs[o],
           NEW a \in Authorization,
           authzs' = [authzs EXCEPT ![o][i] = a]
    PROVE  /\ authzs' \in Seq(Seq(Authorization))
           /\ DOMAIN authzs' = DOMAIN authzs
           /\ \A p \in DOMAIN authzs : DOMAIN authzs'[p] = DOMAIN authzs[p]
           /\ authzs'[o][i] = a
           /\ \A p \in DOMAIN authzs : \A j \in DOMAIN authzs[p] :
                 <<p, j>> # <<o, i>> => authzs'[p][j] = authzs[p][j]
<1> DEFINE row == [authzs[o] EXCEPT ![i] = a]
<1>1. authzs[o] \in Seq(Authorization)
  BY ElementOfSeq, LenProperties
<1>2. /\ row \in Seq(Authorization) /\ DOMAIN row = DOMAIN authzs[o]
      /\ row[i] = a
      /\ \A j \in DOMAIN authzs[o] : j # i => row[j] = authzs[o][j]
  BY <1>1, ReplaceFacts
<1>3. authzs' = [authzs EXCEPT ![o] = row]
  OBVIOUS
<1> HIDE DEF row
<1>4. /\ authzs' \in Seq(Seq(Authorization)) /\ DOMAIN authzs' = DOMAIN authzs
      /\ authzs'[o] = row
      /\ \A p \in DOMAIN authzs : p # o => authzs'[p] = authzs[p]
  BY <1>2, <1>3, ReplaceFacts
<1> QED
  BY <1>2, <1>4

\* Changing an order other than in its identifiers keeps the type of orders.
LEMMA OneOrderChanges ==
    ASSUME orders \in Seq(Order), NEW o \in DOMAIN orders, NEW n \in Order,
           n.ids = orders[o].ids,
           orders' = [orders EXCEPT ![o] = n]
    PROVE  /\ orders' \in Seq(Order)
           /\ DOMAIN orders' = DOMAIN orders
           /\ orders'[o] = n
           /\ \A p \in DOMAIN orders : orders'[p].ids = orders[p].ids
           /\ \A p \in DOMAIN orders : p # o => orders'[p] = orders[p]
  BY ReplaceFacts

\* The requests that wait keep waiting for something that exists.
LEMMA SlotsKeepTheirTargets ==
    ASSUME TypeOK, DOMAIN orders' = DOMAIN orders, DOMAIN authzs' = DOMAIN authzs,
           \A o \in DOMAIN orders : DOMAIN authzs'[o] = DOMAIN authzs[o],
           NEW r \in Requests,
           slot'[r] = slot[r] \/ slot'[r] = Idle
    PROVE  /\ slot'[r] \in Validating \cup Signing => slot'[r].order \in DOMAIN orders'
           /\ slot'[r] \in Validating =>
                  slot'[r].authz \in DOMAIN authzs'[slot'[r].order]
<1>1. Idle \notin Validating \cup Signing
  BY DEF Idle, Validating, Signing
<1>2. CASE slot'[r] = Idle
  BY <1>1, <1>2
<1>3. CASE slot'[r] = slot[r]
  BY <1>3 DEF TypeOK
<1> QED
  BY <1>2, <1>3

\* The status an order settles to is one of an order.
LEMMA SettledStatus ==
    ASSUME orders \in Seq(Order), NEW o \in DOMAIN orders
    PROVE  orders[o] \in Order /\ Settled(o) \in OrderStatus
<1>1. orders[o] \in Order
  BY ElementOfSeq, LenProperties
<1>2. Settled(o) = "ready" \/ Settled(o) = orders[o].status
  BY DEF Settled
<1> QED
  BY <1>1, <1>2 DEF Order, OrderStatus

\* A request that waits for the CA works on an order that exists.
LEMMA SigningTarget ==
    ASSUME TypeOK, NEW r \in Requests, slot[r] \in Signing
    PROVE  /\ slot[r].order \in DOMAIN orders
           /\ slot[r].order \in Nat
           /\ slot[r].csr \in Csrs
<1>1. slot[r].order \in Nat /\ slot[r].csr \in Csrs
  BY DEF Signing
<1> QED
  BY <1>1 DEF TypeOK

\* Every step preserves the types.
LEMMA TypeNext == TypeOK /\ [Next]_vars => TypeOK'
<1> SUFFICES ASSUME TypeOK, [Next]_vars PROVE TypeOK'
  OBVIOUS
<1> USE DEF fixed
<1> DEFINE Rest == /\ approval' \in Approvals /\ threaded' \in BOOLEAN
                   /\ accounts' \in Seq(Keys) /\ certs' \in Seq(Certificate)
           SameShape == /\ authzs' \in Seq(Seq(Authorization))
                        /\ DOMAIN authzs' = DOMAIN authzs
                        /\ \A p \in DOMAIN authzs : DOMAIN authzs'[p] = DOMAIN authzs[p]
                        /\ orders' \in Seq(Order)
                        /\ DOMAIN orders' = DOMAIN orders
                        /\ \A p \in DOMAIN orders : orders'[p].ids = orders[p].ids
<1>a. ASSUME Rest, SameShape,
             slot' \in [Requests -> {Idle} \cup Registering \cup Validating \cup Signing],
             \A r \in Requests : slot'[r] = slot[r] \/ slot'[r] = Idle
      PROVE  TypeOK'
  BY <1>a, SlotsKeepTheirTargets DEF TypeOK
<1>b. \A r \in Requests :
        [slot EXCEPT ![r] = Idle] \in [Requests -> {Idle} \cup Registering \cup Validating \cup Signing]
  BY DEF TypeOK
<1>1. ASSUME NEW r \in Requests, NEW k \in Keys, BeginAccount(r, k) PROVE TypeOK'
  <2> DEFINE g == [pc |-> "registering", key |-> k, known |-> k \in Range(accounts)]
  <2>1. g \in Registering /\ g \notin Validating \cup Signing
    BY DEF Registering, Validating, Signing
  <2>2. slot' = [slot EXCEPT ![r] = g]
    BY <1>1 DEF BeginAccount
  <2> HIDE DEF g
  <2>3. slot' \in [Requests -> {Idle} \cup Registering \cup Validating \cup Signing]
    BY <2>1, <2>2 DEF TypeOK
  <2>4. \A q \in Requests : slot'[q] \in Validating \cup Signing => slot'[q] = slot[q]
    BY <2>1, <2>2 DEF TypeOK
  <2> QED
    BY <1>1, <2>3, <2>4 DEF BeginAccount, TypeOK
<1>10. ASSUME NEW r \in Requests, NEW only \in BOOLEAN, EndAccount(r, only) PROVE TypeOK'
  <2>1. slot[r].key \in Keys
    BY <1>10 DEF EndAccount, Registering
  <2>2. accounts' \in Seq(Keys)
    BY <1>10, <2>1, AppendFacts DEF EndAccount, TypeOK
  <2> QED
    BY <1>a, <1>b, <1>10, <2>2 DEF EndAccount, TypeOK
<1>2. ASSUME NEW o \in DOMAIN orders, GetOrder(o) PROVE TypeOK'
  <2> DEFINE n == [orders[o] EXCEPT !.status = Settled(o)]
  <2>1. n \in Order /\ n.ids = orders[o].ids
    BY SettledStatus DEF TypeOK, Order
  <2>2. orders' = [orders EXCEPT ![o] = n]
    BY <1>2 DEF GetOrder
  <2> HIDE DEF n
  <2>3. SameShape
    BY <1>2, <2>1, <2>2, OneOrderChanges DEF TypeOK, GetOrder
  <2> QED
    BY <1>a, <1>2, <2>3 DEF GetOrder, TypeOK
<1>3. ASSUME NEW r \in Requests, ValidatorRaises(r) \/ SigningFails(r) PROVE TypeOK'
  BY <1>a, <1>b, <1>3 DEF ValidatorRaises, SigningFails, TypeOK
<1>4. ASSUME NEW ids \in IdLists, NewOrder(ids) PROVE TypeOK'
  <2> DEFINE order == [ids |-> ids, status |-> "pending", cert |-> 0]
             row == [i \in DOMAIN ids |-> [status |-> "pending", challenge |-> "pending"]]
             o == Len(orders) + 1
  <2>1. ids \in Seq(Identifier)
    BY ResponderAssumption
  <2>2. row \in Seq(Authorization) /\ DOMAIN row = DOMAIN ids
    <3>1. DOMAIN ids = 1..Len(ids) /\ Len(ids) \in Nat
      BY <2>1, LenProperties
    <3>2. row \in [1..Len(ids) -> Authorization]
      BY <3>1 DEF Authorization, AuthzStatus, ChallengeStatus
    <3>3. [1..Len(ids) -> Authorization] \subseteq Seq(Authorization)
      BY <3>1, SeqDef
    <3> QED
      BY <3>2, <3>3
  <2>3. order \in Order /\ order.ids = ids
    BY DEF Order, OrderStatus
  <2>4. Len(orders) = Len(authzs)
    BY LenProperties DEF TypeOK
  <2>5. orders' = Append(orders, order) /\ authzs' = Append(authzs, row)
    BY <1>4 DEF NewOrder
  <2> HIDE DEF order, row
  <2>6. /\ orders' \in Seq(Order) /\ DOMAIN orders' = DOMAIN orders \cup {o}
        /\ o \notin DOMAIN orders /\ orders'[o] = order
        /\ \A p \in DOMAIN orders : orders'[p] = orders[p]
    BY <2>3, <2>5, AppendFacts DEF TypeOK
  <2>7. /\ authzs' \in Seq(Seq(Authorization))
        /\ DOMAIN authzs' = DOMAIN authzs \cup {o}
        /\ authzs'[o] = row
        /\ \A p \in DOMAIN authzs : authzs'[p] = authzs[p]
    BY <2>2, <2>4, <2>5, AppendFacts DEF TypeOK
  <2>9. ASSUME NEW r \in Requests
        PROVE  /\ slot'[r] \in Validating \cup Signing => slot'[r].order \in DOMAIN orders'
               /\ slot'[r] \in Validating =>
                      slot'[r].authz \in DOMAIN authzs'[slot'[r].order]
    BY <1>4, <2>6, <2>7 DEF NewOrder, TypeOK
  <2> HIDE DEF o
  <2>10. DOMAIN authzs' = DOMAIN orders'
    BY <2>6, <2>7 DEF TypeOK
  <2>11. \A p \in DOMAIN orders' : DOMAIN authzs'[p] = DOMAIN orders'[p].ids
    BY <2>2, <2>3, <2>6, <2>7 DEF TypeOK
  <2> QED
    BY <1>4, <2>6, <2>7, <2>9, <2>10, <2>11 DEF NewOrder, TypeOK
<1>5. ASSUME NEW r \in Requests, NEW ok \in BOOLEAN, Validated(r, ok) PROVE TypeOK'
  <2> DEFINE s == IF ok THEN "valid" ELSE "invalid"
             a == [status |-> s, challenge |-> s]
             o == slot[r].order
             i == slot[r].authz
  <2>1. a \in Authorization
    BY DEF Authorization, AuthzStatus, ChallengeStatus
  <2>2. o \in DOMAIN orders /\ i \in DOMAIN authzs[o]
    BY <1>5 DEF Validated, TypeOK
  <2>3. authzs' = [authzs EXCEPT ![o][i] = a]
    BY <1>5 DEF Validated, SetAuthz
  <2> HIDE DEF a, o, i
  <2>4. SameShape
    BY <1>5, <2>1, <2>2, <2>3, OneAuthzChanges DEF TypeOK, Validated
  <2> QED
    BY <1>a, <1>b, <1>5, <2>4 DEF Validated, TypeOK
<1>6. ASSUME NEW r \in Requests, NEW o \in DOMAIN orders, NEW i \in DOMAIN authzs[o],
             NEW type \in {"http-01", "dns-01"}, Challenge(r, o, i, type)
      PROVE  TypeOK'
  <2>1. CASE SetAuthz(o, i, "valid") /\ UNCHANGED slot
    <3> DEFINE a == [status |-> "valid", challenge |-> "valid"]
    <3>1. a \in Authorization
      BY DEF Authorization, AuthzStatus, ChallengeStatus
    <3>2. authzs' = [authzs EXCEPT ![o][i] = a]
      BY <2>1 DEF SetAuthz
    <3> HIDE DEF a
    <3>3. SameShape
      BY <1>6, <3>1, <3>2, OneAuthzChanges DEF TypeOK, Challenge
    <3> QED
      BY <1>a, <1>6, <2>1, <3>3 DEF Challenge, TypeOK
  <2>2. CASE /\ slot' = [slot EXCEPT ![r] =
                            [pc |-> "validating", order |-> o, authz |-> i]]
             /\ UNCHANGED authzs
    <3> DEFINE v == [pc |-> "validating", order |-> o, authz |-> i]
    <3>1. o \in Nat /\ i \in Nat
      <4>1. authzs[o] \in Seq(Authorization)
        BY ElementOfSeq, LenProperties DEF TypeOK
      <4> QED
        BY <4>1, LenProperties DEF TypeOK
    <3>2. v \in Validating
      BY <3>1 DEF Validating
    <3>3. slot' \in [Requests -> {Idle} \cup Registering \cup Validating \cup Signing]
      BY <2>2, <3>2 DEF TypeOK
    <3>4. ASSUME NEW q \in Requests
          PROVE  /\ slot'[q] \in Validating \cup Signing => slot'[q].order \in DOMAIN orders
                 /\ slot'[q] \in Validating =>
                        slot'[q].authz \in DOMAIN authzs[slot'[q].order]
      BY <2>2 DEF TypeOK
    <3> QED
      BY <1>6, <2>2, <3>3, <3>4 DEF Challenge, TypeOK
  <2>3. CASE /\ authzs' = [authzs EXCEPT ![o][i].challenge = "processing"]
             /\ UNCHANGED slot
    <3> DEFINE a == [authzs[o][i] EXCEPT !.challenge = "processing"]
    <3>1. authzs[o][i] \in Authorization
      BY ElementOfSeq, LenProperties DEF TypeOK
    <3>2. a \in Authorization
      BY <3>1 DEF Authorization, ChallengeStatus
    <3>3. authzs' = [authzs EXCEPT ![o][i] = a]
      BY <2>3
    <3> HIDE DEF a
    <3>4. SameShape
      BY <1>6, <3>2, <3>3, OneAuthzChanges DEF TypeOK, Challenge
    <3> QED
      BY <1>a, <1>6, <2>3, <3>4 DEF Challenge, TypeOK
  <2> QED
    BY <1>6, <2>1, <2>2, <2>3 DEF Challenge
<1>7. ASSUME NEW r \in Requests, NEW o \in DOMAIN orders, NEW csr \in Csrs,
             Finalize(r, o, csr)
      PROVE  TypeOK'
  <2> DEFINE n == [orders[o] EXCEPT !.status = "ready"]
             s == [pc |-> "signing", order |-> o, csr |-> csr]
  <2>1. n \in Order /\ n.ids = orders[o].ids
    BY SettledStatus DEF TypeOK, Order, OrderStatus
  <2>2. orders' = [orders EXCEPT ![o] = n]
    BY <1>7 DEF Finalize
  <2> HIDE DEF n
  <2>3. SameShape
    BY <1>7, <2>1, <2>2, OneOrderChanges DEF TypeOK, Finalize
  <2>4. CASE UNCHANGED slot
    BY <1>a, <1>7, <2>3, <2>4 DEF Finalize, TypeOK
  <2>5. CASE slot' = [slot EXCEPT ![r] = s]
    <3>1. s \in Signing /\ s \notin Validating /\ s.order = o
      BY LenProperties DEF Signing, Validating, TypeOK
    <3> HIDE DEF s
    <3>2. slot' \in [Requests -> {Idle} \cup Registering \cup Validating \cup Signing]
      BY <2>5, <3>1 DEF TypeOK
    <3>3. ASSUME NEW q \in Requests
          PROVE  /\ slot'[q] \in Validating \cup Signing => slot'[q].order \in DOMAIN orders'
                 /\ slot'[q] \in Validating =>
                        slot'[q].authz \in DOMAIN authzs'[slot'[q].order]
      <4>1. CASE q = r
        BY <2>3, <2>5, <3>1, <4>1 DEF TypeOK
      <4>2. CASE q # r
        BY <2>3, <2>5, <4>2, SlotsKeepTheirTargets DEF TypeOK
      <4> QED
        BY <4>1, <4>2
    <3> QED
      BY <1>7, <2>3, <3>2, <3>3 DEF Finalize, TypeOK
  <2> QED
    BY <1>7, <2>4, <2>5 DEF Finalize
<1>8. ASSUME NEW r \in Requests, Signed(r) PROVE TypeOK'
  <2> DEFINE o == slot[r].order
             n == [orders[o] EXCEPT !.status = "valid", !.cert = Len(certs) + 1]
             c == [order |-> o, ids |-> Range(orders[o].ids), csr |-> slot[r].csr]
  <2>1. o \in DOMAIN orders /\ o \in Nat /\ slot[r].csr \in Csrs
    BY <1>8, SigningTarget DEF Signed
  <2>2. orders[o] \in Order /\ Len(certs) + 1 \in Nat
    BY <2>1, SettledStatus, LenProperties DEF TypeOK
  <2>3. n \in Order /\ n.ids = orders[o].ids
    BY <2>2 DEF Order, OrderStatus
  <2>4. Range(orders[o].ids) \in SUBSET Identifier
    <3>1. orders[o].ids \in Seq(Identifier)
      BY <2>2, ResponderAssumption DEF Order
    <3> QED
      BY <3>1, ElementOfSeq, LenProperties DEF Range
  <2>5. c \in Certificate
    BY <2>1, <2>4 DEF Certificate
  <2>6. /\ orders' = [orders EXCEPT ![o] = n]
        /\ certs' = Append(certs, c)
    BY <1>8 DEF Signed
  <2> HIDE DEF o, n, c
  <2>7. certs' \in Seq(Certificate)
    BY <2>5, <2>6, AppendFacts DEF TypeOK
  <2>8. /\ orders' \in Seq(Order)
        /\ DOMAIN orders' = DOMAIN orders
        /\ \A p \in DOMAIN orders : orders'[p].ids = orders[p].ids
    <3>1. orders \in Seq(Order) /\ DOMAIN authzs = DOMAIN orders
      BY DEF TypeOK
    <3>2. orders' = [orders EXCEPT ![o] = n]
      BY <2>6
    <3> QED
      BY <2>1, <2>3, <3>1, <3>2, OneOrderChanges
  <2>9. authzs' = authzs /\ authzs \in Seq(Seq(Authorization))
    BY <1>8 DEF Signed, TypeOK
  <2> QED
    BY <1>a, <1>b, <1>8, <2>7, <2>8, <2>9 DEF Signed, TypeOK
<1>9. CASE UNCHANGED vars
  BY <1>a, <1>9 DEF vars, TypeOK
<1> QED
  BY <1>1, <1>2, <1>3, <1>4, <1>5, <1>6, <1>7, <1>8, <1>9, <1>10
     DEF Next, ClientStep, ServerStep, TypeOK

\* Every reachable state has the right type: in particular every order has
\* exactly one authorization per identifier, and no suspended request is left
\* with an order or authorization that does not exist.
THEOREM TypeCorrect == Spec => []TypeOK
  BY TypeInit, TypeNext, PTL DEF Spec

-----------------------------------------------------------------------------
(* Accounts *)

\* At most one request is inside the section under the lock, ...
LockIsExclusive ==
    \A q, r \in Requests : slot[q] \in Registering /\ slot[r] \in Registering => q = r

\* ... and what it found when it looked is still so.
LookupIsFresh ==
    \A r \in Requests : slot[r] \in Registering =>
        (slot[r].known <=> slot[r].key \in Range(accounts))

\* The inductive invariant behind OneAccountPerKey.
AccountInv == OneAccountPerKey /\ LockIsExclusive /\ LookupIsFresh

\* It holds before the first request.
LEMMA AccountInit == Init => AccountInv
<1> SUFFICES ASSUME Init PROVE AccountInv
  OBVIOUS
<1>1. DOMAIN accounts = {}
  BY EmptySeq, LenProperties DEF Init
<1>2. \A r \in Requests : slot[r] \notin Registering
  BY DEF Init, Idle, Registering
<1> QED
  BY <1>1, <1>2 DEF AccountInv, OneAccountPerKey, LockIsExclusive, LookupIsFresh

\* It survives a step in which no request takes the lock and no account is
\* added.
LEMMA AccountFrame ==
    ASSUME AccountInv, accounts' = accounts,
           \A r \in Requests : slot'[r] \in Registering => slot'[r] = slot[r]
    PROVE  AccountInv'
  BY DEF AccountInv, OneAccountPerKey, LockIsExclusive, LookupIsFresh, Range

\* Every step preserves it: who takes the lock finds it free, and while it is
\* held nobody else adds an account.
LEMMA AccountNext == TypeOK /\ AccountInv /\ [Next]_vars => AccountInv'
<1> SUFFICES ASSUME TypeOK, AccountInv, [Next]_vars PROVE AccountInv'
  OBVIOUS
<1>1. ASSUME NEW r \in Requests, NEW k \in Keys, BeginAccount(r, k) PROVE AccountInv'
  <2> DEFINE g == [pc |-> "registering", key |-> k, known |-> k \in Range(accounts)]
  <2>1. g.key = k /\ (g.known <=> k \in Range(accounts))
    OBVIOUS
  <2>2. slot' = [slot EXCEPT ![r] = g] /\ accounts' = accounts
    BY <1>1 DEF BeginAccount
  <2> HIDE DEF g
  <2>3. slot'[r] = g /\ \A q \in Requests : q # r => slot'[q] = slot[q]
    BY <2>2 DEF TypeOK
  <2>4. \A q \in Requests : slot[q] \notin Registering
    BY <1>1 DEF BeginAccount, MayEnter, LockIsFree
  <2> QED
    BY <2>1, <2>2, <2>3, <2>4
       DEF AccountInv, OneAccountPerKey, LockIsExclusive, LookupIsFresh, Range
<1>2. ASSUME NEW r \in Requests, NEW only \in BOOLEAN, EndAccount(r, only) PROVE AccountInv'
  <2>1. \A q \in Requests : slot'[q] \notin Registering
    <3>1. Idle \notin Registering
      BY DEF Idle, Registering
    <3>2. slot[r] \in Registering /\ slot' = [slot EXCEPT ![r] = Idle]
      BY <1>2 DEF EndAccount
    <3> QED
      BY <3>1, <3>2 DEF TypeOK, AccountInv, LockIsExclusive
  <2>2. CASE accounts' = accounts
    BY <2>1, <2>2, AccountFrame
  <2>3. CASE ~slot[r].known /\ accounts' = Append(accounts, slot[r].key)
    <3>1. slot[r] \in Registering /\ slot[r].key \in Keys
      BY <1>2 DEF EndAccount, Registering
    <3>2. \A n \in DOMAIN accounts : accounts[n] # slot[r].key
      BY <2>3, <3>1 DEF AccountInv, LookupIsFresh, Range
    <3>3. /\ DOMAIN accounts' = DOMAIN accounts \cup {Len(accounts) + 1}
          /\ accounts'[Len(accounts) + 1] = slot[r].key
          /\ \A n \in DOMAIN accounts : accounts'[n] = accounts[n]
      BY <2>3, <3>1, AppendFacts DEF TypeOK
    <3>4. OneAccountPerKey'
      BY <3>2, <3>3 DEF AccountInv, OneAccountPerKey
    <3> QED
      BY <2>1, <3>4 DEF AccountInv, LockIsExclusive, LookupIsFresh
  <2> QED
    BY <1>2, <2>2, <2>3 DEF EndAccount
<1>3. ASSUME accounts' = accounts,
             \/ slot' = slot
             \/ \E r \in Requests : \E s : s \notin Registering /\ slot' = [slot EXCEPT ![r] = s]
      PROVE  AccountInv'
  <2>1. \A q \in Requests : slot'[q] \in Registering => slot'[q] = slot[q]
    BY <1>3 DEF TypeOK
  <2> QED
    BY <1>3, <2>1, AccountFrame
<1>4. ASSUME NEW r \in Requests,
             \/ \E ok \in BOOLEAN : Validated(r, ok)
             \/ ValidatorRaises(r) \/ Signed(r) \/ SigningFails(r)
      PROVE  AccountInv'
  <2>1. Idle \notin Registering
    BY DEF Idle, Registering
  <2>2. accounts' = accounts /\ slot' = [slot EXCEPT ![r] = Idle]
    BY <1>4 DEF Validated, ValidatorRaises, Signed, SigningFails
  <2> QED
    BY <1>3, <2>1, <2>2
<1>5. ASSUME NEW r \in Requests, NEW o, NEW i, NEW type, Challenge(r, o, i, type)
      PROVE  AccountInv'
  <2>1. [pc |-> "validating", order |-> o, authz |-> i] \notin Registering
    BY DEF Registering
  <2> QED
    BY <1>3, <1>5, <2>1 DEF Challenge
<1>6. ASSUME NEW r \in Requests, NEW o, NEW csr, Finalize(r, o, csr) PROVE AccountInv'
  <2>1. [pc |-> "signing", order |-> o, csr |-> csr] \notin Registering
    BY DEF Registering
  <2> QED
    BY <1>3, <1>6, <2>1 DEF Finalize
<1>7. CASE \/ UNCHANGED vars
           \/ \E ids \in IdLists : NewOrder(ids)
           \/ \E o \in DOMAIN orders : GetOrder(o)
  BY <1>3, <1>7 DEF vars, NewOrder, GetOrder
<1> QED
  BY <1>1, <1>2, <1>4, <1>5, <1>6, <1>7 DEF Next, ClientStep, ServerStep

\* No key gets a second account, however many clients ask for one and however
\* many threads serve them: the lock keeps the lookup of one request fresh
\* until it has inserted.
THEOREM AccountsUnique == Spec => []OneAccountPerKey
<1>1. AccountInv => OneAccountPerKey
  BY DEF AccountInv
<1> QED
  BY <1>1, AccountInit, AccountNext, TypeCorrect, PTL DEF Spec

-----------------------------------------------------------------------------
(* Certificates *)

\* Every certificate belongs to an order that is complete, ...
OrdersOfCertsValid ==
    \A c \in DOMAIN certs : orders[certs[c].order].status = "valid"

\* ... and a request in the CA works on an order that left pending, with a CSR
\* that was compared with the identifiers of that order.
SigningIsEntitled ==
    \A r \in Requests : slot[r] \in Signing =>
        /\ CsrMatches(slot[r].order, slot[r].csr)
        /\ orders[slot[r].order].status \in {"ready", "valid"}

\* On one event loop there is at most one such request, and its order does not
\* have a certificate yet.
SigningIsExclusive ==
    ~threaded => \A r \in Requests : slot[r] \in Signing =>
        /\ orders[slot[r].order].status = "ready"
        /\ \A q \in Requests : slot[q] \in Signing => q = r

\* The inductive invariant behind both properties of certificates.
CertInv == /\ CertificatesMatchOrders
           /\ OneCertificatePerOrder
           /\ OrdersOfCertsValid
           /\ SigningIsEntitled
           /\ SigningIsExclusive

\* It holds before the first request.
LEMMA CertInit == Init => CertInv
<1> SUFFICES ASSUME Init PROVE CertInv
  OBVIOUS
<1>1. DOMAIN certs = {} /\ DOMAIN orders = {}
  BY EmptySeq, LenProperties DEF Init
<1>2. \A r \in Requests : slot[r] \notin Signing
  BY DEF Init, Idle, Signing
<1> QED
  BY <1>1, <1>2 DEF CertInv, CertificatesMatchOrders, OneCertificatePerOrder,
     OrdersOfCertsValid, SigningIsEntitled, SigningIsExclusive

\* It survives every step that issues no certificate and lets no further
\* request into the CA, as long as no order loses ground.
LEMMA CertFrame ==
    ASSUME TypeOK, CertInv, UNCHANGED <<certs, threaded>>,
           DOMAIN orders \subseteq DOMAIN orders',
           \A o \in DOMAIN orders :
               /\ orders'[o].ids = orders[o].ids
               /\ orders'[o].cert = orders[o].cert
               /\ \/ orders'[o].status = orders[o].status
                  \/ orders[o].status = "pending" /\ orders'[o].status = "ready",
           \A o \in DOMAIN orders' \ DOMAIN orders : orders'[o].status = "pending",
           \A r \in Requests : slot'[r] \in Signing => slot'[r] = slot[r]
    PROVE  CertInv'
<1>1. CertificatesMatchOrders'
  <2>1. ASSUME NEW o \in DOMAIN orders', orders'[o].status = "valid"
        PROVE  orders'[o].cert \in DOMAIN certs /\ certs[orders'[o].cert].order = o
    BY <2>1 DEF CertInv, CertificatesMatchOrders
  <2>2. ASSUME NEW c \in DOMAIN certs
        PROVE  /\ certs[c].order \in DOMAIN orders'
               /\ certs[c].ids = Range(orders'[certs[c].order].ids)
               /\ certs[c].csr = certs[c].ids
    BY <2>2 DEF CertInv, CertificatesMatchOrders
  <2> QED
    BY <2>1, <2>2 DEF CertificatesMatchOrders
<1>2. OneCertificatePerOrder' /\ OrdersOfCertsValid'
  BY DEF CertInv, CertificatesMatchOrders, OneCertificatePerOrder, OrdersOfCertsValid
<1>3. SigningIsEntitled' /\ SigningIsExclusive'
  BY SigningTarget
     DEF CertInv, SigningIsEntitled, SigningIsExclusive, CsrMatches
<1> QED
  BY <1>1, <1>2, <1>3 DEF CertInv

\* Every step preserves it.
LEMMA CertNext == TypeOK /\ CertInv /\ [Next]_vars => CertInv'
<1> SUFFICES ASSUME TypeOK, CertInv, [Next]_vars PROVE CertInv'
  OBVIOUS
<1> USE DEF fixed
<1>0. Idle \notin Signing
  BY DEF Idle, Signing
<1>1. ASSUME UNCHANGED <<orders, certs, threaded, slot>> PROVE CertInv'
  BY <1>1, CertFrame
<1>2. ASSUME NEW ids \in IdLists, NewOrder(ids) PROVE CertInv'
  <2> DEFINE order == [ids |-> ids, status |-> "pending", cert |-> 0]
  <2>1. order \in Order /\ order.status = "pending"
    BY DEF Order, OrderStatus
  <2>2. orders' = Append(orders, order)
    BY <1>2 DEF NewOrder
  <2> HIDE DEF order
  <2>3. /\ DOMAIN orders' = DOMAIN orders \cup {Len(orders) + 1}
        /\ orders'[Len(orders) + 1] = order
        /\ \A o \in DOMAIN orders : orders'[o] = orders[o]
    BY <2>1, <2>2, AppendFacts DEF TypeOK
  <2> QED
    BY <1>2, <2>1, <2>3, CertFrame DEF NewOrder
<1>3. ASSUME NEW o \in DOMAIN orders, GetOrder(o) PROVE CertInv'
  <2>1. \/ Settled(o) = orders[o].status
        \/ orders[o].status = "pending" /\ Settled(o) = "ready"
    BY DEF Settled
  <2>2. /\ DOMAIN orders' = DOMAIN orders
        /\ orders'[o] = [orders[o] EXCEPT !.status = Settled(o)]
        /\ \A p \in DOMAIN orders : p # o => orders'[p] = orders[p]
    BY <1>3 DEF GetOrder
  <2>3. /\ orders'[o].ids = orders[o].ids /\ orders'[o].cert = orders[o].cert
        /\ orders'[o].status = Settled(o)
    BY <2>2, SettledStatus DEF TypeOK, Order
  <2> QED
    BY <1>3, <2>1, <2>2, <2>3, CertFrame DEF GetOrder
<1>4. ASSUME NEW r \in Requests, UNCHANGED <<orders, certs, threaded>>,
             slot' = [slot EXCEPT ![r] = Idle]
      PROVE  CertInv'
  BY <1>0, <1>4, CertFrame DEF TypeOK
<1>5. ASSUME NEW r \in Requests, NEW o \in DOMAIN orders, NEW i \in DOMAIN authzs[o],
             NEW type \in {"http-01", "dns-01"}, Challenge(r, o, i, type)
      PROVE  CertInv'
  <2>1. [pc |-> "validating", order |-> o, authz |-> i] \notin Signing
    BY DEF Signing
  <2>2. \A q \in Requests : slot'[q] \in Signing => slot'[q] = slot[q]
    BY <1>5, <2>1 DEF Challenge, TypeOK
  <2> QED
    BY <1>5, <2>2, CertFrame DEF Challenge
<1>6. ASSUME NEW r \in Requests, NEW o \in DOMAIN orders, NEW csr \in Csrs,
             Finalize(r, o, csr)
      PROVE  CertInv'
  <2>1. orders[o].status \in {"pending", "ready"}
    BY <1>6 DEF Settled, Finalize
  <2>2. /\ DOMAIN orders' = DOMAIN orders
        /\ \A p \in DOMAIN orders : p # o => orders'[p] = orders[p]
        /\ orders'[o].ids = orders[o].ids /\ orders'[o].cert = orders[o].cert
        /\ orders'[o].status = "ready"
    BY <1>6, SettledStatus DEF Finalize, TypeOK, Order
  <2>3. UNCHANGED <<certs, threaded>>
    BY <1>6 DEF Finalize
  <2>4. CASE UNCHANGED slot
    BY <2>1, <2>2, <2>3, <2>4, CertFrame
  <2>5. CASE /\ CsrMatches(o, csr)
             /\ slot' = [slot EXCEPT ![r] =
                            [pc |-> "signing", order |-> o, csr |-> csr]]
    <3>1. /\ slot'[r].order = o /\ slot'[r].csr = csr
          /\ \A q \in Requests : q # r => slot'[q] = slot[q]
      BY <2>5 DEF TypeOK
    <3>2. CertificatesMatchOrders'
      <4>1. ASSUME NEW p \in DOMAIN orders', orders'[p].status = "valid"
            PROVE  orders'[p].cert \in DOMAIN certs /\ certs[orders'[p].cert].order = p
        BY <2>2, <4>1 DEF CertInv, CertificatesMatchOrders
      <4>2. ASSUME NEW c \in DOMAIN certs
            PROVE  /\ certs[c].order \in DOMAIN orders'
                   /\ certs[c].ids = Range(orders'[certs[c].order].ids)
                   /\ certs[c].csr = certs[c].ids
        BY <2>2, <4>2 DEF CertInv, CertificatesMatchOrders
      <4> QED
        BY <2>3, <4>1, <4>2 DEF CertificatesMatchOrders
    <3>3. OneCertificatePerOrder' /\ OrdersOfCertsValid'
      BY <2>1, <2>2, <2>3
         DEF CertInv, CertificatesMatchOrders, OneCertificatePerOrder, OrdersOfCertsValid
    <3>4. SigningIsEntitled'
      <4>1. CsrMatches(o, csr)'
        BY <2>2, <2>5 DEF CsrMatches
      <4>2. ASSUME NEW q \in Requests, slot'[q] \in Signing, q # r
            PROVE  /\ CsrMatches(slot[q].order, slot[q].csr)'
                   /\ orders'[slot[q].order].status \in {"ready", "valid"}
        BY <2>1, <2>2, <3>1, <4>2, SigningTarget DEF CertInv, SigningIsEntitled, CsrMatches
      <4> QED
        BY <2>2, <3>1, <4>1, <4>2 DEF SigningIsEntitled, CsrMatches
    <3>5. SigningIsExclusive'
      <4>1. ~threaded => \A q \in Requests : slot[q] \notin Signing
        BY <1>6 DEF Finalize, MayEnter, LoopIsFree
      <4> QED
        BY <2>2, <2>3, <3>1, <4>1 DEF SigningIsExclusive
    <3> QED
      BY <3>2, <3>3, <3>4, <3>5 DEF CertInv
  <2> QED
    BY <1>6, <2>4, <2>5 DEF Finalize
<1>7. ASSUME NEW r \in Requests, Signed(r) PROVE CertInv'
  <2> DEFINE o == slot[r].order
             c == Len(certs) + 1
             cert == [order |-> o, ids |-> Range(orders[o].ids), csr |-> slot[r].csr]
  <2>1. slot[r] \in Signing /\ o \in DOMAIN orders /\ slot[r].csr \in Csrs /\ o \in Nat
    BY <1>7, SigningTarget DEF Signed
  <2>2. orders[o] \in Order /\ c \in Nat
    BY <2>1, SettledStatus, LenProperties DEF TypeOK
  <2>3. cert \in Certificate
    <3>1. orders[o].ids \in Seq(Identifier)
      BY <2>2, ResponderAssumption DEF Order
    <3>2. Range(orders[o].ids) \in SUBSET Identifier
      BY <3>1, ElementOfSeq, LenProperties DEF Range
    <3> QED
      BY <2>1, <3>2 DEF Certificate
  <2>4. /\ orders' = [orders EXCEPT ![o].status = "valid", ![o].cert = c]
        /\ certs' = Append(certs, cert)
        /\ slot' = [slot EXCEPT ![r] = Idle]
        /\ UNCHANGED threaded
    BY <1>7 DEF Signed
  <2>5. cert.order = o /\ cert.ids = Range(orders[o].ids) /\ cert.csr = cert.ids
    BY <2>1 DEF CertInv, SigningIsEntitled, CsrMatches
  <2> HIDE DEF cert
  <2>6. /\ DOMAIN certs' = DOMAIN certs \cup {c} /\ c \notin DOMAIN certs
        /\ certs'[c] = cert
        /\ \A d \in DOMAIN certs : certs'[d] = certs[d]
    BY <2>3, <2>4, AppendFacts DEF TypeOK
  <2> HIDE DEF c
  <2>7. /\ DOMAIN orders' = DOMAIN orders
        /\ \A p \in DOMAIN orders : p # o => orders'[p] = orders[p]
        /\ orders'[o].status = "valid" /\ orders'[o].cert = c
        /\ orders'[o].ids = orders[o].ids
    BY <2>1, <2>2, <2>4 DEF TypeOK, Order
  <2>8. slot'[r] = Idle /\ \A q \in Requests : q # r => slot'[q] = slot[q]
    BY <2>4 DEF TypeOK
  <2> HIDE DEF o
  <2>9. CertificatesMatchOrders'
    <3>1. ASSUME NEW p \in DOMAIN orders', orders'[p].status = "valid"
          PROVE  orders'[p].cert \in DOMAIN certs' /\ certs'[orders'[p].cert].order = p
      BY <2>5, <2>6, <2>7, <3>1 DEF CertInv, CertificatesMatchOrders
    <3>2. ASSUME NEW d \in DOMAIN certs'
          PROVE  /\ certs'[d].order \in DOMAIN orders'
                 /\ certs'[d].ids = Range(orders'[certs'[d].order].ids)
                 /\ certs'[d].csr = certs'[d].ids
      <4>1. \A p \in DOMAIN orders : orders'[p].ids = orders[p].ids
        BY <2>7
      <4> QED
        BY <2>1, <2>5, <2>6, <2>7, <3>2, <4>1 DEF CertInv, CertificatesMatchOrders
    <3> QED
      BY <3>1, <3>2 DEF CertificatesMatchOrders
  <2>10. OneCertificatePerOrder'
    <3>1. ASSUME ~threaded PROVE \A d \in DOMAIN certs : certs[d].order # o
      <4>1. orders[o].status = "ready"
        BY <2>1, <3>1 DEF CertInv, SigningIsExclusive, o
      <4> QED
        BY <4>1 DEF CertInv, OrdersOfCertsValid
    <3>2. ASSUME ~threaded, NEW d \in DOMAIN certs
          PROVE  orders'[certs'[d].order].cert = d
      <4>1. certs[d].order \in DOMAIN orders /\ certs[d].order # o
        BY <3>1, <3>2 DEF CertInv, CertificatesMatchOrders
      <4> QED
        BY <2>6, <2>7, <3>2, <4>1 DEF CertInv, OneCertificatePerOrder
    <3>3. orders'[certs'[c].order].cert = c
      BY <2>5, <2>6, <2>7
    <3> QED
      BY <2>4, <2>6, <3>2, <3>3 DEF OneCertificatePerOrder
  <2>11. OrdersOfCertsValid'
    BY <2>5, <2>6, <2>7 DEF CertInv, CertificatesMatchOrders, OrdersOfCertsValid
  <2>12. SigningIsEntitled'
    BY <1>0, <2>7, <2>8, SigningTarget DEF CertInv, SigningIsEntitled, CsrMatches
  <2>13. SigningIsExclusive'
    BY <1>0, <2>1, <2>4, <2>8 DEF CertInv, SigningIsExclusive
  <2> QED
    BY <2>9, <2>10, <2>11, <2>12, <2>13 DEF CertInv
<1>8. ASSUME NEW r \in Requests, \/ \E only \in BOOLEAN : EndAccount(r, only)
                                 \/ \E ok \in BOOLEAN : Validated(r, ok)
                                 \/ ValidatorRaises(r)
                                 \/ SigningFails(r)
      PROVE  CertInv'
  BY <1>4, <1>8 DEF EndAccount, Validated, ValidatorRaises, SigningFails
<1>9. ASSUME NEW r \in Requests, NEW k \in Keys, BeginAccount(r, k) PROVE CertInv'
  <2>1. [pc |-> "registering", key |-> k, known |-> k \in Range(accounts)] \notin Signing
    BY DEF Signing
  <2>2. \A q \in Requests : slot'[q] \in Signing => slot'[q] = slot[q]
    BY <1>9, <2>1 DEF BeginAccount, TypeOK
  <2> QED
    BY <1>9, <2>2, CertFrame DEF BeginAccount
<1>10. CASE UNCHANGED vars
  BY <1>1, <1>10 DEF vars
<1> QED
  BY <1>2, <1>3, <1>5, <1>6, <1>7, <1>8, <1>9, <1>10
     DEF Next, ClientStep, ServerStep

\* The certificate URL of every completed order leads to a certificate for
\* exactly the identifiers of that order, even when several threads finalize
\* it at once.
THEOREM CertificatesMatch == Spec => []CertificatesMatchOrders
<1>1. CertInv => CertificatesMatchOrders
  BY DEF CertInv
<1> QED
  BY <1>1, CertInit, CertNext, TypeCorrect, PTL DEF Spec

\* On one event loop no order ever gets a second certificate, however many
\* requests finalize it.
THEOREM OneCertificate == Spec => []OneCertificatePerOrder
<1>1. CertInv => OneCertificatePerOrder
  BY DEF CertInv
<1> QED
  BY <1>1, CertInit, CertNext, TypeCorrect, PTL DEF Spec

-----------------------------------------------------------------------------
(* Orders *)

\* Order o becomes order n; the others stay as they are.
OrderBecomes(o, n) ==
    /\ n \in Order /\ DOMAIN orders' = DOMAIN orders /\ orders' \in Seq(Order)
    /\ orders'[o] = n
    /\ \A p \in DOMAIN orders : p # o => orders'[p] = orders[p]

\* What a step may do to the orders: open one, ...
OpensOrder ==
    /\ Len(orders) < MaxOrders /\ certs' = certs
    /\ \E n \in Order : n.status = "pending" /\ orders' = Append(orders, n)

\* ... make one ready whose authorizations are valid, ...
ReadiesOrder ==
    /\ certs' = certs
    /\ \E o \in DOMAIN orders :
          /\ orders[o].status = "pending" /\ AllValid(o)
          /\ OrderBecomes(o, [orders[o] EXCEPT !.status = "ready"])

\* ... or give one a certificate.
CertifiesOrder ==
    \E o \in DOMAIN orders :
        /\ orders[o].status = "ready" \/ (threaded /\ orders[o].status = "valid")
        /\ \E c \in Nat : OrderBecomes(o, [orders[o] EXCEPT !.status = "valid", !.cert = c])
        /\ \E c \in Certificate : c.order = o /\ certs' = Append(certs, c)

\* Writing the settled status is no change unless it makes the order ready.
LEMMA SettleEffect ==
    ASSUME TypeOK, NEW o \in DOMAIN orders, certs' = certs,
           orders' = [orders EXCEPT ![o].status = Settled(o)]
    PROVE  UNCHANGED <<orders, certs>> \/ ReadiesOrder
<1>1. orders \in Seq(Order) /\ orders[o] \in Order
  BY SettledStatus DEF TypeOK
<1>2. DOMAIN orders = 1..Len(orders) /\ orders \in [1..Len(orders) -> Order]
  BY <1>1, LenProperties
<1>3. CASE orders[o].status = "pending" /\ AllValid(o)
  <2> DEFINE n == [orders[o] EXCEPT !.status = "ready"]
  <2>1. n \in Order
    BY <1>1 DEF Order, OrderStatus
  <2>2. orders' = [orders EXCEPT ![o] = n]
    BY <1>3 DEF Settled
  <2> HIDE DEF n
  <2>3. OrderBecomes(o, n)
    BY <1>1, <2>1, <2>2, ReplaceFacts DEF OrderBecomes
  <2> QED
    BY <1>3, <2>3 DEF ReadiesOrder, n
<1>4. CASE ~ (orders[o].status = "pending" /\ AllValid(o))
  <2>1. Settled(o) = orders[o].status
    BY <1>4 DEF Settled
  <2>2. [orders[o] EXCEPT !.status = orders[o].status] = orders[o]
    BY <1>1 DEF Order
  <2>3. orders' = [orders EXCEPT ![o] = orders[o]]
    BY <2>1, <2>2
  <2>4. orders' = orders
    BY <1>2, <2>3
  <2> QED
    BY <2>4
<1> QED
  BY <1>3, <1>4

\* Every step is one of these, or leaves orders and certificates alone.
LEMMA OrderSteps ==
    ASSUME TypeOK, CertInv, [Next]_vars
    PROVE  /\ threaded' = threaded
           /\ UNCHANGED <<orders, certs>> \/ OpensOrder \/ ReadiesOrder \/ CertifiesOrder
<1> USE DEF fixed
<1>1. ASSUME NEW ids \in IdLists, NewOrder(ids) PROVE OpensOrder /\ threaded' = threaded
  <2> DEFINE n == [ids |-> ids, status |-> "pending", cert |-> 0]
  <2>1. n \in Order /\ n.status = "pending"
    BY DEF Order, OrderStatus
  <2>2. orders' = Append(orders, n) /\ Len(orders) < MaxOrders /\ UNCHANGED <<certs, threaded>>
    BY <1>1 DEF NewOrder
  <2> HIDE DEF n
  <2> QED
    BY <2>1, <2>2 DEF OpensOrder
<1>2. ASSUME NEW o \in DOMAIN orders, GetOrder(o)
      PROVE  (UNCHANGED <<orders, certs>> \/ ReadiesOrder) /\ threaded' = threaded
  BY <1>2, SettleEffect DEF GetOrder
<1>3. ASSUME NEW r \in Requests, NEW o \in DOMAIN orders, NEW csr \in Csrs, Finalize(r, o, csr)
      PROVE  (UNCHANGED <<orders, certs>> \/ ReadiesOrder) /\ threaded' = threaded
  BY <1>3, SettleEffect DEF Finalize
<1>4. ASSUME NEW r \in Requests, Signed(r) PROVE CertifiesOrder /\ threaded' = threaded
  <2> DEFINE o == slot[r].order
             c == Len(certs) + 1
             n == [orders[o] EXCEPT !.status = "valid", !.cert = c]
             cert == [order |-> o, ids |-> Range(orders[o].ids), csr |-> slot[r].csr]
  <2>1. slot[r] \in Signing /\ o \in DOMAIN orders /\ slot[r].csr \in Csrs /\ o \in Nat
    BY <1>4, SigningTarget DEF Signed
  <2>2. orders \in Seq(Order) /\ orders[o] \in Order /\ c \in Nat
    BY <2>1, SettledStatus, LenProperties DEF TypeOK
  <2>3. cert \in Certificate /\ cert.order = o
    <3>1. orders[o].ids \in Seq(Identifier)
      BY <2>2, ResponderAssumption DEF Order
    <3>2. Range(orders[o].ids) \in SUBSET Identifier
      BY <3>1, ElementOfSeq, LenProperties DEF Range
    <3> QED
      BY <2>1, <3>2 DEF Certificate
  <2>4. certs' = Append(certs, cert) /\ UNCHANGED threaded
    BY <1>4 DEF Signed
  <2>5. orders' = [orders EXCEPT ![o] = n]
    BY <1>4 DEF Signed
  <2>6. n \in Order
    BY <2>2 DEF Order, OrderStatus
  <2>7. orders[o].status = "ready" \/ (threaded /\ orders[o].status = "valid")
    BY <2>1 DEF CertInv, SigningIsEntitled, SigningIsExclusive
  <2> HIDE DEF cert, c
  <2>8. OrderBecomes(o, n)
    <3> HIDE DEF n
    <3> QED
      BY <2>1, <2>2, <2>5, <2>6, ReplaceFacts DEF OrderBecomes
  <2> HIDE DEF o
  <2> QED
    BY <2>1, <2>2, <2>3, <2>4, <2>7, <2>8 DEF CertifiesOrder
<1>5. ASSUME \/ UNCHANGED vars
             \/ \E r \in Requests, k \in Keys : BeginAccount(r, k)
             \/ \E r \in Requests, o \in DOMAIN orders : \E i \in DOMAIN authzs[o] :
                   \E type \in {"http-01", "dns-01"} : Challenge(r, o, i, type)
             \/ \E r \in Requests :
                   \/ \E only \in BOOLEAN : EndAccount(r, only)
                   \/ \E ok \in BOOLEAN : Validated(r, ok)
                   \/ ValidatorRaises(r) \/ SigningFails(r)
      PROVE  UNCHANGED <<orders, certs, threaded>>
  BY <1>5 DEF vars, BeginAccount, EndAccount, Challenge, Validated, ValidatorRaises, SigningFails
<1> QED
  BY <1>1, <1>2, <1>3, <1>4, <1>5 DEF Next, ClientStep, ServerStep

\* Whatever the requests and their threads do, an order leaves pending only
\* with all its authorizations valid and never goes back, and a completed one
\* changes only in its certificate, and only with threads.
THEOREM OrdersOnlyMoveForward == Spec => OrdersMoveForward
<1> DEFINE Forward == \A o \in DOMAIN orders :
         /\ orders[o].status = "pending" =>
                orders'[o].status = "pending" \/ AllValid(o)
         /\ orders[o].status = "ready" => orders'[o].status \in {"ready", "valid"}
         /\ orders[o].status = "valid" =>
                \/ orders'[o] = orders[o]
                \/ threaded /\ orders'[o] = [orders[o] EXCEPT !.cert = orders'[o].cert]
<1>1. TypeOK /\ CertInv /\ [Next]_vars => [Forward]_vars
  <2> SUFFICES ASSUME TypeOK, CertInv, [Next]_vars, NEW o \in DOMAIN orders
               PROVE  /\ orders[o].status = "pending" =>
                             orders'[o].status = "pending" \/ AllValid(o)
                      /\ orders[o].status = "ready" => orders'[o].status \in {"ready", "valid"}
                      /\ orders[o].status = "valid" =>
                             \/ orders'[o] = orders[o]
                             \/ threaded /\ orders'[o] = [orders[o] EXCEPT !.cert = orders'[o].cert]
    OBVIOUS
  <2>1. orders \in Seq(Order) /\ orders[o] \in Order
    BY SettledStatus DEF TypeOK
  <2>2. CASE orders'[o] = orders[o]
    BY <2>2
  <2>3. CASE OpensOrder
    BY <2>1, <2>2, <2>3, AppendFacts DEF OpensOrder
  <2>4. CASE ReadiesOrder
    BY <2>1, <2>2, <2>4 DEF ReadiesOrder, OrderBecomes, Order
  <2>5. CASE CertifiesOrder
    <3>1. PICK p \in DOMAIN orders, c \in Nat :
             /\ orders[p].status = "ready" \/ (threaded /\ orders[p].status = "valid")
             /\ OrderBecomes(p, [orders[p] EXCEPT !.status = "valid", !.cert = c])
      BY <2>5 DEF CertifiesOrder
    <3>2. CASE p = o
      <4>1. /\ orders'[o] = [orders[o] EXCEPT !.status = "valid", !.cert = c]
            /\ orders'[o].status = "valid" /\ orders'[o].cert = c
        BY <2>1, <3>1, <3>2 DEF OrderBecomes, Order
      <4>2. orders[o].status = "valid" => orders'[o] = [orders[o] EXCEPT !.cert = c]
        <5>1. ASSUME NEW order \in Order, order.status = "valid"
              PROVE  [order EXCEPT !.status = "valid", !.cert = c] = [order EXCEPT !.cert = c]
          BY <5>1 DEF Order
        <5> QED
          BY <2>1, <4>1, <5>1
      <4> QED
        BY <3>1, <3>2, <4>1, <4>2
    <3>3. CASE p # o
      BY <2>2, <3>1, <3>3 DEF OrderBecomes
    <3> QED
      BY <3>2, <3>3
  <2> QED
    BY <2>2, <2>3, <2>4, <2>5, OrderSteps
<1>2. OrdersMoveForward <=> [][Forward]_vars
  BY DEF OrdersMoveForward
<1> QED
  BY <1>1, <1>2, TypeCorrect, CertInit, CertNext, PTL DEF Spec

-----------------------------------------------------------------------------
(* The promise about orders *)

\* The statuses of the orders q, and the orders of the certificates q.
StatusesOf(q) == [o \in DOMAIN q |-> q[o].status]
OrdersOf(q) == [c \in DOMAIN q |-> q[c].order]

\* They are sequences as long as q.
LEMMA StatusesFacts ==
    ASSUME NEW q \in Seq(Order)
    PROVE  /\ StatusesOf(q) \in Seq(OrderStatus)
           /\ Len(StatusesOf(q)) = Len(q) /\ DOMAIN StatusesOf(q) = DOMAIN q
           /\ \A o \in DOMAIN q : StatusesOf(q)[o] = q[o].status
<1>1. DOMAIN q = 1..Len(q) /\ Len(q) \in Nat
  BY LenProperties
<1>2. \A o \in DOMAIN q : q[o] \in Order
  BY <1>1, ElementOfSeq
<1>3. \A o \in DOMAIN q : q[o].status \in OrderStatus
  BY <1>2 DEF Order
<1>4. StatusesOf(q) \in [1..Len(q) -> OrderStatus]
  BY <1>1, <1>3 DEF StatusesOf
<1>5. StatusesOf(q) \in Seq(OrderStatus) /\ DOMAIN StatusesOf(q) = 1..Len(q)
  BY <1>1, <1>4, SeqDef
<1>6. Len(StatusesOf(q)) = Len(q)
  BY <1>1, <1>5, LenProperties
<1> QED
  BY <1>1, <1>5, <1>6 DEF StatusesOf

\* The same of the certificates.
LEMMA OrdersOfFacts ==
    ASSUME NEW q \in Seq(Certificate)
    PROVE  /\ OrdersOf(q) \in Seq(Nat)
           /\ Len(OrdersOf(q)) = Len(q) /\ DOMAIN OrdersOf(q) = DOMAIN q
           /\ \A c \in DOMAIN q : OrdersOf(q)[c] = q[c].order
<1>1. DOMAIN q = 1..Len(q) /\ Len(q) \in Nat
  BY LenProperties
<1>2. \A c \in DOMAIN q : q[c] \in Certificate
  BY <1>1, ElementOfSeq
<1>3. \A c \in DOMAIN q : q[c].order \in Nat
  BY <1>2 DEF Certificate
<1>4. OrdersOf(q) \in [1..Len(q) -> Nat]
  BY <1>1, <1>3 DEF OrdersOf
<1>5. OrdersOf(q) \in Seq(Nat) /\ DOMAIN OrdersOf(q) = 1..Len(q)
  BY <1>1, <1>4, SeqDef
<1>6. Len(OrdersOf(q)) = Len(q)
  BY <1>1, <1>5, LenProperties
<1> QED
  BY <1>1, <1>5, <1>6 DEF OrdersOf

\* A new pending order is a new pending status.
LEMMA StatusesAppend ==
    ASSUME NEW q \in Seq(Order), NEW n \in Order
    PROVE  StatusesOf(Append(q, n)) = Append(StatusesOf(q), n.status)
<1> DEFINE a == StatusesOf(Append(q, n))
           b == Append(StatusesOf(q), n.status)
<1>1. /\ Append(q, n) \in Seq(Order) /\ Len(Append(q, n)) = Len(q) + 1
      /\ DOMAIN Append(q, n) = DOMAIN q \cup {Len(q) + 1}
      /\ Append(q, n)[Len(q) + 1] = n
      /\ \A o \in DOMAIN q : Append(q, n)[o] = q[o]
  BY AppendFacts
<1>2. n.status \in OrderStatus
  BY DEF Order
<1>3. /\ a \in Seq(OrderStatus) /\ Len(a) = Len(q) + 1
      /\ DOMAIN a = DOMAIN q \cup {Len(q) + 1}
      /\ a[Len(q) + 1] = n.status
      /\ \A o \in DOMAIN q : a[o] = q[o].status
  <2>1. PICK r \in Seq(Order) : r = Append(q, n)
    BY <1>1
  <2>2. /\ StatusesOf(r) \in Seq(OrderStatus) /\ Len(StatusesOf(r)) = Len(r) /\ DOMAIN StatusesOf(r) = DOMAIN r
        /\ \A o \in DOMAIN r : StatusesOf(r)[o] = r[o].status
    BY StatusesFacts
  <2>3. a = StatusesOf(r)
    BY <2>1
  <2> HIDE DEF a
  <2> QED
    BY <1>1, <2>1, <2>2, <2>3
<1>4. /\ b \in Seq(OrderStatus) /\ Len(b) = Len(q) + 1
      /\ b[Len(q) + 1] = n.status
      /\ \A o \in DOMAIN q : b[o] = q[o].status
  BY <1>2, StatusesFacts, AppendFacts
<1>5. DOMAIN a = 1..Len(a)
  BY <1>3, LenProperties
<1>6. \A o \in 1..Len(a) : a[o] = b[o]
  BY <1>3, <1>4, <1>5
<1> QED
  BY <1>3, <1>4, <1>6, SeqEqual

\* A new certificate is a new entry for its order.
LEMMA OrdersOfAppend ==
    ASSUME NEW q \in Seq(Certificate), NEW n \in Certificate
    PROVE  OrdersOf(Append(q, n)) = Append(OrdersOf(q), n.order)
<1> DEFINE a == OrdersOf(Append(q, n))
           b == Append(OrdersOf(q), n.order)
<1>1. /\ Append(q, n) \in Seq(Certificate) /\ Len(Append(q, n)) = Len(q) + 1
      /\ DOMAIN Append(q, n) = DOMAIN q \cup {Len(q) + 1}
      /\ Append(q, n)[Len(q) + 1] = n
      /\ \A o \in DOMAIN q : Append(q, n)[o] = q[o]
  BY AppendFacts
<1>2. n.order \in Nat
  BY DEF Certificate
<1>3. /\ a \in Seq(Nat) /\ Len(a) = Len(q) + 1
      /\ DOMAIN a = DOMAIN q \cup {Len(q) + 1}
      /\ a[Len(q) + 1] = n.order
      /\ \A o \in DOMAIN q : a[o] = q[o].order
  <2>1. PICK r \in Seq(Certificate) : r = Append(q, n)
    BY <1>1
  <2>2. /\ OrdersOf(r) \in Seq(Nat) /\ Len(OrdersOf(r)) = Len(r) /\ DOMAIN OrdersOf(r) = DOMAIN r
        /\ \A o \in DOMAIN r : OrdersOf(r)[o] = r[o].order
    BY OrdersOfFacts
  <2>3. a = OrdersOf(r)
    BY <2>1
  <2> HIDE DEF a
  <2> QED
    BY <1>1, <2>1, <2>2, <2>3
<1>4. /\ b \in Seq(Nat) /\ Len(b) = Len(q) + 1
      /\ b[Len(q) + 1] = n.order
      /\ \A o \in DOMAIN q : b[o] = q[o].order
  BY <1>2, OrdersOfFacts, AppendFacts
<1>5. DOMAIN a = 1..Len(a)
  BY <1>3, LenProperties
<1>6. \A o \in 1..Len(a) : a[o] = b[o]
  BY <1>3, <1>4, <1>5
<1> QED
  BY <1>3, <1>4, <1>6, SeqEqual

\* One order that becomes another is one status that changes.
LEMMA StatusesChange ==
    ASSUME orders \in Seq(Order), NEW o \in DOMAIN orders, NEW n, OrderBecomes(o, n)
    PROVE  StatusesOf(orders') = [StatusesOf(orders) EXCEPT ![o] = n.status]
<1>1. \A p \in DOMAIN orders : orders'[p].status = IF p = o THEN n.status ELSE orders[p].status
  BY DEF OrderBecomes
<1> QED
  BY <1>1 DEF StatusesOf, OrderBecomes

\* The responder keeps the promise about orders: it starts like it, and each
\* of its steps is one of the promised steps or none of their business.
THEOREM KeepsPromise == Spec => ImplementsOrderLifecycle
<1>1. Init => Promise!Init
  <2> SUFFICES ASSUME Init PROVE Promise!Init
    OBVIOUS
  <2>1. orders = <<>> /\ certs = <<>> /\ threaded \in BOOLEAN
    BY DEF Init
  <2>2. orders \in Seq(Order) /\ certs \in Seq(Certificate) /\ Len(orders) = 0 /\ Len(certs) = 0
    BY <2>1, EmptySeq
  <2>3. StatusesOf(orders) = <<>> /\ OrdersOf(certs) = <<>>
    BY <2>2, StatusesFacts, OrdersOfFacts, EmptySeq
  <2> QED
    BY <2>1, <2>3 DEF Promise!Init, StatusesOf, OrdersOf
<1>2. TypeOK /\ CertInv /\ [Next]_vars => [Promise!Next]_(Promise!vars)
  <2> SUFFICES ASSUME TypeOK, CertInv, [Next]_vars PROVE [Promise!Next]_(Promise!vars)
    OBVIOUS
  <2>1. orders \in Seq(Order) /\ certs \in Seq(Certificate) /\ threaded' = threaded
    BY OrderSteps DEF TypeOK
  <2>2. CASE UNCHANGED <<orders, certs>>
    BY <2>1, <2>2 DEF Promise!vars
  <2>3. CASE OpensOrder
    <3>1. PICK n \in Order : n.status = "pending" /\ orders' = Append(orders, n)
      BY <2>3 DEF OpensOrder
    <3>2. StatusesOf(orders') = Append(StatusesOf(orders), "pending")
      BY <2>1, <3>1, StatusesAppend
    <3>3. Len(StatusesOf(orders)) < MaxOrders /\ certs' = certs
      BY <2>1, <2>3, StatusesFacts DEF OpensOrder
    <3>4. Promise!Open
      BY <2>1, <3>2, <3>3 DEF Promise!Open, StatusesOf
    <3> QED
      BY <3>4 DEF Promise!Next
  <2>4. CASE ReadiesOrder
    <3>1. PICK o \in DOMAIN orders :
             /\ orders[o].status = "pending"
             /\ OrderBecomes(o, [orders[o] EXCEPT !.status = "ready"])
      BY <2>4 DEF ReadiesOrder
    <3>2. [orders[o] EXCEPT !.status = "ready"].status = "ready"
      BY <2>1, SettledStatus DEF Order
    <3>3. StatusesOf(orders') = [StatusesOf(orders) EXCEPT ![o] = "ready"]
      BY <2>1, <3>1, <3>2, StatusesChange
    <3>4. StatusesOf(orders)[o] = "pending" /\ o \in DOMAIN StatusesOf(orders) /\ certs' = certs
      BY <2>1, <2>4, <3>1, StatusesFacts DEF ReadiesOrder
    <3>5. Promise!BecomeReady(o)
      BY <2>1, <3>3, <3>4 DEF Promise!BecomeReady, StatusesOf
    <3> QED
      BY <3>4, <3>5 DEF Promise!Next, StatusesOf
  <2>5. CASE CertifiesOrder
    <3>1. PICK o \in DOMAIN orders, d \in Nat, c \in Certificate :
             /\ orders[o].status = "ready" \/ (threaded /\ orders[o].status = "valid")
             /\ OrderBecomes(o, [orders[o] EXCEPT !.status = "valid", !.cert = d])
             /\ c.order = o /\ certs' = Append(certs, c)
      BY <2>5 DEF CertifiesOrder
    <3>2. PICK n : OrderBecomes(o, n) /\ n.status = "valid"
      BY <2>1, <3>1, SettledStatus DEF Order
    <3>3. StatusesOf(orders') = [StatusesOf(orders) EXCEPT ![o] = "valid"]
      BY <2>1, <3>1, <3>2, StatusesChange
    <3>4. OrdersOf(certs') = Append(OrdersOf(certs), o)
      BY <2>1, <3>1, OrdersOfAppend
    <3>5. /\ StatusesOf(orders)[o] = "ready" \/ (threaded /\ StatusesOf(orders)[o] = "valid")
          /\ o \in DOMAIN StatusesOf(orders)
      BY <2>1, <3>1, StatusesFacts
    <3>6. Promise!Certify(o)
      BY <2>1, <3>3, <3>4, <3>5 DEF Promise!Certify, StatusesOf, OrdersOf
    <3> QED
      BY <3>5, <3>6 DEF Promise!Next, StatusesOf
  <2> QED
    BY <2>2, <2>3, <2>4, <2>5, OrderSteps
<1> QED
  BY <1>1, <1>2, TypeCorrect, CertInit, CertNext, PTL
     DEF Spec, ImplementsOrderLifecycle, Promise!Spec
=============================================================================
