---------------------------- MODULE Identifiers ----------------------------
(***************************************************************************)
(* What becomes of the identifiers of a certificate between the values a   *)
(* caller asks for and the values a renewal asks for: lacme/               *)
(* _identifiers.py and its uses in client.py, crypto.py, acme_server.py,   *)
(* ca.py and renewal.py.  Values are typed and keep the caller's spelling; *)
(* the wire, the CSR, the certificate and the stored bundle each keep      *)
(* another part of that, and the code compares typed, case-folded keys.    *)
(*                                                                         *)
(* A text is a name and how it is spelled.  "v4" reads as a DNS name or as *)
(* an IPv4 address, "v6" only as an address; a "mixed" address is one that *)
(* is not in canonical form, which an address object never is.             *)
(***************************************************************************)
EXTENDS Naturals, FiniteSets, SequencesExt

CONSTANTS
    Requests,      \* what callers ask issue() for: sequences of values
    WireOrders,    \* newOrder payloads of other ACME clients
    Requesters,    \* CSRs of other clients
    StraySANs,     \* what a wrong authority puts in a certificate
    MaxIssues      \* calls of issue() in a behaviour

Names == {"host", "*.host", "v4", "v6"}
Text == [name : Names, spelling : {"lower", "mixed"}]
WireIdentifier == [type : {"dns", "ip", "other"}, text : Text]
Authorities == {"lacme",    \* the responder and its CertificateAuthority
                "public",   \* lower-cases names, one SAN per name, any order
                "wrong"}    \* may answer with other identifiers
ChallengeTypes == {"http-01", "dns-01"}

Lower(text) == [text EXCEPT !.spelling = "lower"]
IsWildcard(value) == value.type = "dns" /\ value.text.name = "*.host"

\* A value of the public API, or a canonical wire identifier.
Valid(value) ==
    \/ value.type = "dns" /\ value.text.name # "v6"
    \/ /\ value.type = "ip" /\ value.text.name \in {"v4", "v6"}
       /\ value.text.spelling = "lower"
Value == {value \in WireIdentifier : Valid(value)}

Key(value) == [value EXCEPT !.text = Lower(value.text)]
Keys(values) == {Key(value) : value \in ToSet(values)}
Texts(values) == [i \in DOMAIN values |-> values[i].text]

ASSUME IdentifiersAssumption ==
    /\ Requests \subseteq Seq(Value) \ {<<>>}
    /\ WireOrders \subseteq Seq(WireIdentifier)
    /\ Requesters \subseteq [cns : SUBSET Text, sans : Seq(WireIdentifier)]
    /\ StraySANs \subseteq Seq(WireIdentifier)
    /\ MaxIssues \in Nat

VARIABLES
    authority,    \* chosen once, never changed
    renewalType,  \* the one challenge type of the RenewalManager
    wanted,       \* ghost: the identifiers of the first order
    pc,           \* what comes next, or how the last order ended
    asked,        \* the values of the order in progress
    renewing,     \* the store key of the certificate it renews, or NoText
    provisioned,  \* the texts given to challenge handlers
    csr,          \* the CSR last sent to finalize, or NoCSR
    sans,         \* the SANs of the issued certificate
    store,        \* the bundle stored under each text
    issues        \* orders started

NoText == [name |-> "", spelling |-> ""]
NoCSR == [cns |-> {}, sans |-> <<>>]
vars == <<authority, renewalType, wanted, pc, asked, renewing, provisioned,
          csr, sans, store, issues>>

Init ==
    /\ authority \in Authorities
    /\ renewalType \in ChallengeTypes
    /\ wanted = <<>> /\ asked = <<>> /\ sans = <<>>
    /\ pc = "idle"
    /\ renewing = NoText
    /\ provisioned = {}
    /\ csr = NoCSR
    /\ store = <<>>
    /\ issues = 0

-----------------------------------------------------------------------------
\* The client: Client.issue and the order it creates.

Suitable(value, type) ==
    /\ IsWildcard(value) => type # "http-01"
    /\ value.type = "ip" => type # "dns-01"

\* issue(values), where challenge_map and the default give each key a type.
CallIssue(values, types) ==
    /\ issues < MaxIssues
    /\ issues' = issues + 1
    /\ asked' = values
    /\ pc' = IF \A v \in ToSet(values) : Suitable(v, types[Key(v)])
             THEN "authorize" ELSE "refused"
    /\ provisioned' = {} /\ csr' = NoCSR /\ sans' = <<>>

Ask == \E values \in Requests :
    \E types \in [Keys(values) -> ChallengeTypes] :
        /\ pc = "idle" /\ wanted = <<>>
        /\ CallIssue(values, types)
        /\ wanted' = values
        /\ renewing' = NoText
        /\ UNCHANGED <<authority, renewalType, store>>

\* The server lists a wildcard under its base name, flagged; a public one
\* answers with its own spelling.
Authorization(value) ==
    LET text == IF authority = "public" THEN Lower(value.text) ELSE value.text
    IN  [type |-> value.type, wildcard |-> IsWildcard(value),
         text |-> IF IsWildcard(value) THEN [text EXCEPT !.name = "host"] ELSE text]

\* The key the client looks an authorization up by.
RoutingKey(authz) ==
    Key([type |-> authz.type,
         text |-> IF authz.wildcard THEN [authz.text EXCEPT !.name = "*.host"]
                  ELSE authz.text])

\* The text of the last value asked for under a key.
EffectiveText(key) == asked[SelectLastInSeq(asked, LAMBDA v : Key(v) = key)].text

\* Each authorization is routed to what was asked for, its handler called.
\* Nothing notices that a wrong authority offers too few of them.
Authorize == \E offered \in SUBSET {Authorization(v) : v \in ToSet(asked)} :
    /\ pc = "authorize"
    /\ authority # "wrong" => offered = {Authorization(v) : v \in ToSet(asked)}
    /\ \/ /\ {RoutingKey(a) : a \in offered} \subseteq Keys(asked)
          /\ provisioned' = {EffectiveText(RoutingKey(a)) : a \in offered}
          /\ pc' = "finalize"
       \/ /\ \/ authority = "wrong"      \* an identifier nobody asked for
             \/ ~ {RoutingKey(a) : a \in offered} \subseteq Keys(asked)
          /\ pc' = "refused"
          /\ UNCHANGED provisioned
    /\ UNCHANGED <<authority, renewalType, wanted, asked, renewing, csr,
                   sans, store, issues>>

GeneratedCSR(values) == [cns |-> {values[1].text}, sans |-> values]

-----------------------------------------------------------------------------
\* The responder: binding a CSR to an order.

\* Mistake: a common name that repeats a SAN's text never counts.
CountedNamesNew(request, order) ==
    {cn \in request.cns :
        Lower(cn) \notin {Lower(v.text) : v \in ToSet(request.sans)}}

\* The common names that count as further DNS identifiers of the CSR.
CountedNames(request, order) ==
    LET sanTexts == {Lower(v.text) : v \in ToSet(request.sans)}
    IN  {cn \in request.cns :
            LET key == [type |-> "dns", text |-> Lower(cn)]
            IN  \/ key \in Keys(order) /\ key \notin Keys(request.sans)
                \/ Lower(cn) \notin sanTexts}

AsDNS(text) == [type |-> "dns", text |-> text]

\* validate_csr_identifiers
Accepted(request, order) ==
    LET counted == {AsDNS(cn) : cn \in CountedNames(request, order)}
    IN  /\ \A v \in ToSet(request.sans) \cup counted : Valid(v)
        /\ Keys(request.sans) \cup {Key(v) : v \in counted} = Keys(order)

\* What an authority certifies for an accepted order: the responder exactly
\* the order's identifiers, a public one (external) its own rendering.
Certified(order) ==
    CASE authority = "lacme"  -> {order}
      [] authority = "public" -> SetToSeqs(Keys(order))
      [] authority = "wrong"  -> {order} \cup StraySANs

Sign(request, order) ==
    /\ csr' = request
    /\ IF authority = "lacme" /\ ~ Accepted(request, order)
       THEN pc' = "badCSR" /\ UNCHANGED sans
       ELSE pc' = "check" /\ sans' \in Certified(order)

Finalize ==
    /\ pc = "finalize"
    /\ Sign(GeneratedCSR(asked), asked)
    /\ UNCHANGED <<authority, renewalType, wanted, asked, renewing,
                   provisioned, store, issues>>

-----------------------------------------------------------------------------
\* Saving what was issued.

Bundle(values, names) == [domains |-> Texts(values), sans |-> names]
StoredAs(key, bundle) ==
    [text \in DOMAIN store \cup {key} |-> IF text = key THEN bundle ELSE store[text]]
Save(values, names) == store' = StoredAs(values[1].text, Bundle(values, names))

\* Mistake: an address and the DNS name with the same text are taken for one.
MatchesUntyped(names, values) ==
    /\ names # <<>> /\ \A v \in ToSet(names) : Valid(v)
    /\ {Lower(v.text) : v \in ToSet(names)} = {Lower(v.text) : v \in ToSet(values)}

\* The certificate carries exactly the keys asked for.
Matches(names, values) ==
    /\ names # <<>> /\ \A v \in ToSet(names) : Valid(v)
    /\ Keys(names) = Keys(values)

CheckAndSave ==
    /\ pc = "check"
    /\ IF Matches(sans, asked)
       THEN pc' = "idle" /\ Save(asked, sans)
       ELSE pc' = "refused" /\ UNCHANGED store
    /\ UNCHANGED <<authority, renewalType, wanted, asked, renewing,
                   provisioned, csr, sans, issues>>

-----------------------------------------------------------------------------
\* Other ACME clients of the responder, and CSRs given to the authority.
\* The authority keeps what it issues in its own store, which is renewed too.

\* normalize_protocol_identifiers
AcceptedOrder(order) == order # <<>> /\ \A v \in ToSet(order) : Valid(v)

\* csr_ca_identifier_values: the SANs, or else the first common name.
CertifiableNames(request) ==
    IF request.sans # <<>> THEN {request.sans}
    ELSE {<<AsDNS(cn)>> : cn \in request.cns}

IssuedForOthers(order, names) ==
    /\ asked' = order /\ wanted' = order
    /\ sans' = names
    /\ Save(names, names)
    /\ pc' = "idle"

OtherClient == \E order \in WireOrders, request \in Requesters :
    /\ pc = "idle" /\ wanted = <<>> /\ authority = "lacme"
    /\ csr' = request
    /\ IF AcceptedOrder(order) /\ Accepted(request, order)
       THEN IssuedForOthers(order, order)
       ELSE /\ pc' = IF AcceptedOrder(order) THEN "badCSR" ELSE "malformed"
            /\ asked' = order
            /\ UNCHANGED <<wanted, sans, store>>
    /\ UNCHANGED <<authority, renewalType, renewing, provisioned, issues>>

\* CertificateAuthority.issue_from_csr without an order.
IssueFromCSR == \E request \in Requesters :
    /\ pc = "idle" /\ wanted = <<>> /\ authority = "lacme"
    /\ \/ \E names \in CertifiableNames(request) :
              /\ \A v \in ToSet(names) : Valid(v)
              /\ IssuedForOthers(names, names)
       \/ /\ \A names \in CertifiableNames(request) :
                \E v \in ToSet(names) : ~ Valid(v)
          /\ pc' = "refused"
          /\ UNCHANGED <<wanted, asked, sans, store>>
    /\ UNCHANGED <<authority, renewalType, renewing, provisioned, csr, issues>>

-----------------------------------------------------------------------------
\* Renewal: certificate_bundle_identifier_values and RenewalManager.

\* Takes the SANs that match the stored texts one by one, in the order of
\* the texts; an empty record of what is left means that they all matched.
Fits(value, text) ==
    \/ value.text = text
    \/ value.type = "dns" /\ Lower(value.text) = Lower(text)

TakeMatch(state, text) ==
    LET i == SelectInSeq(state.left, LAMBDA v : Fits(v, text))
    IN  IF i = 0 THEN [state EXCEPT !.ok = FALSE]
        ELSE [state EXCEPT !.left = RemoveAt(state.left, i),
                           !.found = Append(state.found, state.left[i])]

\* What is left and found after the first i texts.
Taken(bundle) ==
    LET after[i \in 0..Len(bundle.domains)] ==
            IF i = 0 THEN [left |-> bundle.sans, found |-> <<>>, ok |-> TRUE]
            ELSE TakeMatch(after[i - 1], bundle.domains[i])
    IN  after

\* Mistake: the values stay in the order of the certificate.
RecoveryInSANOrder(bundle) ==
    [Taken(bundle)[Len(bundle.domains)] EXCEPT !.found = bundle.sans]

Recovery(bundle) == Taken(bundle)[Len(bundle.domains)]
Recovered(bundle) == Recovery(bundle).ok /\ Recovery(bundle).left = <<>>

\* One certificate of a sweep, renewed through the client or the authority.
Renew == \E key \in DOMAIN store :
    LET values == Recovery(store[key]).found
    IN  /\ pc \notin {"authorize", "finalize", "check"}
        /\ renewing' = key
        /\ \/ /\ ~ Recovered(store[key])
              /\ pc' = "unrecovered"
              /\ csr' = NoCSR
              /\ UNCHANGED <<asked, provisioned, sans, store, issues>>
           \/ /\ Recovered(store[key])
              /\ CallIssue(values, [k \in Keys(values) |-> renewalType])
              /\ UNCHANGED store
           \/ /\ Recovered(store[key]) /\ authority = "lacme"
              /\ pc' = "idle"
              /\ asked' = values /\ sans' = values /\ csr' = NoCSR
              /\ Save(values, values)
              /\ UNCHANGED <<provisioned, issues>>
        /\ UNCHANGED <<authority, renewalType, wanted>>

Next == Ask \/ Authorize \/ Finalize \/ CheckAndSave \/ OtherClient
        \/ IssueFromCSR \/ Renew

Spec == Init /\ [][Next]_vars

-----------------------------------------------------------------------------
\* What holds.

\* A CSR describes an order if its SANs are supported and name exactly the
\* order's identifiers, where each common name either repeats the text of a
\* SAN or is read as one more DNS identifier.
Describes(request, order) ==
    /\ \A v \in ToSet(request.sans) : Valid(v)
    /\ \E counted \in SUBSET request.cns :
          /\ \A cn \in request.cns \ counted :
                \E v \in ToSet(request.sans) : Lower(v.text) = Lower(cn)
          /\ \A cn \in counted : Valid(AsDNS(cn))
          /\ Keys(request.sans) \cup {Key(AsDNS(cn)) : cn \in counted} = Keys(order)

\* The responder signs an order's identifiers if and only if the CSR
\* describes the order: typed, in any order and spelling (finalize).
CSRBinding ==
    authority = "lacme" /\ csr # NoCSR /\ pc \notin {"malformed", "finalize"}
        => (pc # "badCSR" <=> Describes(csr, asked))

\* However often a certificate is renewed, and through whom, what is stored
\* certifies exactly the typed identifiers that were first asked for; on the
\* way a handler is called with the text the caller used, never with the
\* server's spelling or a wildcard's base name, and for every one of them if
\* the authority offers an authorization for each (Client.issue).
IdentifiersKept ==
    /\ \A key \in DOMAIN store : Keys(store[key].sans) = Keys(wanted)
    /\ pc \in {"finalize", "check"} =>
          /\ provisioned \subseteq ToSet(Texts(asked))
          /\ authority # "wrong" =>
                {Lower(t) : t \in provisioned} = {Lower(t) : t \in ToSet(Texts(asked))}

\* The authority renders the order's identifiers one by one and unchanged,
\* and one challenge type fits them all.
Regular ==
    /\ \/ authority = "lacme"
       \/ /\ authority = "public"
          /\ wanted = [i \in DOMAIN wanted |-> Key(wanted[i])]
          /\ Cardinality(Keys(wanted)) = Len(wanted)
    /\ \A v \in ToSet(wanted) : Suitable(v, renewalType)

\* A certificate is stored under the first text asked for and under no other
\* (Client.issue's save_cert, RenewalManager).
StoredUnderItsName == \A key \in DOMAIN store : key = wanted[1].text

\* A renewal recovers the identifiers from what is stored, is accepted, and
\* replaces the certificate it renews.
RenewalReplaces ==
    store # <<>> /\ Regular =>
        StoredUnderItsName /\ pc \notin {"unrecovered", "refused", "badCSR"}

=============================================================================
