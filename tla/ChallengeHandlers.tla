--------------------------- MODULE ChallengeHandlers ---------------------------
(***************************************************************************)
(* What the calls of a challenge handler do to the responses a validating  *)
(* server can see: challenges/http01.py (a table of tokens, served by the  *)
(* handler itself) and challenges/dns01.py with the DNS providers of       *)
(* challenges/providers (TXT records of a zone, external).                 *)
(*                                                                         *)
(* A response is <<call, identifier>>: its token, and so its value, is its *)
(* own.  The record name is not: "example.com" and "*.example.com" have    *)
(* the same one.                                                           *)
(***************************************************************************)
EXTENDS Naturals

Handlers == {"http", "route53", "cloudflare", "hook"}

\* Who shares a record name: the identifiers of one call (a name and its
\* wildcard), the calls (they ask for the same names).
Sharing == SUBSET {"identifiers", "calls"}

\* _acme_challenge_domain
RecordName(sharing, r) ==
    <<IF "calls" \in sharing THEN "any call" ELSE r[1],
      IF "identifiers" \in sharing THEN 1 ELSE r[2]>>

\* create_txt_record, or the assignment of the HTTP-01 table.  Cloudflare and
\* the hook add a record; an UPSERT replaces the record set of the name.
Publish(handler, sharing, published, r) ==
    {q \in published : handler = "route53" =>
        RecordName(sharing, q) # RecordName(sharing, r)} \cup {r}

\* Mistake: the record set is removed, whatever its values.
WithdrawName(published, r) == {q \in published : q[2] # r[2]}

\* delete_txt_record, or the pop of the HTTP-01 table.  All three providers
\* name the value; one that is not there is an error (Route 53) or ignored.
Withdraw(published, r) == published \ {r}

\* get_response / _handle_connection, or the lookup of a TXT record.
Answers(published, r) == r \in published
=============================================================================
