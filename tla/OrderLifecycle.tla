--------------------------- MODULE OrderLifecycle ---------------------------
(***************************************************************************)
(* What an ACME server promises about its orders, whatever its challenges, *)
(* requests and threads do: an order is opened pending, becomes ready,     *)
(* and then receives its certificate, after which its status never         *)
(* changes.  Only a server whose requests run in several threads may give  *)
(* a completed order another certificate.                                  *)
(***************************************************************************)
EXTENDS Naturals, Sequences

CONSTANT MaxOrders   \* bound on the orders opened in one run

VARIABLES threaded,  \* do requests run in several threads? never changed
          status,    \* status[o]: the status of the o-th order
          issued     \* issued[c]: the order the c-th certificate was issued for

vars == <<threaded, status, issued>>

Init == /\ threaded \in BOOLEAN
        /\ status = <<>>
        /\ issued = <<>>

\* A client opens an order.
Open == /\ Len(status) < MaxOrders
        /\ status' = Append(status, "pending")
        /\ UNCHANGED <<threaded, issued>>

\* The server notices that every authorization of order o is valid.
BecomeReady(o) == /\ status[o] = "pending"
                  /\ status' = [status EXCEPT ![o] = "ready"]
                  /\ UNCHANGED <<threaded, issued>>

\* Order o receives its certificate.
Certify(o) == /\ \/ status[o] = "ready"
                 \/ threaded /\ status[o] = "valid"
              /\ status' = [status EXCEPT ![o] = "valid"]
              /\ issued' = Append(issued, o)
              /\ UNCHANGED threaded

Next == \/ Open
        \/ \E o \in DOMAIN status : BecomeReady(o) \/ Certify(o)

Spec == Init /\ [][Next]_vars
=============================================================================
