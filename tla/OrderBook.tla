------------------------------ MODULE OrderBook ------------------------------
(***************************************************************************)
(* What POST /orders promises a pizzeria and its customers, with no        *)
(* transactions, locks or network in sight: a book of orders in which an   *)
(* order is placed in one step, at most once per tenant and Idempotency-   *)
(* Key, under the next code of its tenant and day of operation.            *)
(*                                                                         *)
(* A request is a record with the fields tenant and key.  An answer is     *)
(* either an order that stands in the book under the key of the request    *)
(* (201) or an error (400, 404, 500, a lost connection); an error promises *)
(* nothing about the book, which is why clients retry.                     *)
(***************************************************************************)
EXTENDS Naturals

CONSTANTS
    Tenants,
    Requests,   \* every POST /orders the API will ever receive
    Days,       \* days of operation
    NoAnswer,   \* the request has not been answered yet
    Error       \* the request was answered by anything but an order

VARIABLES
    book,       \* the orders placed
    counter,    \* last code given, per tenant and day
    answer      \* what each request was answered

vars == <<book, counter, answer>>

OrdersUnder(r) == {o \in book : o.tenant = r.tenant /\ o.key = r.key}

Init ==
    /\ book = {}
    /\ counter = [t \in Tenants |-> [d \in Days |-> 0]]
    /\ answer = [r \in Requests |-> NoAnswer]

\* The order of r enters the book under the next code of day d.  "created" is
\* the day its creation timestamp falls on, which may be another one.
Place(r, d, created) ==
    /\ answer[r] = NoAnswer
    /\ OrdersUnder(r) = {}
    /\ counter' = [counter EXCEPT ![r.tenant][d] = @ + 1]
    /\ book' = book \cup {[tenant |-> r.tenant, key |-> r.key, day |-> d,
                           seq |-> counter'[r.tenant][d], created |-> created]}
    /\ UNCHANGED answer

Answer(r) ==
    /\ answer[r] = NoAnswer
    /\ \E o \in OrdersUnder(r) : answer' = [answer EXCEPT ![r] = o]
    /\ UNCHANGED <<book, counter>>

Refuse(r) ==
    /\ answer[r] = NoAnswer
    /\ answer' = [answer EXCEPT ![r] = Error]
    /\ UNCHANGED <<book, counter>>

Next ==
    \E r \in Requests :
        \/ \E d, created \in Days : Place(r, d, created)
        \/ Answer(r)
        \/ Refuse(r)

Spec == Init /\ [][Next]_vars

=============================================================================
