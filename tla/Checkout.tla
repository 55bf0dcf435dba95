------------------------------- MODULE Checkout -------------------------------
(***************************************************************************)
(* One tab of the customer app (apps/cliente): the cart of App.tsx, the    *)
(* checkout screen that submits it and retries it, and the order book the  *)
(* API keeps.                                                              *)
(*                                                                         *)
(* The Idempotency-Key lives in sessionStorage, so it survives a reload of *)
(* the page, which the cart and the requests in flight do not.  A mounted  *)
(* checkout screen also holds its key in a ref.  Leaving the screen does   *)
(* not abort its request: handleSubmit goes on when the answer comes, and  *)
(* handleOrderSuccess acts on whatever the app shows by then.  An error    *)
(* tells the customer nothing about the order: the API may have placed it, *)
(* or may do so later.                                                     *)
(*                                                                         *)
(* The API is OrderBook, which Orders implements.                          *)
(***************************************************************************)
EXTENDS Naturals

CONSTANTS
    Customers,
    Items,          \* what the menu offers
    MaxQuantity,    \* bound: units of an item in the cart
    MaxKeys,        \* bound: UUIDs the tab generates
    MaxAttempts,    \* bound: times the button is pressed
    Shop,
    None,
    NoAnswer,
    Error

Keys == 1 .. MaxKeys
Attempts == 1 .. MaxAttempts
Carts == [Items -> 0 .. MaxQuantity]
EmptyCart == [i \in Items |-> 0]
Submissions == [key : Keys, who : Customers \cup {None}, items : Carts]
Requests == [tenant : {Shop}, key : Keys, id : Attempts]
OrderRows == [tenant : {Shop}, key : Keys, day : {1}, seq : Nat, created : {1}]

ASSUME BoundsAssumption == MaxKeys \in Nat /\ MaxAttempts \in Nat /\ MaxQuantity \in Nat
ASSUME NoneAssumption ==
    None \notin Keys \cup Attempts \cup Customers \cup Submissions

VARIABLES
    view,       \* "menu" (and the cart and history screens), "checkout", "confirmation"
    customer,   \* who is logged in
    cart,
    storage,    \* whether sessionStorage can be used
    stored,     \* the key in sessionStorage
    ref,        \* idempotencyKeyRef of the mounted checkout screen
    waiting,    \* the attempt the mounted checkout screen is submitting
    keysMade,
    sent,       \* what each attempt submitted
    inFlight,   \* attempts whose answer the tab still expects
    shown,      \* confirmations: what was submitted and the order that was shown
    impatient,  \* history: the screen was left while it was submitting
    book, counter, answer,  \* the order book of the API
    contents    \* what was ordered under each key

tab == <<view, customer, cart, storage, stored, ref, waiting, keysMade>>
server == <<book, counter, answer, contents>>
vars == <<tab, sent, inFlight, shown, impatient, server>>

\* The request of attempt a as the order book knows it.
RequestOf(a) == [tenant |-> Shop, key |-> sent[a].key, id |-> a]

Book == INSTANCE OrderBook WITH
    Tenants <- {Shop}, Days <- {1}

Init ==
    /\ view = "menu" /\ customer = None /\ cart = EmptyCart
    /\ storage \in BOOLEAN
    /\ stored = None /\ ref = None /\ waiting = None /\ keysMade = 0
    /\ sent = [a \in Attempts |-> None]
    /\ inFlight = {} /\ shown = {} /\ impatient = FALSE
    /\ Book!Init
    /\ contents = [k \in Keys |-> None]

-----------------------------------------------------------------------------
\* handleAdd..., handleUpdateQuantity, handleRemoveItem.
SetQuantity(i, q) ==
    /\ view = "menu"
    /\ cart' = [cart EXCEPT ![i] = q]
    /\ UNCHANGED <<view, customer, storage, stored, ref, waiting, keysMade,
                   sent, inFlight, shown, impatient, server>>

Login(c) ==
    /\ view = "menu"
    /\ customer = None
    /\ customer' = c
    /\ UNCHANGED <<view, cart, storage, stored, ref, waiting, keysMade,
                   sent, inFlight, shown, impatient, server>>

\* handleLogout forgets the token when the API has answered, on whatever screen;
\* it touches neither the cart nor the key.
Logout ==
    /\ customer # None
    /\ customer' = None
    /\ UNCHANGED <<view, cart, storage, stored, ref, waiting, keysMade,
                   sent, inFlight, shown, impatient, server>>

\* Mutant of GoToCheckout: the key lives only as long as the screen.
GoToCheckoutWithFreshKey ==
    /\ view = "menu" /\ customer # None /\ cart # EmptyCart
    /\ keysMade < MaxKeys
    /\ keysMade' = keysMade + 1
    /\ ref' = keysMade'
    /\ stored' = IF storage THEN keysMade' ELSE None
    /\ view' = "checkout"
    /\ UNCHANGED <<customer, cart, storage, waiting, sent, inFlight, shown, impatient, server>>

\* handleGoToCheckout mounts the screen: getOrCreateIdempotencyKey.
GoToCheckout ==
    /\ view = "menu" /\ customer # None /\ cart # EmptyCart
    /\ \/ /\ stored # None
          /\ ref' = stored
          /\ UNCHANGED <<stored, keysMade>>
       \/ /\ stored = None
          /\ keysMade < MaxKeys
          /\ keysMade' = keysMade + 1
          /\ ref' = keysMade'
          /\ stored' = IF storage THEN keysMade' ELSE None
    /\ view' = "checkout"
    /\ UNCHANGED <<customer, cart, storage, waiting, sent, inFlight, shown, impatient, server>>

\* onBack of the checkout screen, enabled while it is submitting too.
Back ==
    /\ view = "checkout"
    /\ view' = "menu" /\ ref' = None /\ waiting' = None
    /\ impatient' = (impatient \/ waiting # None)
    /\ UNCHANGED <<customer, cart, storage, stored, keysMade, sent, inFlight, shown, server>>

\* handleSubmit: POST /orders with the cart and the key of the screen.
Submit(a) ==
    /\ view = "checkout" /\ waiting = None
    /\ sent[a] = None /\ \A b \in 1 .. a - 1 : sent[b] # None
    /\ sent' = [sent EXCEPT ![a] = [key |-> ref, who |-> customer, items |-> cart]]
    /\ inFlight' = inFlight \cup {a}
    /\ waiting' = a
    /\ UNCHANGED <<view, customer, cart, storage, stored, ref, keysMade, shown, impatient, server>>

\* Mutant of Succeed: the key is not cleared.
SucceedKeepingKey(a) ==
    /\ a \in inFlight
    /\ answer[RequestOf(a)] \in Book!OrdersUnder(RequestOf(a))
    /\ inFlight' = inFlight \ {a}
    /\ shown' = shown \cup {[submitted |-> sent[a], ordered |-> contents[sent[a].key]]}
    /\ view' = "confirmation" /\ cart' = EmptyCart /\ ref' = None /\ waiting' = None
    /\ UNCHANGED <<customer, stored, storage, keysMade, sent, impatient, server>>

\* Mutant of Succeed: the app does not leave the checkout screen.
SucceedStaying(a) ==
    /\ a \in inFlight
    /\ answer[RequestOf(a)] \in Book!OrdersUnder(RequestOf(a))
    /\ inFlight' = inFlight \ {a}
    /\ shown' = shown \cup {[submitted |-> sent[a], ordered |-> contents[sent[a].key]]}
    /\ stored' = None
    /\ cart' = EmptyCart /\ ref' = None /\ waiting' = None
    /\ UNCHANGED <<view, customer, storage, keysMade, sent, impatient, server>>

\* The order comes back: clearIdempotencyKey, then handleOrderSuccess.
Succeed(a) ==
    /\ a \in inFlight
    /\ answer[RequestOf(a)] \in Book!OrdersUnder(RequestOf(a))
    /\ inFlight' = inFlight \ {a}
    /\ shown' = shown \cup {[submitted |-> sent[a], ordered |-> contents[sent[a].key]]}
    /\ stored' = None
    /\ view' = "confirmation" /\ cart' = EmptyCart /\ ref' = None /\ waiting' = None
    /\ UNCHANGED <<customer, storage, keysMade, sent, impatient, server>>

\* An error comes back, of the API or of the network: the screen that sent the
\* request, if it is still mounted, offers the button again.
SubmitFails(a) ==
    /\ a \in inFlight
    /\ inFlight' = inFlight \ {a}
    /\ waiting' = IF waiting = a THEN None ELSE waiting
    /\ UNCHANGED <<view, customer, cart, storage, stored, ref, keysMade,
                   sent, shown, impatient, server>>

\* handleBackToMenu of the confirmation screen.
BackToMenu ==
    /\ view = "confirmation"
    /\ view' = "menu" /\ cart' = EmptyCart
    /\ UNCHANGED <<customer, storage, stored, ref, waiting, keysMade,
                   sent, inFlight, shown, impatient, server>>

\* F5: tryRestoreSession keeps the customer logged in, or fails to.
Reload ==
    /\ view' = "menu" /\ cart' = EmptyCart /\ ref' = None /\ waiting' = None
    /\ inFlight' = {}
    /\ customer' \in {customer, None}
    /\ UNCHANGED <<storage, stored, keysMade, sent, shown, impatient, server>>

-----------------------------------------------------------------------------
\* The API handles what was sent, whether or not the tab still waits for it.
\* Without a token there is no order to place.
Place(a) ==
    /\ sent[a] # None /\ sent[a].who # None
    /\ Book!Place(RequestOf(a), 1, 1)
    /\ contents' = [contents EXCEPT ![sent[a].key] = sent[a]]
    /\ UNCHANGED <<tab, sent, inFlight, shown, impatient>>

Answer(a) ==
    /\ sent[a] # None /\ sent[a].who # None
    /\ Book!Answer(RequestOf(a))
    /\ UNCHANGED <<tab, sent, inFlight, shown, impatient, contents>>

Refuse(a) ==
    /\ sent[a] # None
    /\ Book!Refuse(RequestOf(a))
    /\ UNCHANGED <<tab, sent, inFlight, shown, impatient, contents>>

Next ==
    \/ \E i \in Items, q \in 0 .. MaxQuantity : SetQuantity(i, q)
    \/ \E c \in Customers : Login(c)
    \/ Logout \/ GoToCheckout \/ Back \/ BackToMenu \/ Reload
    \/ \E a \in Attempts :
        \/ Submit(a) \/ Succeed(a) \/ SubmitFails(a)
        \/ Place(a) \/ Answer(a) \/ Refuse(a)

Spec == Init /\ [][Next]_vars

-----------------------------------------------------------------------------
TypeOK ==
    /\ view \in {"menu", "checkout", "confirmation"}
    /\ customer \in Customers \cup {None}
    /\ cart \in Carts
    /\ storage \in BOOLEAN
    /\ stored \in Keys \cup {None} /\ ref \in Keys \cup {None}
    /\ (ref # None) = (view = "checkout")
    /\ waiting \in inFlight \cup {None}
    /\ keysMade \in 0 .. MaxKeys
    /\ sent \in [Attempts -> Submissions \cup {None}]
    /\ inFlight \subseteq {a \in Attempts : sent[a] # None}
    /\ shown \subseteq [submitted : Submissions, ordered : Submissions]
    /\ impatient \in BOOLEAN
    /\ book \subseteq OrderRows
    /\ counter \in [{Shop} -> [{1} -> Nat]]
    /\ answer \in [Requests -> book \cup {NoAnswer, Error}]
    /\ contents \in [Keys -> Submissions \cup {None}]

Confirmed == {s.ordered.key : s \in shown}

\* "o proximo checkout gera uma chave nova": a key whose order was confirmed is
\* never offered to another submission, so that no later cart is answered with
\* the old order, whatever answers arrive late.
ConfirmedKeyIsRetired ==
    stored \notin Confirmed /\ ref \notin Confirmed

\* The customer who waits for the answers, through errors, reloads, a logout and
\* new carts, knows of every order: it was confirmed, or the next submission
\* carries its key and will show it, so that a second one is never made by
\* mistake.  ("um novo pedido genuinamente duplicado era criado, sem o cliente
\* saber que o primeiro ja tinha ido pra pizzaria".)
PatientCustomerLosesNoOrder ==
    storage /\ ~impatient =>
        \A o \in book : o.key \in Confirmed \/ o.key = stored

-----------------------------------------------------------------------------
\* "e' isso que garante que um retry do MESMO checkout nunca vira um segundo
\* pedido": a key is a retry of one and the same checkout, so that the order
\* confirmed is the one that was submitted.
ConfirmedAsSubmitted ==
    \A s \in shown : s.ordered = s.submitted

=============================================================================
