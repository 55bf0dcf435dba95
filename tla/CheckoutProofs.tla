---------------------------- MODULE CheckoutProofs ----------------------------
(***************************************************************************)
(* What the checkout screen guarantees a customer for any menu, any number *)
(* of submissions and of keys: a confirmed key is never used again, and a  *)
(* customer who waits for the answers knows of every order.                *)
(***************************************************************************)
EXTENDS Checkout, TLAPS

\* The key of an order placed is one the tab generated and recorded.
KeysAreOurs ==
    /\ stored # None => stored <= keysMade
    /\ ref # None => ref <= keysMade
    /\ \A a \in Attempts : sent[a] # None => sent[a].key <= keysMade
    /\ \A k \in Keys : contents[k] # None => contents[k].key = k /\ k <= keysMade
    /\ \A o \in book : contents[o.key] # None
    /\ \A k \in Confirmed : k <= keysMade

\* What waiting for every answer buys, while sessionStorage works: there is one
\* key at a time, the screen and the only request in flight use it, and every
\* other key the tab ever sent was confirmed.
OneKeyAtATime ==
    /\ ref # None => ref = stored
    /\ inFlight \subseteq {waiting}
    /\ waiting # None => ref # None /\ sent[waiting].key = ref
    /\ \A a \in Attempts : sent[a] # None => sent[a].key \in Confirmed \cup {stored}
    /\ \A o \in book : o.key \in Confirmed \cup {stored}

Inv ==
    /\ TypeOK
    /\ KeysAreOurs
    /\ ConfirmedKeyIsRetired
    /\ storage /\ ~impatient => OneKeyAtATime

LEMMA InitInv == Init => Inv
<1> SUFFICES ASSUME Init PROVE Inv
  OBVIOUS
<1>1. TypeOK
  <2>1. cart \in Carts /\ keysMade \in 0 .. MaxKeys
    BY BoundsAssumption DEF Init, Carts, EmptyCart
  <2>2. /\ counter \in [{Shop} -> [{1} -> Nat]]
        /\ answer \in [Requests -> book \cup {NoAnswer, Error}]
        /\ book \subseteq OrderRows
    BY DEF Init, Book!Init
  <2>3. /\ view = "menu" /\ ref = None /\ impatient \in BOOLEAN /\ storage \in BOOLEAN
        /\ (ref # None) = (view = "checkout")
    BY DEF Init
  <2>4. /\ customer = None /\ stored = None /\ waiting = None
        /\ sent = [a \in Attempts |-> None] /\ inFlight = {} /\ shown = {}
        /\ contents = [k \in Keys |-> None]
    BY DEF Init
  <2> QED
    BY <2>1, <2>2, <2>3, <2>4 DEF TypeOK
<1>2. Confirmed = {} /\ book = {}
  BY DEF Init, Book!Init, Confirmed
<1>3. KeysAreOurs
  BY <1>2 DEF Init, KeysAreOurs
<1>4. ConfirmedKeyIsRetired /\ OneKeyAtATime
  BY <1>2 DEF Init, ConfirmedKeyIsRetired, OneKeyAtATime
<1> QED
  BY <1>1, <1>3, <1>4 DEF Inv

\* What the customer does away from the checkout screen changes neither keys
\* nor requests.
LEMMA AwayInv ==
    ASSUME Inv,
           \/ \E i \in Items, q \in 0 .. MaxQuantity : SetQuantity(i, q)
           \/ \E c \in Customers : Login(c)
           \/ Logout
           \/ BackToMenu
    PROVE  Inv'
<1>1. /\ UNCHANGED <<storage, stored, ref, waiting, keysMade, sent, inFlight, shown,
                     impatient, book, counter, answer, contents>>
      /\ view' = view \/ (view = "confirmation" /\ view' = "menu")
  BY DEF SetQuantity, Login, Logout, BackToMenu, server
<1>2. customer' \in Customers \cup {None} /\ cart' \in Carts
  BY BoundsAssumption DEF SetQuantity, Login, Logout, BackToMenu, Inv, TypeOK, Carts, EmptyCart
<1>3. TypeOK'
  BY <1>1, <1>2 DEF Inv, TypeOK
<1>4. Confirmed' = Confirmed
  BY <1>1 DEF Confirmed
<1>5. KeysAreOurs'
  BY <1>1, <1>4 DEF Inv, KeysAreOurs
<1>6. ConfirmedKeyIsRetired' /\ (storage' /\ ~impatient' => OneKeyAtATime')
  BY <1>1, <1>4 DEF Inv, ConfirmedKeyIsRetired, OneKeyAtATime
<1> QED
  BY <1>3, <1>5, <1>6 DEF Inv

\* A screen that is mounted takes the stored key or makes a new one.
LEMMA GoToCheckoutInv ==
    ASSUME Inv, GoToCheckout
    PROVE  Inv'
<1>1. /\ UNCHANGED <<customer, cart, storage, waiting, sent, inFlight, shown,
                     impatient, book, counter, answer, contents>>
      /\ view = "menu" /\ view' = "checkout"
      /\ ref = None
  BY DEF GoToCheckout, server, Inv, TypeOK
<1>2. \/ stored # None /\ ref' = stored /\ stored' = stored /\ keysMade' = keysMade
      \/ /\ stored = None /\ keysMade' = keysMade + 1 /\ ref' = keysMade'
         /\ keysMade' \in Keys /\ stored' \in {keysMade', None} /\ (storage => stored' = keysMade')
  BY BoundsAssumption DEF GoToCheckout, Inv, TypeOK, Keys
<1>3. keysMade \in Nat /\ keysMade' \in 0 .. MaxKeys /\ ref' \in Keys /\ stored' \in Keys \cup {None}
  BY <1>2, BoundsAssumption DEF Inv, TypeOK, Keys
<1>4. None \notin Keys
  BY NoneAssumption
<1>5. TypeOK'
  BY <1>1, <1>3, <1>4 DEF Inv, TypeOK
<1>6. Confirmed' = Confirmed
  BY <1>1 DEF Confirmed
<1>7. \A k \in Confirmed : k \in Keys
  BY DEF Inv, TypeOK, Confirmed, Submissions
<1>8. KeysAreOurs'
  <2>1. keysMade' >= keysMade /\ (stored' # None => stored' <= keysMade') /\ ref' <= keysMade'
    BY <1>2, <1>3 DEF Inv, KeysAreOurs, Keys
  <2>2. ASSUME NEW n \in Keys, n <= keysMade PROVE n <= keysMade'
    BY <1>3, <2>1, <2>2, BoundsAssumption DEF Keys
  <2>3. \A a \in Attempts : sent[a] # None => sent[a].key \in Keys
    BY DEF Inv, TypeOK, Submissions
  <2> QED
    BY <1>1, <1>6, <1>7, <2>1, <2>2, <2>3 DEF Inv, KeysAreOurs
<1>9. ConfirmedKeyIsRetired'
  <2>1. keysMade + 1 \notin Confirmed
    BY <1>3 DEF Inv, KeysAreOurs
  <2>2. None \notin Confirmed
    BY <1>4, <1>7
  <2> QED
    BY <1>2, <1>6, <2>1, <2>2 DEF Inv, ConfirmedKeyIsRetired
<1>10. ASSUME storage', ~impatient' PROVE OneKeyAtATime'
  <2>1. OneKeyAtATime /\ ref' = stored' /\ waiting = None
    BY <1>1, <1>2, <1>10 DEF Inv, OneKeyAtATime
  <2>2. \A o \in book : o.key \in Keys
    BY DEF Inv, TypeOK, OrderRows
  <2>3. \A a \in Attempts : sent[a] # None => sent[a].key \in Keys
    BY DEF Inv, TypeOK, Submissions
  <2>4. stored' = stored \/ stored = None
    BY <1>2
  <2> QED
    BY <1>1, <1>4, <1>6, <2>1, <2>2, <2>3, <2>4 DEF OneKeyAtATime
<1> QED
  BY <1>5, <1>8, <1>9, <1>10 DEF Inv

\* Leaving the screen or the page: the requests go on without it, or the page
\* forgets them; the stored key stays.
LEMMA LeaveInv ==
    ASSUME Inv, Back \/ Reload
    PROVE  Inv'
<1>1. /\ UNCHANGED <<storage, stored, keysMade, sent, shown, book, counter, answer, contents>>
      /\ view' = "menu" /\ ref' = None /\ waiting' = None
      /\ inFlight' \subseteq inFlight
  BY DEF Back, Reload, server
<1>8. cart' \in Carts /\ customer' \in Customers \cup {None} /\ impatient' \in BOOLEAN
  <2>1. EmptyCart \in Carts
    BY BoundsAssumption DEF Carts, EmptyCart
  <2>2. CASE Back
    <3>1. impatient' \in BOOLEAN
      BY <2>2 DEF Back
    <3> QED
      BY <2>2, <3>1 DEF Back, Inv, TypeOK
  <2>3. CASE Reload
    BY <2>1, <2>3 DEF Reload, Inv, TypeOK
  <2> QED
    BY <2>2, <2>3
<1>2. ~impatient' => ~impatient /\ (inFlight' = {} \/ (waiting = None /\ inFlight' = inFlight))
  <2>1. CASE Back
    BY <2>1, Zenon DEF Back
  <2>2. CASE Reload
    BY <2>2 DEF Reload
  <2> QED
    BY <2>1, <2>2
<1>3. TypeOK'
  BY <1>1, <1>8 DEF Inv, TypeOK
<1>4. Confirmed' = Confirmed
  BY <1>1 DEF Confirmed
<1>5. KeysAreOurs'
  BY <1>1, <1>4 DEF Inv, KeysAreOurs
<1>6. ConfirmedKeyIsRetired'
  <2>1. None \notin Confirmed
    BY NoneAssumption DEF Inv, TypeOK, Confirmed, Submissions
  <2> QED
    BY <1>1, <1>4, <2>1 DEF Inv, ConfirmedKeyIsRetired
<1>7. ASSUME storage', ~impatient' PROVE OneKeyAtATime'
  <2>1. OneKeyAtATime
    BY <1>1, <1>2, <1>7 DEF Inv
  <2>2. inFlight' \subseteq {waiting'}
    BY <1>1, <1>2, <1>7, <2>1 DEF OneKeyAtATime
  <2> QED
    BY <1>1, <1>4, <2>1, <2>2 DEF OneKeyAtATime
<1> QED
  BY <1>3, <1>5, <1>6, <1>7 DEF Inv

LEMMA SubmitInv ==
    ASSUME Inv, NEW a \in Attempts, Submit(a)
    PROVE  Inv'
<1> DEFINE new == [key |-> ref, who |-> customer, items |-> cart]
<1>1. /\ UNCHANGED <<view, customer, cart, storage, stored, ref, keysMade, shown,
                     impatient, book, counter, answer, contents>>
      /\ view = "checkout" /\ waiting = None /\ waiting' = a
      /\ sent[a] = None /\ sent' = [sent EXCEPT ![a] = new]
      /\ inFlight' = inFlight \cup {a}
  BY DEF Submit, server
<1>2. ref \in Keys /\ ref # None /\ new \in Submissions /\ new # None
  BY <1>1, NoneAssumption DEF Inv, TypeOK, Submissions
<1>3. \A b \in Attempts : sent'[b] = IF b = a THEN new ELSE sent[b]
  BY <1>1 DEF Inv, TypeOK
<1>4. sent' \in [Attempts -> Submissions \cup {None}]
  BY <1>1, <1>2 DEF Inv, TypeOK
<1>5. inFlight' \subseteq {b \in Attempts : sent'[b] # None}
  BY <1>1, <1>2, <1>3 DEF Inv, TypeOK
<1>6. TypeOK'
  BY <1>1, <1>4, <1>5 DEF Inv, TypeOK
<1>7. Confirmed' = Confirmed
  BY <1>1 DEF Confirmed
<1>8. KeysAreOurs'
  BY <1>1, <1>2, <1>3, <1>7 DEF Inv, KeysAreOurs
<1>9. ConfirmedKeyIsRetired'
  BY <1>1, <1>7 DEF Inv, ConfirmedKeyIsRetired
<1>10. ASSUME storage', ~impatient' PROVE OneKeyAtATime'
  <2>1. OneKeyAtATime
    BY <1>1, <1>10 DEF Inv
  <2>2. a # None /\ inFlight' \subseteq {waiting'}
    BY <1>1, <2>1, NoneAssumption DEF OneKeyAtATime, Inv, TypeOK
  <2>3. sent'[waiting'].key = ref' /\ ref' = stored' /\ ref' # None
    BY <1>1, <1>2, <1>3, <2>1 DEF OneKeyAtATime
  <2> QED
    BY <1>1, <1>2, <1>3, <1>7, <2>1, <2>2, <2>3 DEF OneKeyAtATime
<1> QED
  BY <1>6, <1>8, <1>9, <1>10 DEF Inv

LEMMA ConfirmedGrows ==
    ASSUME NEW s, shown' = shown \cup {s}
    PROVE  Confirmed' = Confirmed \cup {s.ordered.key}
BY DEF Confirmed

\* The confirmation retires the key of its order together with the screen.
LEMMA SucceedInv ==
    ASSUME Inv, NEW a \in Attempts, Succeed(a)
    PROVE  Inv'
<1> DEFINE order == contents[sent[a].key]
<1>1. /\ UNCHANGED <<customer, storage, keysMade, sent, impatient, book, counter, answer, contents>>
      /\ a \in inFlight /\ inFlight' = inFlight \ {a}
      /\ shown' = shown \cup {[submitted |-> sent[a], ordered |-> order]}
      /\ stored' = None /\ view' = "confirmation" /\ cart' = EmptyCart
      /\ ref' = None /\ waiting' = None
  BY DEF Succeed, server
<1>2. PICK o \in book : o.key = sent[a].key
  BY DEF Succeed, Book!OrdersUnder, RequestOf
<1>3. sent[a] \in Submissions /\ sent[a].key \in Keys
  BY <1>1 DEF Inv, TypeOK, Submissions
<1>4. order \in Submissions /\ order.key = sent[a].key /\ order.key <= keysMade
  BY <1>2, <1>3 DEF Inv, TypeOK, KeysAreOurs
<1>5. TypeOK'
  <2>1. EmptyCart \in Carts
    BY BoundsAssumption DEF EmptyCart, Carts
  <2>2. shown' \subseteq [submitted : Submissions, ordered : Submissions]
    BY <1>1, <1>3, <1>4 DEF Inv, TypeOK
  <2> QED
    BY <1>1, <2>1, <2>2 DEF Inv, TypeOK
<1>6. Confirmed' = Confirmed \cup {sent[a].key}
  <2>1. [submitted |-> sent[a], ordered |-> order].ordered.key = sent[a].key
    BY <1>4
  <2> QED
    BY <1>1, <2>1, ConfirmedGrows
<1>7. KeysAreOurs'
  BY <1>1, <1>4, <1>6 DEF Inv, KeysAreOurs
<1>8. ConfirmedKeyIsRetired'
  <2>1. \A k \in Confirmed : k \in Keys
    BY DEF Inv, TypeOK, Confirmed, Submissions
  <2> QED
    BY <1>1, <1>3, <1>6, <2>1, NoneAssumption DEF ConfirmedKeyIsRetired
<1>9. ASSUME storage', ~impatient' PROVE OneKeyAtATime'
  <2>1. OneKeyAtATime
    BY <1>1, <1>9 DEF Inv
  <2>2. waiting = a /\ a # None
    BY <1>1, <2>1, NoneAssumption DEF OneKeyAtATime
  <2>3. sent[a].key = stored
    BY <2>1, <2>2 DEF OneKeyAtATime
  <2>4. inFlight' = {}
    BY <1>1, <2>1, <2>2 DEF OneKeyAtATime
  <2> QED
    BY <1>1, <1>6, <2>1, <2>3, <2>4 DEF OneKeyAtATime
<1> QED
  BY <1>5, <1>7, <1>8, <1>9 DEF Inv

LEMMA SubmitFailsInv ==
    ASSUME Inv, NEW a \in Attempts, SubmitFails(a)
    PROVE  Inv'
<1>1. /\ UNCHANGED <<view, customer, cart, storage, stored, ref, keysMade, sent, shown,
                     impatient, book, counter, answer, contents>>
      /\ inFlight' = inFlight \ {a}
      /\ waiting' = IF waiting = a THEN None ELSE waiting
  BY DEF SubmitFails, server
<1>2. TypeOK'
  BY <1>1 DEF Inv, TypeOK
<1>3. Confirmed' = Confirmed
  BY <1>1 DEF Confirmed
<1>4. KeysAreOurs' /\ ConfirmedKeyIsRetired'
  BY <1>1, <1>3 DEF Inv, KeysAreOurs, ConfirmedKeyIsRetired
<1>5. ASSUME storage', ~impatient' PROVE OneKeyAtATime'
  BY <1>1, <1>3, <1>5 DEF Inv, OneKeyAtATime
<1> QED
  BY <1>2, <1>4, <1>5 DEF Inv

\* The API places an order under a key that was sent.
LEMMA PlaceInv ==
    ASSUME Inv, NEW a \in Attempts, Place(a)
    PROVE  Inv'
<1> DEFINE r == RequestOf(a)
<1>1. /\ UNCHANGED <<view, customer, cart, storage, stored, ref, waiting, keysMade, sent,
                     inFlight, shown, impatient, answer>>
      /\ sent[a] # None
      /\ contents' = [contents EXCEPT ![sent[a].key] = sent[a]]
  BY DEF Place, tab, Book!Place
<1>2. sent[a] \in Submissions /\ sent[a].key \in Keys
  BY <1>1 DEF Inv, TypeOK, Submissions
<1>3. PICK o : /\ o = [tenant |-> Shop, key |-> sent[a].key, day |-> 1,
                       seq |-> counter'[Shop][1], created |-> 1]
               /\ book' = book \cup {o}
  BY DEF Place, Book!Place, RequestOf
<1>4. counter' \in [{Shop} -> [{1} -> Nat]]
  BY DEF Place, Book!Place, RequestOf, Inv, TypeOK
<1>5. o \in OrderRows /\ o.key = sent[a].key
  BY <1>2, <1>3, <1>4 DEF OrderRows
<1>6. answer' \in [Requests -> book' \cup {NoAnswer, Error}]
  BY <1>1, <1>3 DEF Inv, TypeOK
<1>7. contents' \in [Keys -> Submissions \cup {None}]
  BY <1>1, <1>2 DEF Inv, TypeOK
<1>8. TypeOK'
  BY <1>1, <1>3, <1>4, <1>5, <1>6, <1>7 DEF Inv, TypeOK
<1>9. Confirmed' = Confirmed
  BY <1>1 DEF Confirmed
<1>10. KeysAreOurs'
  <2>1. \A k \in Keys : contents'[k] = IF k = sent[a].key THEN sent[a] ELSE contents[k]
    BY <1>1, <1>2 DEF Inv, TypeOK
  <2>2. sent[a].key <= keysMade
    BY <1>1 DEF Inv, KeysAreOurs
  <2>3. \A p \in book : p.key \in Keys
    BY DEF Inv, TypeOK, OrderRows
  <2> QED
    BY <1>1, <1>2, <1>3, <1>5, <1>9, <2>1, <2>2, <2>3 DEF Inv, KeysAreOurs
<1>11. ConfirmedKeyIsRetired'
  BY <1>1, <1>9 DEF Inv, ConfirmedKeyIsRetired
<1>12. ASSUME storage', ~impatient' PROVE OneKeyAtATime'
  BY <1>1, <1>3, <1>5, <1>9, <1>12 DEF Inv, OneKeyAtATime
<1> QED
  BY <1>8, <1>10, <1>11, <1>12 DEF Inv

\* Answering and refusing change nothing but the answer.
LEMMA AnswerInv ==
    ASSUME Inv, NEW a \in Attempts, Answer(a) \/ Refuse(a)
    PROVE  Inv'
<1>1. /\ UNCHANGED <<view, customer, cart, storage, stored, ref, waiting, keysMade, sent,
                     inFlight, shown, impatient, book, counter, contents>>
      /\ answer' \in [Requests -> book \cup {NoAnswer, Error}]
  <2>1. CASE Answer(a)
    BY <2>1 DEF Answer, tab, Book!Answer, Book!OrdersUnder, Inv, TypeOK
  <2>2. CASE Refuse(a)
    BY <2>2 DEF Refuse, tab, Book!Refuse, Inv, TypeOK
  <2> QED
    BY <2>1, <2>2
<1>2. TypeOK'
  BY <1>1 DEF Inv, TypeOK
<1>3. Confirmed' = Confirmed
  BY <1>1 DEF Confirmed
<1>4. KeysAreOurs' /\ ConfirmedKeyIsRetired'
  BY <1>1, <1>3 DEF Inv, KeysAreOurs, ConfirmedKeyIsRetired
<1>5. ASSUME storage', ~impatient' PROVE OneKeyAtATime'
  BY <1>1, <1>3, <1>5 DEF Inv, OneKeyAtATime
<1> QED
  BY <1>2, <1>4, <1>5 DEF Inv

THEOREM InvHolds == Spec => []Inv
<1>1. ASSUME Inv, [Next]_vars PROVE Inv'
  <2>1. CASE UNCHANGED vars
    <3>1. UNCHANGED <<view, customer, cart, storage, stored, ref, waiting, keysMade, sent,
                      inFlight, shown, impatient, book, counter, answer, contents>>
      BY <2>1 DEF vars, tab, server
    <3>2. TypeOK'
      BY <1>1, <3>1 DEF Inv, TypeOK
    <3>3. Confirmed' = Confirmed
      BY <3>1 DEF Confirmed
    <3>4. KeysAreOurs' /\ ConfirmedKeyIsRetired'
      BY <1>1, <3>1, <3>3 DEF Inv, KeysAreOurs, ConfirmedKeyIsRetired
    <3>5. storage' /\ ~impatient' => OneKeyAtATime'
      BY <1>1, <3>1, <3>3 DEF Inv, OneKeyAtATime
    <3> QED
      BY <3>2, <3>4, <3>5 DEF Inv
  <2>2. CASE Next
    BY <1>1, <2>2, AwayInv, GoToCheckoutInv, LeaveInv, SubmitInv, SucceedInv,
       SubmitFailsInv, PlaceInv, AnswerInv DEF Next
  <2> QED
    BY <1>1, <2>1, <2>2
<1> QED
  BY <1>1, InitInv, PTL DEF Spec

\* The types of the tab and of the order book it talks to.
THEOREM TypeCorrect == Spec => []TypeOK
BY InvHolds, PTL DEF Inv

\* No key whose order was confirmed is sent again by Checkout.tsx.
THEOREM ConfirmedKeysAreRetired == Spec => []ConfirmedKeyIsRetired
BY InvHolds, PTL DEF Inv

\* A customer who waits for the answers knows of every order, or the stored key
\* still leads to it.
THEOREM PatienceIsRewarded == Spec => []PatientCustomerLosesNoOrder
<1>1. Inv => PatientCustomerLosesNoOrder
  BY DEF Inv, OneKeyAtATime, PatientCustomerLosesNoOrder
<1> QED
  BY <1>1, InvHolds, PTL

-----------------------------------------------------------------------------
\* A request of the tab is one the order book knows.
LEMMA RequestsAreKnown == ASSUME TypeOK, NEW a \in Attempts, sent[a] # None PROVE RequestOf(a) \in Requests
<1>1. sent[a] \in Submissions
  BY DEF TypeOK
<1> QED
  BY <1>1 DEF Submissions, Requests, RequestOf

\* Whatever the customer, the page and the network do, the API under the tab moves as the
\* order book does: a tab adds orders to it by placing them, and in no other way.  The book
\* is what Orders implements (OrdersProofs!Refinement), and a checkout relies on nothing
\* else of create() and insertOrder().
THEOREM TabUsesTheBook == Spec => Book!Spec
<1>1. Init => Book!Init
  BY DEF Init
<1>2. TypeOK /\ [Next]_vars => [Book!Next]_Book!vars
  <2> SUFFICES ASSUME TypeOK, [Next]_vars PROVE [Book!Next]_Book!vars
    OBVIOUS
  <2>1. CASE UNCHANGED server
    BY <2>1 DEF server, Book!vars
  <2>2. ASSUME NEW a \in Attempts, Place(a) \/ Answer(a) \/ Refuse(a) PROVE Book!Next
    <3>1. RequestOf(a) \in Requests
      BY <2>2, RequestsAreKnown DEF Place, Answer, Refuse
    <3>2. Book!Place(RequestOf(a), 1, 1) \/ Book!Answer(RequestOf(a)) \/ Book!Refuse(RequestOf(a))
      BY <2>2 DEF Place, Answer, Refuse
    <3> QED
      BY <3>1, <3>2 DEF Book!Next
  <2>3. CASE Next
    <3>1. ASSUME NEW i \in Items, NEW q \in 0 .. MaxQuantity, SetQuantity(i, q) PROVE UNCHANGED server
      BY <3>1 DEF SetQuantity
    <3>2. ASSUME NEW c \in Customers, Login(c) PROVE UNCHANGED server
      BY <3>2 DEF Login
    <3>3. CASE Logout \/ GoToCheckout \/ Back \/ BackToMenu \/ Reload
      BY <3>3, <2>1 DEF Logout, GoToCheckout, Back, BackToMenu, Reload
    <3>4. ASSUME NEW a \in Attempts, Submit(a) \/ Succeed(a) \/ SubmitFails(a) PROVE UNCHANGED server
      BY <3>4 DEF Submit, Succeed, SubmitFails
    <3> QED
      BY <2>1, <2>2, <2>3, <3>1, <3>2, <3>3, <3>4 DEF Next
  <2> QED
    BY <2>1, <2>3 DEF vars, server
<1> QED
  BY <1>1, <1>2, TypeCorrect, PTL DEF Spec, Book!Spec

=============================================================================
