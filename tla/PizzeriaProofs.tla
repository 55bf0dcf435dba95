---------------------------- MODULE PizzeriaProofs ----------------------------
(***************************************************************************)
(* Proofs about what a pizzeria manages besides its menu (Stock, Team,     *)
(* Finance, Store, AuditRetention) and about the links that confirm        *)
(* e-mails (EmailVerification), for any items, members, periods, events,   *)
(* links and calls.                                                        *)
(***************************************************************************)
EXTENDS Pizzeria, FiniteSetTheorems, SequenceTheorems, TLAPS

-----------------------------------------------------------------------------
(* The stock. *)

\* While a new item is on its way nothing shows it, and no other call is about it.
AddIsAlone ==
    \A k \in StockCalls : stockCalls[k].at = "sent" /\ stockCalls[k].kind = "add" =>
        LET i == stockCalls[k].item IN
        /\ quantity[i] = Gone /\ onScreen[i] = Gone
        /\ listing.at = "read" => listing.rows[i] = Gone
        /\ tally[i] # Gone
        /\ \A q \in StockCalls \ {k} : stockCalls[q] # StockIdle => stockCalls[q].item # i

\* An item nobody crossed: of the calls it waits for one at most is not the last word,
\* and what the clicks make of it is what that one writes, or what is stored.
Moves(i) ==
    IF tally[i] = Gone
    THEN quantity[i] = Gone \/ \E k \in Waiting(i) : stockCalls[k].kind = "remove"
    ELSE /\ \A k, q \in Waiting(i) : k = q
         /\ \A k \in Waiting(i) : stockCalls[k].quantity = tally[i]
         /\ Waiting(i) = {} => quantity[i] = tally[i]

TallyIsComing == \A i \in Items \ crossed : Moves(i)

\* A call of which the screen is still to hear wrote what is stored.
LastIsStored ==
    \A k \in lastCalls :
        /\ stockCalls[k].at = "applied" /\ stockCalls[k].live
        /\ quantity[stockCalls[k].item] = stockCalls[k].quantity

\* What the GET read is stored, but for what was written since.
ReadIsStored == listing.at = "read" => \A i \in Items \ outrun : listing.rows[i] = quantity[i]

ShownIsStored == \A i \in Items : ScreenKnows(i) => onScreen[i] = quantity[i] /\ i \notin repeated

StockTold == LastIsStored /\ ReadIsStored /\ ShownIsStored

StockInv == StockTypeOK /\ AddIsAlone /\ TallyIsComing /\ StockTold

-----------------------------------------------------------------------------
LEMMA StockShape ==
    ASSUME StockTypeOK, NEW k \in StockCalls
    PROVE  /\ stockCalls[k] = StockIdle <=> stockCalls[k].at = "idle"
           /\ stockCalls[k] # StockIdle =>
                /\ stockCalls[k] \in StockSent
                /\ stockCalls[k].item \in Items
                /\ stockCalls[k].quantity \in Quantities \cup {Gone}
                /\ stockCalls[k].kind = "remove" <=> stockCalls[k].quantity = Gone
                /\ stockCalls[k].kind \in {"adjust", "add", "remove"}
                /\ stockCalls[k].live \in BOOLEAN
                /\ stockCalls[k].at \in {"sent", "applied"}
<1> Gone \notin Quantities
  BY GoneAssumption DEF Quantities
<1> QED BY DEF StockTypeOK, StockSent, StockIdle

\* A call that moves on, or that is left by its screen, is still a call.
LEMMA StockMoves ==
    ASSUME NEW call \in StockSent
    PROVE  [call EXCEPT !.at = "applied"] \in StockSent /\ [call EXCEPT !.live = FALSE] \in StockSent
  BY DEF StockSent

\* What a click leaves is a quantity.
LEMMA PlusTypes ==
    ASSUME NEW n \in Quantities, NEW delta \in {-1, 1}, n + delta <= MaxQuantity
    PROVE  Plus(n, delta) \in Quantities
  BY MaxQuantityAssumption DEF Plus, Quantities

LEMMA StockTypesStep == ASSUME StockTypeOK, StockNext PROVE StockTypeOK'
<1> USE DEF stockCounts, stockShown
<1> Gone \notin Quantities
  BY GoneAssumption DEF Quantities
<1>1. CASE OpenStock
  <2>1. stockCalls' \in [StockCalls -> StockSent \cup {StockIdle}]
    BY <1>1, StockShape, StockMoves DEF OpenStock
  <2> QED BY <1>1, <2>1 DEF OpenStock, StockTypeOK, Shelves
<1>2. CASE ReadStock
  BY <1>2 DEF ReadStock, StockTypeOK, Shelves
<1>3. CASE StockListed
  BY <1>3 DEF StockListed, StockTypeOK
<1>4. ASSUME NEW i \in Items, NEW n \in Quantities, OtherAdjusts(i, n) PROVE StockTypeOK'
  BY <1>4 DEF OtherAdjusts, Overwrites, StockTypeOK, Shelves
<1>5. ASSUME NEW k \in StockCalls, StockServed(k) PROVE StockTypeOK'
  <2>1. stockCalls[k] # StockIdle
    BY <1>5 DEF StockServed, StockIdle
  <2>2. stockCalls' = [stockCalls EXCEPT ![k] = [stockCalls[k] EXCEPT !.at = "applied"]]
    BY <1>5 DEF StockServed
  <2>3. quantity' \in Shelves
    BY <1>5, <2>1, StockShape DEF StockServed, StockTypeOK, Shelves
  <2>4. stockCalls' \in [StockCalls -> StockSent \cup {StockIdle}]
    BY <2>1, <2>2, StockShape, StockMoves DEF StockTypeOK
  <2>5. lastCalls' \subseteq StockCalls /\ outrun' \subseteq Items /\ unshown' \subseteq Items
    BY <1>5, <2>1, StockShape DEF StockServed, Overwrites, StockTypeOK
  <2> QED BY <1>5, <2>3, <2>4, <2>5 DEF StockServed, StockTypeOK
<1>6. ASSUME NEW k \in StockCalls, StockAnswered(k) PROVE StockTypeOK'
  <2>1. stockCalls[k] # StockIdle
    BY <1>6 DEF StockAnswered, StockIdle
  <2>2. repeated' \subseteq Items /\ unshown' \subseteq Items
    BY <1>6, <2>1, StockShape DEF StockAnswered, StockTypeOK
  <2>3. onScreen' \in Shelves
    BY <1>6, <2>1, StockShape DEF StockAnswered, StockTypeOK, Shelves
  <2> QED BY <1>6, <2>2, <2>3 DEF StockAnswered, StockTypeOK
<1>7. ASSUME NEW k \in StockCalls, StockFails(k) PROVE StockTypeOK'
  BY <1>7, StockShape DEF StockFails, StockTypeOK
<1>8. ASSUME NEW k \in StockCalls, NEW i \in Items, RemoveItem(k, i) PROVE StockTypeOK'
  <2>1. [at |-> "sent", kind |-> "remove", item |-> i, quantity |-> Gone, live |-> TRUE] \in StockSent
    BY DEF StockSent
  <2> QED BY <1>8, <2>1 DEF RemoveItem, Send, StockTypeOK, Shelves
<1>9. ASSUME NEW k \in StockCalls, NEW i \in Items, NEW delta \in {-1, 1}, Adjust(k, i, delta) PROVE StockTypeOK'
  <2>1. onScreen[i] \in Quantities /\ Plus(onScreen[i], delta) \in Quantities
    BY <1>9, PlusTypes DEF Adjust, StockTypeOK, Shelves
  <2>2. [at |-> "sent", kind |-> "adjust", item |-> i, quantity |-> Plus(onScreen[i], delta), live |-> TRUE]
            \in StockSent
    BY <2>1 DEF StockSent
  <2>3. UNCHANGED tally \/ tally' = [tally EXCEPT ![i] = Plus(onScreen[i], delta)]
    BY <1>9 DEF Adjust, Count, StockTypeOK, Shelves
  <2>4. crossed' \subseteq Items
    BY <1>9 DEF Adjust, Count, StockTypeOK
  <2>5. /\ UNCHANGED <<quantity, listing, onScreen, repeated, stockShown>>
        /\ stockCalls' = [stockCalls EXCEPT ![k] =
                [at |-> "sent", kind |-> "adjust", item |-> i, quantity |-> Plus(onScreen[i], delta), live |-> TRUE]]
    BY <1>9 DEF Adjust, Send
  <2>6. tally' \in Shelves
    BY <2>1, <2>3 DEF StockTypeOK, Shelves
  <2> HIDE DEF Plus
  <2> QED BY <2>2, <2>4, <2>5, <2>6 DEF StockTypeOK
<1>10. ASSUME NEW k \in StockCalls, NEW i \in Items, NEW n \in Quantities, AddItem(k, i, n) PROVE StockTypeOK'
  <2>1. [at |-> "sent", kind |-> "add", item |-> i, quantity |-> n, live |-> TRUE] \in StockSent
    BY DEF StockSent
  <2> QED BY <1>10, <2>1 DEF AddItem, Send, StockTypeOK, Shelves
<1> QED BY <1>1, <1>2, <1>3, <1>4, <1>5, <1>6, <1>7, <1>8, <1>9, <1>10 DEF StockNext

-----------------------------------------------------------------------------
\* Whom an item waits for once the slot k holds another call.
LEMMA WaitsForOne ==
    ASSUME StockTypeOK, NEW k \in StockCalls, NEW call, stockCalls' = [stockCalls EXCEPT ![k] = call],
           NEW i \in Items
    PROVE  /\ stockCalls'[k] = call
           /\ \A q \in StockCalls \ {k} : stockCalls'[q] = stockCalls[q]
           /\ Waiting(i)' = IF call.at = "sent" /\ call.item = i THEN Waiting(i) \cup {k} ELSE Waiting(i) \ {k}
<1>1. /\ stockCalls'[k] = call
      /\ \A q \in StockCalls \ {k} : stockCalls'[q] = stockCalls[q]
  BY DEF StockTypeOK
<1>2. \A q \in StockCalls : q \in Waiting(i)' <=> IF q = k THEN call.at = "sent" /\ call.item = i ELSE q \in Waiting(i)
  BY <1>1 DEF Waiting
<1>3. Waiting(i)' \subseteq StockCalls /\ Waiting(i) \subseteq StockCalls
  BY DEF Waiting
<1> QED BY <1>1, <1>2, <1>3

\* An item of which a step says nothing.
LEMMA ItemUntouched ==
    ASSUME NEW i \in Items, Moves(i), quantity'[i] = quantity[i], tally'[i] = tally[i],
           Waiting(i)' = Waiting(i),
           \A k \in Waiting(i) : /\ stockCalls'[k].kind = stockCalls[k].kind
                                 /\ stockCalls'[k].quantity = stockCalls[k].quantity
    PROVE  Moves(i)'
  BY DEF Moves

LEMMA AloneStep == ASSUME StockInv, StockTypeOK', StockNext PROVE AddIsAlone'
<1> SUFFICES ASSUME NEW k \in StockCalls, stockCalls'[k].at = "sent", stockCalls'[k].kind = "add",
                    NEW i, i = stockCalls'[k].item
             PROVE  /\ quantity'[i] = Gone /\ onScreen'[i] = Gone
                    /\ listing'.at = "read" => listing'.rows[i] = Gone
                    /\ tally'[i] # Gone
                    /\ \A q \in StockCalls \ {k} : stockCalls'[q] # StockIdle => stockCalls'[q].item # i
  BY DEF AddIsAlone
<1> USE DEF stockCounts, stockShown
<1> USE DEF StockInv
<1>1. i \in Items
  BY StockShape DEF StockTypeOK, StockSent, StockIdle
<1>2. ASSUME stockCalls[k].at = "sent", stockCalls[k].kind = "add", stockCalls[k].item = i
      PROVE  /\ quantity[i] = Gone /\ onScreen[i] = Gone
             /\ listing.at = "read" => listing.rows[i] = Gone
             /\ tally[i] # Gone
             /\ \A q \in StockCalls \ {k} : stockCalls[q] # StockIdle => stockCalls[q].item # i
             /\ Unserved(i)
  BY <1>2 DEF AddIsAlone, Unserved, Waiting
<1>3. CASE OpenStock
  <2>1. \A q \in StockCalls : IF stockCalls[q] = StockIdle THEN stockCalls'[q] = StockIdle
                              ELSE stockCalls'[q] = [stockCalls[q] EXCEPT !.live = FALSE]
    BY <1>3 DEF OpenStock
  <2>2. \A q \in StockCalls : /\ stockCalls'[q] # StockIdle => stockCalls[q] # StockIdle
                              /\ stockCalls[q] # StockIdle => /\ stockCalls'[q].at = stockCalls[q].at
                                                             /\ stockCalls'[q].kind = stockCalls[q].kind
                                                             /\ stockCalls'[q].item = stockCalls[q].item
    BY <2>1, StockShape DEF StockSent
  <2>3. stockCalls[k] # StockIdle
    BY <2>1 DEF StockIdle
  <2> QED BY <1>3, <1>1, <1>2, <2>2, <2>3 DEF OpenStock
<1>4. CASE ReadStock
  BY <1>4, <1>1, <1>2 DEF ReadStock, StockTypeOK, Shelves
<1>5. CASE StockListed
  BY <1>5, <1>2 DEF StockListed
<1>6. ASSUME NEW j \in Items, NEW n \in Quantities, OtherAdjusts(j, n)
      PROVE  /\ j # i /\ quantity'[i] = quantity[i] /\ tally'[i] = tally[i]
             /\ UNCHANGED <<listing, onScreen, stockCalls>>
  BY <1>6, <1>2 DEF OtherAdjusts, StockTypeOK, Shelves
<1>7. ASSUME NEW q \in StockCalls, StockServed(q)
      PROVE  /\ q # k /\ quantity'[i] = quantity[i] /\ UNCHANGED <<listing, onScreen, tally>>
             /\ stockCalls'[k] = stockCalls[k]
             /\ \A r \in StockCalls : stockCalls'[r] # StockIdle =>
                    stockCalls[r] # StockIdle /\ stockCalls'[r].item = stockCalls[r].item
  <2>1. stockCalls[q] # StockIdle /\ stockCalls'[q] = [stockCalls[q] EXCEPT !.at = "applied"]
    BY <1>7 DEF StockServed, StockIdle, StockTypeOK
  <2>2. stockCalls'[q].at = "applied" /\ stockCalls'[q].item = stockCalls[q].item
    BY <2>1, StockShape DEF StockSent
  <2>3. \A r \in StockCalls \ {q} : stockCalls'[r] = stockCalls[r]
    BY <1>7 DEF StockServed, StockTypeOK
  <2>4. q # k /\ stockCalls[q].item # i
    BY <2>1, <2>2, <2>3, <1>2
  <2> QED BY <1>7, <1>1, <2>1, <2>2, <2>3, <2>4 DEF StockServed, StockTypeOK, Shelves
<1>8. ASSUME NEW q \in StockCalls, StockAnswered(q) \/ StockFails(q)
      PROVE  /\ onScreen'[i] = onScreen[i] /\ UNCHANGED <<listing, quantity, tally>>
             /\ stockCalls'[k] = stockCalls[k]
             /\ \A r \in StockCalls : stockCalls'[r] # StockIdle => stockCalls'[r] = stockCalls[r]
  <2>1. /\ stockCalls[q] # StockIdle /\ stockCalls'[q] = StockIdle
        /\ \A r \in StockCalls \ {q} : stockCalls'[r] = stockCalls[r]
    BY <1>8 DEF StockAnswered, StockFails, StockIdle, StockTypeOK
  <2>2. q # k /\ stockCalls[q].item # i
    BY <2>1, <1>2 DEF StockIdle
  <2> QED BY <1>8, <1>1, <2>1, <2>2 DEF StockAnswered, StockFails, StockTypeOK, Shelves
<1>9. ASSUME NEW q \in StockCalls, NEW j \in Items, onScreen[j] # Gone, NEW kind, kind # "add", NEW n,
             Send(q, kind, j, n), \A r \in Items \ {j} : tally'[r] = tally[r]
      PROVE  /\ q # k /\ j # i /\ stockCalls'[k] = stockCalls[k] /\ tally'[i] = tally[i]
             /\ \A r \in StockCalls : stockCalls'[r] # StockIdle =>
                    stockCalls'[r] = stockCalls[r] \/ stockCalls'[r].item = j
             /\ UNCHANGED <<quantity, listing, onScreen>>
  BY <1>9, <1>1, <1>2 DEF Send, StockTypeOK
<1>10. ASSUME NEW q \in StockCalls, NEW j \in Items, RemoveItem(q, j)
      PROVE  \A r \in Items \ {j} : tally'[r] = tally[r]
  BY <1>10 DEF RemoveItem, StockTypeOK, Shelves
<1>11. ASSUME NEW q \in StockCalls, NEW j \in Items, NEW delta \in {-1, 1}, Adjust(q, j, delta)
      PROVE  \A r \in Items \ {j} : tally'[r] = tally[r]
  BY <1>11 DEF Adjust, Count, StockTypeOK, Shelves
<1>12. ASSUME NEW q \in StockCalls, NEW j \in Items, NEW n \in Quantities, AddItem(q, j, n)
       PROVE  /\ quantity'[i] = Gone /\ onScreen'[i] = Gone
              /\ listing'.at = "read" => listing'.rows[i] = Gone
              /\ tally'[i] # Gone
              /\ \A r \in StockCalls \ {k} : stockCalls'[r] # StockIdle => stockCalls'[r].item # i
  <2>1. /\ stockCalls[q] = StockIdle
        /\ stockCalls'[q].item = j
        /\ \A r \in StockCalls \ {q} : stockCalls'[r] = stockCalls[r]
        /\ UNCHANGED <<quantity, listing, onScreen>>
        /\ quantity[j] = Gone /\ onScreen[j] = Gone
        /\ listing.at = "read" => listing.rows[j] = Gone
        /\ tally' = [tally EXCEPT ![j] = n]
        /\ \A r \in StockCalls : stockCalls[r] # StockIdle => stockCalls[r].item # j
    BY <1>12 DEF AddItem, Send, Settled, StockTypeOK
  <2>2. n # Gone
    BY GoneAssumption DEF Quantities
  <2>3. CASE k = q
    BY <2>1, <2>2, <2>3, <1>1 DEF StockTypeOK, Shelves
  <2>4. CASE k # q
    <3>1. stockCalls'[k] = stockCalls[k] /\ stockCalls[k] # StockIdle /\ j # i
      BY <2>1, <2>4 DEF StockIdle
    <3> QED BY <2>1, <3>1, <1>1, <1>2 DEF StockTypeOK, Shelves
  <2> QED BY <2>3, <2>4
<1>13. ASSUME NEW q \in StockCalls, NEW j \in Items,
              RemoveItem(q, j) \/ \E delta \in {-1, 1} : Adjust(q, j, delta)
       PROVE  /\ onScreen[j] # Gone /\ \A r \in Items \ {j} : tally'[r] = tally[r]
              /\ \E kind, n : kind # "add" /\ Send(q, kind, j, n)
  BY <1>13, <1>10, <1>11 DEF RemoveItem, Adjust
<1>14. CASE \E q \in StockCalls, j \in Items :
                RemoveItem(q, j) \/ \E delta \in {-1, 1} : Adjust(q, j, delta)
  <2>1. PICK q \in StockCalls, j \in Items : RemoveItem(q, j) \/ \E delta \in {-1, 1} : Adjust(q, j, delta)
    BY <1>14
  <2>2. PICK kind, n : kind # "add" /\ Send(q, kind, j, n)
    BY <2>1, <1>13
  <2>3. /\ j # i /\ stockCalls'[k] = stockCalls[k] /\ tally'[i] = tally[i]
        /\ \A r \in StockCalls : stockCalls'[r] # StockIdle =>
                stockCalls'[r] = stockCalls[r] \/ stockCalls'[r].item = j
        /\ UNCHANGED <<quantity, listing, onScreen>>
    BY <2>1, <2>2, <1>9, <1>13
  <2> QED BY <2>3, <1>2
<1>15. CASE \E q \in StockCalls : StockServed(q)
  BY <1>15, <1>7, <1>2
<1>16. CASE \E q \in StockCalls : StockAnswered(q) \/ StockFails(q)
  BY <1>16, <1>8, <1>2
<1>17. CASE \E j \in Items, n \in Quantities : OtherAdjusts(j, n)
  BY <1>17, <1>6, <1>2
<1> QED BY <1>3, <1>4, <1>5, <1>12, <1>14, <1>15, <1>16, <1>17 DEF StockNext

-----------------------------------------------------------------------------
LEMMA ComingStep == ASSUME StockInv, StockTypeOK', StockNext PROVE TallyIsComing'
<1> SUFFICES ASSUME NEW i \in Items, i \notin crossed' PROVE Moves(i)'
  BY DEF TallyIsComing
<1> USE DEF stockCounts, stockShown
<1> USE DEF StockInv
<1>1. i \notin crossed => Moves(i)
  BY DEF TallyIsComing
<1>2. Gone \notin Quantities
  BY GoneAssumption DEF Quantities
<1>3. Waiting(i) \subseteq StockCalls
  BY DEF Waiting
<1>4. CASE OpenStock
  <2>1. \A q \in StockCalls : IF stockCalls[q] = StockIdle THEN stockCalls'[q] = StockIdle
                              ELSE stockCalls'[q] = [stockCalls[q] EXCEPT !.live = FALSE]
    BY <1>4 DEF OpenStock
  <2>2. \A q \in StockCalls : /\ stockCalls'[q].at = stockCalls[q].at
                              /\ stockCalls[q] # StockIdle => /\ stockCalls'[q].kind = stockCalls[q].kind
                                                             /\ stockCalls'[q].item = stockCalls[q].item
                                                             /\ stockCalls'[q].quantity = stockCalls[q].quantity
    BY <2>1, StockShape DEF StockSent
  <2>3. \A q \in StockCalls : stockCalls[q].at = "sent" => stockCalls[q] # StockIdle
    BY DEF StockIdle
  <2>4. Waiting(i)' = Waiting(i)
    BY <2>2, <2>3 DEF Waiting
  <2>5. \A q \in Waiting(i) : /\ stockCalls'[q].kind = stockCalls[q].kind
                              /\ stockCalls'[q].quantity = stockCalls[q].quantity
    BY <2>2, <2>3 DEF Waiting
  <2> QED BY <1>4, <1>1, <2>4, <2>5, ItemUntouched DEF OpenStock
<1>5. CASE ReadStock
  <2>1. /\ UNCHANGED <<quantity, stockCalls>> /\ Waiting(i)' = Waiting(i)
        /\ tally'[i] = IF Unserved(i) THEN tally[i] ELSE quantity[i]
        /\ Unserved(i) => i \notin crossed
    BY <1>5 DEF ReadStock, Waiting
  <2>2. CASE Unserved(i)
    BY <2>1, <2>2, <1>1, ItemUntouched
  <2>3. CASE ~Unserved(i)
    BY <2>1, <2>3 DEF Moves, Unserved
  <2> QED BY <2>2, <2>3
<1>6. CASE StockListed
  BY <1>6, <1>1, ItemUntouched DEF StockListed, Waiting
<1>7. ASSUME NEW j \in Items, NEW n \in Quantities, OtherAdjusts(j, n) PROVE Moves(i)'
  <2>1. UNCHANGED stockCalls /\ Waiting(i)' = Waiting(i) /\ i \notin crossed
    BY <1>7 DEF OtherAdjusts, Waiting
  <2>2. CASE i = j
    <3>1. ~Unserved(i) /\ quantity'[i] = n /\ tally'[i] = n
      BY <1>7, <2>2 DEF OtherAdjusts, StockTypeOK, Shelves
    <3> QED BY <3>1, <2>1 DEF Moves, Unserved
  <2>3. CASE i # j
    BY <1>7, <2>1, <2>3, <1>1, ItemUntouched DEF OtherAdjusts, StockTypeOK, Shelves
  <2> QED BY <2>2, <2>3
<1>8. ASSUME NEW k \in StockCalls, StockServed(k) PROVE Moves(i)'
  <2> DEFINE call == stockCalls[k]
  <2>1. /\ call # StockIdle /\ call.at = "sent" /\ i \notin crossed /\ tally' = tally
        /\ quantity' = [quantity EXCEPT ![call.item] = call.quantity]
        /\ call.kind # "add" => quantity[call.item] # Gone
        /\ stockCalls' = [stockCalls EXCEPT ![k] = [call EXCEPT !.at = "applied"]]
    BY <1>8, StockShape DEF StockServed, StockIdle
  <2>2. [call EXCEPT !.at = "applied"].at = "applied"
    BY <2>1, StockShape DEF StockSent
  <2>3. /\ Waiting(i)' = Waiting(i) \ {k}
        /\ \A q \in StockCalls \ {k} : stockCalls'[q] = stockCalls[q]
    BY <2>1, <2>2, WaitsForOne
  <2>4. CASE call.item # i
    <3>1. k \notin Waiting(i) /\ quantity'[i] = quantity[i]
      BY <2>1, <2>4 DEF Waiting, StockTypeOK, Shelves
    <3> QED BY <3>1, <2>1, <2>3, <1>1, <1>3, ItemUntouched
  <2>5. CASE call.item = i
    <3>1. k \in Waiting(i) /\ quantity'[i] = call.quantity
      BY <2>1, <2>5 DEF Waiting, StockTypeOK, Shelves
    <3>2. CASE tally[i] # Gone
      <4>1. call.quantity = tally[i] /\ Waiting(i) = {k}
        BY <3>1, <3>2, <2>1, <1>1 DEF Moves
      <4> QED BY <4>1, <3>1, <3>2, <2>1, <2>3 DEF Moves
    <3>3. CASE tally[i] = Gone
      <4>1. quantity[i] # Gone
        BY <2>1, <2>5, <3>3 DEF AddIsAlone
      <4>2. PICK q \in Waiting(i) : stockCalls[q].kind = "remove"
        BY <4>1, <3>3, <2>1, <1>1 DEF Moves
      <4>3. CASE q = k
        BY <4>2, <4>3, <3>1, <3>3, <2>1, StockShape DEF Moves
      <4>4. CASE q # k
        BY <4>2, <4>4, <3>3, <2>1, <2>3, <1>3 DEF Moves
      <4> QED BY <4>3, <4>4
    <3> QED BY <3>2, <3>3
  <2> QED BY <2>4, <2>5
<1>9. ASSUME NEW k \in StockCalls, StockAnswered(k) PROVE Moves(i)'
  <2>1. /\ stockCalls' = [stockCalls EXCEPT ![k] = StockIdle] /\ stockCalls[k].at = "applied"
        /\ UNCHANGED <<quantity, tally, crossed>>
    BY <1>9 DEF StockAnswered
  <2>2. k \notin Waiting(i)
    BY <2>1 DEF Waiting
  <2>3. /\ Waiting(i)' = Waiting(i)
        /\ \A q \in StockCalls \ {k} : stockCalls'[q] = stockCalls[q]
    <3>1. StockIdle.at # "sent"
      BY DEF StockIdle
    <3>2. /\ Waiting(i)' = Waiting(i) \ {k}
          /\ \A q \in StockCalls \ {k} : stockCalls'[q] = stockCalls[q]
      BY <2>1, <3>1, WaitsForOne
    <3> QED BY <2>2, <3>2
  <2> QED BY <2>1, <2>2, <2>3, <1>1, <1>3, ItemUntouched
<1>10. ASSUME NEW k \in StockCalls, StockFails(k) PROVE Moves(i)'
  <2>1. /\ stockCalls' = [stockCalls EXCEPT ![k] = StockIdle]
        /\ UNCHANGED <<quantity, tally>> /\ i \notin crossed
        /\ stockCalls[k].at = "sent" => stockCalls[k].item # i
    BY <1>10 DEF StockFails
  <2>2. k \notin Waiting(i)
    BY <2>1 DEF Waiting
  <2>3. /\ Waiting(i)' = Waiting(i)
        /\ \A q \in StockCalls \ {k} : stockCalls'[q] = stockCalls[q]
    <3>1. StockIdle.at # "sent"
      BY DEF StockIdle
    <3>2. /\ Waiting(i)' = Waiting(i) \ {k}
          /\ \A q \in StockCalls \ {k} : stockCalls'[q] = stockCalls[q]
      BY <2>1, <3>1, WaitsForOne
    <3> QED BY <2>2, <3>2
  <2> QED BY <2>1, <2>2, <2>3, <1>1, <1>3, ItemUntouched
<1>11. ASSUME NEW k \in StockCalls, NEW j \in Items, NEW kind, NEW n, Send(k, kind, j, n)
      PROVE  /\ quantity' = quantity /\ stockCalls'[k].kind = kind /\ stockCalls'[k].quantity = n
             /\ \A q \in StockCalls \ {k} : stockCalls'[q] = stockCalls[q]
             /\ k \notin Waiting(i)
             /\ Waiting(i)' = IF i = j THEN Waiting(i) \cup {k} ELSE Waiting(i)
  <2>1. k \notin Waiting(i)
    BY <1>11 DEF Send, Waiting, StockIdle
  <2>2. PICK call : call = [at |-> "sent", kind |-> kind, item |-> j, quantity |-> n, live |-> TRUE]
    OBVIOUS
  <2>3. /\ call.at = "sent" /\ call.kind = kind /\ call.item = j /\ call.quantity = n
        /\ stockCalls' = [stockCalls EXCEPT ![k] = call] /\ quantity' = quantity
    BY <1>11, <2>2 DEF Send
  <2>4. stockCalls'[k] = call /\ \A q \in StockCalls \ {k} : stockCalls'[q] = stockCalls[q]
    BY <2>3 DEF StockTypeOK
  <2>5. \A q \in StockCalls : q \in Waiting(i)' <=> q \in Waiting(i) \/ (q = k /\ i = j)
    BY <2>1, <2>3, <2>4 DEF Waiting
  <2>6. Waiting(i)' \subseteq StockCalls
    BY DEF Waiting
  <2> QED BY <2>1, <2>3, <2>4, <2>5, <2>6, <1>3
<1>12. ASSUME NEW k \in StockCalls, NEW j \in Items, NEW kind, NEW n, Send(k, kind, j, n),
             i # j, tally'[i] = tally[i], i \notin crossed
      PROVE  Moves(i)'
  BY <1>11, <1>12, <1>1, <1>3, ItemUntouched
<1>13. ASSUME NEW k \in StockCalls, NEW j \in Items, RemoveItem(k, j) PROVE Moves(i)'
  <2>1. Send(k, "remove", j, Gone) /\ i \notin crossed
    BY <1>13 DEF RemoveItem
  <2>2. CASE i = j
    <3>1. tally'[i] = Gone
      BY <1>13, <2>2 DEF RemoveItem, StockTypeOK, Shelves
    <3> QED BY <3>1, <2>1, <2>2, <1>11 DEF Moves
  <2>3. CASE i # j
    BY <1>13, <2>1, <2>3, <1>12 DEF RemoveItem, StockTypeOK, Shelves
  <2> QED BY <2>2, <2>3
<1>14. ASSUME NEW k \in StockCalls, NEW j \in Items, NEW delta \in {-1, 1}, Adjust(k, j, delta) PROVE Moves(i)'
  <2> DEFINE n == Plus(onScreen[j], delta)
  <2>1. onScreen[j] \in Quantities /\ n \in Quantities
    BY <1>14, PlusTypes DEF Adjust, StockTypeOK, Shelves
  <2>2. Send(k, "adjust", j, n) /\ i \notin crossed
    BY <1>14 DEF Adjust, Count
  <2>3. CASE i = j
    <3>1. /\ onScreen[j] = tally[j] /\ ~Unserved(j)
          /\ tally' = [tally EXCEPT ![j] = Plus(@, delta)]
      BY <1>14, <2>3 DEF Adjust, Count
    <3>2. tally'[i] = n /\ Waiting(i) = {}
      BY <2>3, <3>1 DEF StockTypeOK, Shelves, Unserved
    <3> HIDE DEF n
    <3> QED BY <3>2, <2>1, <2>2, <2>3, <1>11, <1>2 DEF Moves
  <2>4. CASE i # j
    <3>1. tally'[i] = tally[i]
      BY <1>14, <2>4 DEF Adjust, Count, StockTypeOK, Shelves
    <3> HIDE DEF n
    <3> QED BY <3>1, <2>2, <2>4, <1>12
  <2> QED BY <2>3, <2>4
<1>15. ASSUME NEW k \in StockCalls, NEW j \in Items, NEW n \in Quantities, AddItem(k, j, n) PROVE Moves(i)'
  <2>1. Send(k, "add", j, n)
    BY <1>15 DEF AddItem
  <2>2. CASE i = j
    <3>1. tally'[i] = n
      BY <1>15, <2>2 DEF AddItem, StockTypeOK, Shelves
    <3>2. Waiting(i) = {}
      BY <1>15, <2>2 DEF AddItem, Settled, Waiting, StockIdle
    <3> QED BY <3>1, <3>2, <2>1, <2>2, <1>11, <1>2 DEF Moves
  <2>3. CASE i # j
    BY <1>15, <2>1, <2>3, <1>12 DEF AddItem, StockTypeOK, Shelves
  <2> QED BY <2>2, <2>3
<1> QED BY <1>4, <1>5, <1>6, <1>7, <1>8, <1>9, <1>10, <1>13, <1>14, <1>15 DEF StockNext

-----------------------------------------------------------------------------
\* Every step of the stock leaves the screen told, or to be told, of what is stored.
LEMMA ToldStep == ASSUME StockInv, StockTypeOK', StockNext PROVE StockTold'
<1> USE DEF StockInv, StockTold, stockCounts, stockShown
<1>1. CASE OpenStock
  BY <1>1 DEF OpenStock, LastIsStored, ReadIsStored, ShownIsStored, ScreenKnows
<1>2. CASE ReadStock
  BY <1>2 DEF ReadStock, LastIsStored, ReadIsStored, ShownIsStored, ScreenKnows
<1>3. CASE StockListed
  <2>1. LastIsStored' /\ ReadIsStored'
    BY <1>3 DEF StockListed, LastIsStored, ReadIsStored
  <2>2. CASE onScreen' = listing.rows /\ repeated' = {} /\ unshown' = outrun
    BY <1>3, <2>1, <2>2 DEF StockListed, ReadIsStored, ShownIsStored, ScreenKnows
  <2>3. CASE UNCHANGED <<onScreen, repeated, unshown>>
    BY <1>3, <2>1, <2>3 DEF StockListed, ShownIsStored, ScreenKnows
  <2> QED BY <1>3, <2>2, <2>3 DEF StockListed
\* The item j is written, and the answer of the calls in hears is still to come.
<1>4. ASSUME NEW j \in Items, NEW n, NEW hears \in SUBSET StockCalls, Overwrites(j, hears),
             quantity' = [quantity EXCEPT ![j] = n],
             \A k \in lastCalls : stockCalls'[k] = stockCalls[k],
             \A k \in hears : /\ stockCalls'[k].at = "applied" /\ stockCalls'[k].live
                              /\ stockCalls'[k].item = j /\ stockCalls'[k].quantity = n,
             UNCHANGED <<listing, onScreen, repeated>>
      PROVE  StockTold'
  <2>1. quantity'[j] = n /\ \A i \in Items \ {j} : quantity'[i] = quantity[i]
    BY <1>4 DEF StockTypeOK, Shelves
  <2>2. LastIsStored'
    <3> SUFFICES ASSUME NEW k \in lastCalls'
                 PROVE  /\ stockCalls'[k].at = "applied" /\ stockCalls'[k].live
                        /\ quantity'[stockCalls'[k].item] = stockCalls'[k].quantity
      BY DEF LastIsStored
    <3>1. CASE k \in hears
      BY <1>4, <2>1, <3>1
    <3>2. CASE k \notin hears
      <4>1. k \in lastCalls /\ k \in StockCalls /\ stockCalls[k].item # j
        BY <1>4, <3>2 DEF Overwrites, StockTypeOK
      <4>2. stockCalls[k].item \in Items
        BY <4>1, StockShape DEF LastIsStored, StockIdle
      <4> QED BY <1>4, <2>1, <4>1, <4>2 DEF LastIsStored
    <3> QED BY <3>1, <3>2
  <2>3. ReadIsStored'
    BY <1>4, <2>1 DEF Overwrites, ReadIsStored
  <2>4. ShownIsStored'
    <3> SUFFICES ASSUME NEW i \in Items, ScreenKnows(i)'
                 PROVE  onScreen[i] = quantity'[i] /\ i \notin repeated
      BY <1>4 DEF ShownIsStored
    <3>1. i # j
      BY <1>4 DEF Overwrites, ScreenKnows
    <3>2. ScreenKnows(i)
      BY <1>4, <3>1 DEF Overwrites, ScreenKnows
    <3> QED BY <2>1, <3>1, <3>2 DEF ShownIsStored
  <2> QED BY <2>2, <2>3, <2>4
<1>5. ASSUME NEW j \in Items, NEW n \in Quantities, OtherAdjusts(j, n) PROVE StockTold'
  <2>1. /\ Overwrites(j, {}) /\ {} \in SUBSET StockCalls
        /\ quantity' = [quantity EXCEPT ![j] = n]
        /\ \A k \in lastCalls : stockCalls'[k] = stockCalls[k]
        /\ UNCHANGED <<listing, onScreen, repeated>>
    BY <1>5 DEF OtherAdjusts
  <2> QED BY <1>4, <2>1
<1>6. ASSUME NEW k \in StockCalls, StockServed(k) PROVE StockTold'
  <2>1. PICK call \in StockSent : call = stockCalls[k]
    BY <1>6, StockShape DEF StockServed, StockIdle
  <2>2. call.item \in Items /\ call.at = "sent" /\ k \notin lastCalls
    BY <1>6, <2>1 DEF StockServed, StockSent, LastIsStored
  <2>3. PICK served : served = [call EXCEPT !.at = "applied"]
    OBVIOUS
  <2>4. /\ served.at = "applied" /\ served.live = call.live /\ served.item = call.item
        /\ served.quantity = call.quantity
    BY <2>1, <2>3 DEF StockSent
  <2>5. stockCalls'[k] = served /\ \A q \in StockCalls \ {k} : stockCalls'[q] = stockCalls[q]
    BY <1>6, <2>1, <2>3 DEF StockServed, StockTypeOK
  <2>6. /\ Overwrites(call.item, IF call.live THEN {k} ELSE {})
        /\ quantity' = [quantity EXCEPT ![call.item] = call.quantity]
        /\ UNCHANGED <<listing, onScreen, repeated>>
    BY <1>6, <2>1 DEF StockServed
  <2>7. \A q \in lastCalls : stockCalls'[q] = stockCalls[q]
    BY <2>2, <2>5 DEF StockTypeOK
  <2>8. PICK j \in Items : j = call.item
    BY <2>2
  <2>9. PICK n : n = call.quantity
    OBVIOUS
  <2>10. stockCalls'[k].at = "applied" /\ stockCalls'[k].item = j /\ stockCalls'[k].quantity = n
    BY <2>4, <2>5, <2>8, <2>9
  <2>11. quantity' = [quantity EXCEPT ![j] = n] /\ UNCHANGED <<listing, onScreen, repeated>>
    BY <2>6, <2>8, <2>9
  <2>12. CASE call.live
    <3>1. Overwrites(j, {k}) /\ {k} \in SUBSET StockCalls
      BY <2>6, <2>8, <2>12
    <3>2. \A q \in {k} : /\ stockCalls'[q].at = "applied" /\ stockCalls'[q].live
                         /\ stockCalls'[q].item = j /\ stockCalls'[q].quantity = n
      BY <2>4, <2>5, <2>10, <2>12
    <3> QED BY <1>4, <2>7, <2>11, <3>1, <3>2
  <2>13. CASE ~call.live
    <3>1. Overwrites(j, {}) /\ {} \in SUBSET StockCalls
      BY <2>6, <2>8, <2>13
    <3> QED BY <1>4, <2>7, <2>11, <3>1
  <2> QED BY <2>12, <2>13
<1>7. ASSUME NEW k \in StockCalls, StockAnswered(k) \/ StockFails(k)
      PROVE  /\ LastIsStored' /\ ReadIsStored'
             /\ \A i \in Items \ {stockCalls[k].item} : i \notin unshown /\ ScreenKnows(i)' => ScreenKnows(i)
  <2>1. /\ \A q \in StockCalls \ {k} : stockCalls'[q] = stockCalls[q]
        /\ lastCalls' = lastCalls \ {k} /\ lastCalls \subseteq StockCalls
        /\ UNCHANGED <<quantity, listing, outrun>>
    BY <1>7 DEF StockAnswered, StockFails, StockTypeOK
  <2> QED BY <2>1 DEF LastIsStored, ReadIsStored, ScreenKnows
<1>8. ASSUME NEW k \in StockCalls, StockAnswered(k) PROVE StockTold'
  <2>1. PICK call \in StockSent, j \in Items : call = stockCalls[k] /\ j = call.item
    BY <1>8, StockShape DEF StockAnswered, StockIdle
  <2>2. /\ \A i \in Items \ {j} : /\ onScreen'[i] = onScreen[i] /\ (i \in repeated' <=> i \in repeated)
                                  /\ (i \in unshown' <=> i \in unshown)
        /\ UNCHANGED quantity
    BY <1>8, <2>1 DEF StockAnswered, StockTypeOK, Shelves
  <2>3. ASSUME j \notin unshown', \A q \in lastCalls' : stockCalls'[q].item # j
        PROVE  onScreen'[j] = quantity[j] /\ j \notin repeated'
    <3>1. CASE Heard(call)
      <4>1. k \in lastCalls /\ j \notin repeated'
        BY <1>8, <2>1, <2>3, <3>1 DEF StockAnswered
      <4>2. onScreen'[j] = call.quantity
        BY <1>8, <2>1, <3>1 DEF StockAnswered, StockTypeOK, Shelves
      <4> QED BY <2>1, <4>1, <4>2 DEF LastIsStored
    <3>2. CASE ~Heard(call)
      <4>1. /\ k \notin lastCalls /\ UNCHANGED <<onScreen, repeated>> /\ j \notin unshown
            /\ lastCalls' = lastCalls
        BY <1>8, <2>1, <2>3, <3>2 DEF StockAnswered
      <4>2. \A q \in lastCalls : q # k /\ stockCalls'[q] = stockCalls[q]
        BY <1>8, <4>1 DEF StockAnswered, StockTypeOK
      <4>3. ScreenKnows(j)
        BY <2>3, <4>1, <4>2 DEF ScreenKnows
      <4> QED BY <4>1, <4>3 DEF ShownIsStored
    <3> QED BY <3>1, <3>2
  <2>4. ShownIsStored'
    BY <1>7, <1>8, <2>1, <2>2, <2>3 DEF ShownIsStored, ScreenKnows
  <2> QED BY <1>7, <1>8, <2>4
<1>9. ASSUME NEW k \in StockCalls, StockFails(k) PROVE StockTold'
  <2>1. PICK j \in Items : j = stockCalls[k].item
    BY <1>9, StockShape DEF StockFails
  <2>2. /\ UNCHANGED <<quantity, onScreen, repeated>> /\ unshown \subseteq unshown'
        /\ k \in lastCalls => j \in unshown'
        /\ \A q \in lastCalls \ {k} : q \in lastCalls' /\ stockCalls'[q] = stockCalls[q]
    BY <1>9, <2>1 DEF StockFails, StockTypeOK
  <2>3. \A i \in Items : ScreenKnows(i)' => ScreenKnows(i)
    BY <2>1, <2>2 DEF ScreenKnows
  <2> QED BY <1>7, <1>9, <2>2, <2>3 DEF ShownIsStored
<1>10. ASSUME NEW k \in StockCalls, NEW j, NEW kind, NEW n, Send(k, kind, j, n) PROVE StockTold'
  <2>1. k \notin lastCalls
    BY <1>10 DEF Send, LastIsStored, StockIdle
  <2>2. \A q \in lastCalls : stockCalls'[q] = stockCalls[q]
    BY <1>10, <2>1 DEF Send, StockTypeOK
  <2> QED BY <1>10, <2>2 DEF Send, LastIsStored, ReadIsStored, ShownIsStored, ScreenKnows
<1>11. ASSUME NEW k \in StockCalls, NEW j \in Items,
              \/ RemoveItem(k, j)
              \/ \E delta \in {-1, 1} : Adjust(k, j, delta)
              \/ \E n \in Quantities : AddItem(k, j, n)
       PROVE  StockTold'
  BY <1>10, <1>11 DEF RemoveItem, Adjust, AddItem
<1> QED BY <1>1, <1>2, <1>3, <1>5, <1>6, <1>8, <1>9, <1>11 DEF StockNext

-----------------------------------------------------------------------------
LEMMA StockInitial == StockInit => StockInv
<1> SUFFICES ASSUME StockInit PROVE StockInv
  OBVIOUS
<1>1. StockTypeOK
  BY DEF StockInit, StockTypeOK, Shelves
<1>2. AddIsAlone
  BY DEF StockInit, AddIsAlone, StockIdle
<1>3. TallyIsComing
  BY DEF StockInit, TallyIsComing, Moves, Waiting, StockIdle
<1>4. StockTold
  BY DEF StockInit, StockTold, LastIsStored, ReadIsStored, ShownIsStored, ScreenKnows
<1> QED BY <1>1, <1>2, <1>3, <1>4 DEF StockInv

LEMMA StockStep == StockInv /\ [StockNext]_stockVars => StockInv'
<1> SUFFICES ASSUME StockInv, [StockNext]_stockVars PROVE StockInv'
  OBVIOUS
<1>1. CASE StockNext
  <2>1. StockTypeOK'
    BY <1>1, StockTypesStep DEF StockInv
  <2> QED BY <1>1, <2>1, AloneStep, ComingStep, ToldStep DEF StockInv
<1>2. CASE UNCHANGED stockVars
  BY <1>2 DEF stockVars, stockCounts, stockShown, StockInv, StockTypeOK, AddIsAlone, TallyIsComing, Moves, Waiting,
              StockTold, LastIsStored, ReadIsStored, ShownIsStored, ScreenKnows
<1> QED BY <1>1, <1>2

\* What the stock keeps and the screen shows of it has its type, in every behaviour of it.
THEOREM StockTypes == StockSpec => []StockTypeOK
<1>1. StockInv => StockTypeOK
  BY DEF StockInv
<1> QED BY <1>1, StockInitial, StockStep, PTL DEF StockSpec

\* A click made on a reading that is not old counts, once, whatever the calls of the screen
\* and of the rest of the staff do around it, and the screen ends with what came of the clicks
\* unless its answers were overtaken (StockSettles).
THEOREM EveryClickCounts == StockSpec => []StockSettles
<1>1. StockInv => StockSettles
  <2> SUFFICES ASSUME StockInv PROVE StockSettles
    OBVIOUS
  <2>1. ASSUME NEW i \in Items \ crossed, ~Unserved(i) PROVE quantity[i] = tally[i]
    <3>1. Moves(i) /\ Waiting(i) = {}
      BY <2>1 DEF StockInv, TallyIsComing, Unserved
    <3> QED BY <3>1 DEF Moves
  <2> QED BY <2>1 DEF StockInv, StockTold, ShownIsStored, StockSettles
<1> QED BY <1>1, StockInitial, StockStep, PTL DEF StockSpec

-----------------------------------------------------------------------------
(* The staff. *)

\* A permission that was checked before the plan lost its module is known to be late.
CheckedInThePlan ==
    ~planHas => \A k \in TeamCalls :
        teamCalls[k].at = "checked" /\ teamCalls[k].permissions \notin {Nobody, {}} => teamCalls[k].late

TeamInv == TeamTypeOK /\ CheckedInThePlan /\ GrantsWereInThePlan

-----------------------------------------------------------------------------
LEMMA TeamShape ==
    ASSUME TeamTypeOK, NEW k \in TeamCalls
    PROVE  /\ teamCalls[k] = TeamIdle <=> teamCalls[k].at = "idle"
           /\ teamCalls[k] # TeamIdle => teamCalls[k] \in TeamSent
           /\ teamCalls[k].at \in {"idle", "sent", "checked", "applied"}
  BY DEF TeamTypeOK, TeamSent, TeamIdle

\* One call moves on, and stays one.
LEMMA OneTeamCall ==
    ASSUME TeamTypeOK, NEW k \in TeamCalls, NEW call \in TeamSent \cup {TeamIdle},
           teamCalls' = [teamCalls EXCEPT ![k] = call],
           call # TeamIdle => \/ call.member \in Members
                              \/ call.new /\ call.at # "applied" /\ call.permissions # Nobody
    PROVE  /\ teamCalls' \in [TeamCalls -> TeamSent \cup {TeamIdle}]
           /\ \A q \in TeamCalls : teamCalls'[q] # TeamIdle =>
                \/ teamCalls'[q].member \in Members
                \/ teamCalls'[q].new /\ teamCalls'[q].at # "applied" /\ teamCalls'[q].permissions # Nobody
  BY DEF TeamTypeOK

\* Calls that change neither what they ask for nor how far they are.
LEMMA ManyTeamCalls ==
    ASSUME TeamTypeOK, DOMAIN teamCalls' = TeamCalls, teamCalls' = [q \in TeamCalls |-> teamCalls'[q]],
           \A q \in TeamCalls : \/ teamCalls'[q] = teamCalls[q]
                                \/ teamCalls[q] # TeamIdle /\ teamCalls'[q] = [teamCalls[q] EXCEPT !.live = FALSE]
                                \/ teamCalls[q] # TeamIdle /\ teamCalls'[q] = [teamCalls[q] EXCEPT !.late = TRUE]
    PROVE  /\ teamCalls' \in [TeamCalls -> TeamSent \cup {TeamIdle}]
           /\ \A q \in TeamCalls : /\ teamCalls'[q].at = teamCalls[q].at
                                   /\ teamCalls[q] # TeamIdle => teamCalls'[q].permissions = teamCalls[q].permissions
           /\ \A q \in TeamCalls : teamCalls'[q] # TeamIdle =>
                \/ teamCalls'[q].member \in Members
                \/ teamCalls'[q].new /\ teamCalls'[q].at # "applied" /\ teamCalls'[q].permissions # Nobody
<1>1. ASSUME NEW q \in TeamCalls
      PROVE  /\ teamCalls'[q] \in TeamSent \cup {TeamIdle}
             /\ teamCalls'[q].at = teamCalls[q].at
             /\ teamCalls[q] # TeamIdle => /\ teamCalls'[q].permissions = teamCalls[q].permissions
                                           /\ teamCalls'[q].member = teamCalls[q].member
                                           /\ teamCalls'[q].new = teamCalls[q].new
             /\ teamCalls'[q] # TeamIdle => teamCalls[q] # TeamIdle
  <2>1. CASE teamCalls'[q] = teamCalls[q]
    BY <2>1, TeamShape
  <2>2. ASSUME teamCalls[q] # TeamIdle
        PROVE  teamCalls[q] \in TeamSent
    BY <2>2, TeamShape
  <2>3. CASE teamCalls[q] # TeamIdle /\ teamCalls'[q] = [teamCalls[q] EXCEPT !.live = FALSE]
    BY <2>2, <2>3 DEF TeamSent
  <2>4. CASE teamCalls[q] # TeamIdle /\ teamCalls'[q] = [teamCalls[q] EXCEPT !.late = TRUE]
    BY <2>2, <2>4 DEF TeamSent
  <2> QED BY <2>1, <2>3, <2>4
<1>2. teamCalls' \in [TeamCalls -> TeamSent \cup {TeamIdle}]
  BY <1>1
<1>3. ASSUME NEW q \in TeamCalls, teamCalls'[q] # TeamIdle
      PROVE  \/ teamCalls'[q].member \in Members
             \/ teamCalls'[q].new /\ teamCalls'[q].at # "applied" /\ teamCalls'[q].permissions # Nobody
  BY <1>1, <1>3 DEF TeamTypeOK
<1> QED BY <1>1, <1>2, <1>3

LEMMA TeamTypesStep == ASSUME TeamTypeOK, TeamNext PROVE TeamTypeOK'
<1> USE NobodyAssumption
<1>1. CASE OpenTeam
  <2>1. /\ teamCalls' \in [TeamCalls -> TeamSent \cup {TeamIdle}]
        /\ \A q \in TeamCalls : teamCalls'[q] # TeamIdle =>
             \/ teamCalls'[q].member \in Members
             \/ teamCalls'[q].new /\ teamCalls'[q].at # "applied" /\ teamCalls'[q].permissions # Nobody
    BY <1>1, ManyTeamCalls DEF OpenTeam
  <2> QED BY <1>1, <2>1 DEF OpenTeam, TeamTypeOK, staffRows, NobodyListed, Rows, NoForm, MemberForms
<1>2. CASE ListStaff
  BY <1>2 DEF ListStaff, TeamTypeOK, staffRows
<1>3. CASE TeamListed
  BY <1>3 DEF TeamListed, TeamTypeOK, staffRows
<1>4. ASSUME NEW editing \in Members \cup {Nobody}, NEW permissions \in Permissions, Form(editing, permissions)
      PROVE  TeamTypeOK'
  BY <1>4 DEF Form, TeamTypeOK, staffRows, MemberForms
<1>5. CASE OpenNewForm \/ ChangePosition
  BY <1>4, <1>5 DEF OpenNewForm, ChangePosition, Permissions
<1>6. ASSUME NEW m \in Members, OpenEditForm(m) PROVE TeamTypeOK'
  BY <1>4, <1>6 DEF OpenEditForm, TeamTypeOK, Rows
<1>7. ASSUME NEW p \in Gated, TogglePermission(p) PROVE TeamTypeOK'
  <2>1. memberForm.editing \in Members \cup {Nobody} /\ memberForm.permissions \in Permissions
    BY <1>7 DEF TogglePermission, TeamTypeOK, MemberForms
  <2>2. memberForm.permissions \ {p} \in Permissions /\ memberForm.permissions \cup {p} \in Permissions
    BY <2>1 DEF Permissions
  <2> QED BY <1>4, <1>7, <2>1, <2>2 DEF TogglePermission
<1>8. CASE CancelMember
  BY <1>8 DEF CancelMember, TeamTypeOK, staffRows, MemberForms
<1>9. ASSUME NEW k \in TeamCalls, NEW isSave \in BOOLEAN, NEW m \in Members \cup {Nobody},
             NEW permissions \in Permissions \cup {Nobody}, m = Nobody => permissions # Nobody,
             CallTeam(k, isSave, m, permissions), memberForm' \in MemberForms
      PROVE  TeamTypeOK'
  <2>1. PICK call : call = [at |-> "sent", live |-> TRUE, late |-> FALSE, save |-> isSave,
                            member |-> m, new |-> m = Nobody, permissions |-> permissions]
    OBVIOUS
  <2>2. call \in TeamSent /\ teamCalls' = [teamCalls EXCEPT ![k] = call]
    BY <1>9, <2>1 DEF CallTeam, TeamSent
  <2>3. call.member = m /\ (call.new <=> m = Nobody) /\ call.at = "sent" /\ call.permissions = permissions
    BY <2>1
  <2>4. /\ teamCalls' \in [TeamCalls -> TeamSent \cup {TeamIdle}]
        /\ \A q \in TeamCalls : teamCalls'[q] # TeamIdle =>
             \/ teamCalls'[q].member \in Members
             \/ teamCalls'[q].new /\ teamCalls'[q].at # "applied" /\ teamCalls'[q].permissions # Nobody
    BY <1>9, <2>2, <2>3, OneTeamCall
  <2> QED BY <1>9, <2>4 DEF CallTeam, TeamTypeOK, staffRows
<1>10. ASSUME NEW k \in TeamCalls, SaveMember(k) PROVE TeamTypeOK'
  <2>1. /\ memberForm.editing \in Members \cup {Nobody} /\ memberForm.permissions \in Permissions
        /\ memberForm' \in MemberForms
    BY <1>10 DEF SaveMember, TeamTypeOK, MemberForms
  <2>2. CallTeam(k, TRUE, memberForm.editing, memberForm.permissions)
    BY <1>10 DEF SaveMember
  <2> QED BY <1>9, <2>1, <2>2
<1>11. ASSUME NEW k \in TeamCalls, NEW m \in Members, ToggleActive(k, m) PROVE TeamTypeOK'
  BY <1>9, <1>11 DEF ToggleActive, TeamTypeOK
<1>12. ASSUME NEW k \in TeamCalls, CheckMember(k) PROVE TeamTypeOK'
  <2>1. PICK call : call = [teamCalls[k] EXCEPT !.at = "checked"]
    OBVIOUS
  <2>2. /\ call \in TeamSent /\ teamCalls' = [teamCalls EXCEPT ![k] = call]
        /\ call.at = "checked" /\ call.member = teamCalls[k].member /\ call.new = teamCalls[k].new
        /\ call.permissions = teamCalls[k].permissions /\ teamCalls[k] # TeamIdle
    BY <1>12, <2>1, TeamShape DEF CheckMember, Checked, TeamSent
  <2>3. /\ teamCalls' \in [TeamCalls -> TeamSent \cup {TeamIdle}]
        /\ \A q \in TeamCalls : teamCalls'[q] # TeamIdle =>
             \/ teamCalls'[q].member \in Members
             \/ teamCalls'[q].new /\ teamCalls'[q].at # "applied" /\ teamCalls'[q].permissions # Nobody
    BY <2>2, OneTeamCall DEF TeamTypeOK
  <2> QED BY <1>12, <2>3 DEF CheckMember, Checked, TeamTypeOK, staffRows, teamScreen
<1>13. ASSUME NEW k \in TeamCalls, NEW m \in Members, NEW permissions \in Permissions \cup {Nobody},
              Written(k, m, permissions), teamCalls[k] # TeamIdle
       PROVE  TeamTypeOK'
  <2>1. PICK call : call = [teamCalls[k] EXCEPT !.at = "applied", !.member = m, !.permissions = permissions]
    OBVIOUS
  <2>2. /\ call \in TeamSent /\ teamCalls' = [teamCalls EXCEPT ![k] = call] /\ call.member = m
    BY <1>13, <2>1, TeamShape DEF Written, TeamSent, TeamTypeOK
  <2>3. /\ teamCalls' \in [TeamCalls -> TeamSent \cup {TeamIdle}]
        /\ \A q \in TeamCalls : teamCalls'[q] # TeamIdle =>
             \/ teamCalls'[q].member \in Members
             \/ teamCalls'[q].new /\ teamCalls'[q].at # "applied" /\ teamCalls'[q].permissions # Nobody
    BY <2>2, OneTeamCall
  <2> QED BY <1>13, <2>3 DEF Written, TeamTypeOK, Rows, teamScreen
<1>14. ASSUME NEW k \in TeamCalls, NEW m \in Members, CreateMember(k, m) PROVE TeamTypeOK'
  BY <1>13, <1>14, TeamShape DEF CreateMember, TeamSent
<1>15. ASSUME NEW k \in TeamCalls, UpdateMember(k) PROVE TeamTypeOK'
  <2>1. teamCalls[k].member \in Members
    BY <1>15 DEF UpdateMember, TeamTypeOK
  <2>2. (IF teamCalls[k].permissions = Nobody THEN staff[teamCalls[k].member] ELSE teamCalls[k].permissions)
            \in Permissions \cup {Nobody}
    BY <1>15, <2>1, TeamShape DEF UpdateMember, TeamTypeOK, Rows, TeamSent
  <2> QED BY <1>13, <1>15, <2>1, <2>2 DEF UpdateMember
<1>16. CASE ChangePlan
  <2>1. /\ teamCalls' \in [TeamCalls -> TeamSent \cup {TeamIdle}]
        /\ \A q \in TeamCalls : teamCalls'[q] # TeamIdle =>
             \/ teamCalls'[q].member \in Members
             \/ teamCalls'[q].new /\ teamCalls'[q].at # "applied" /\ teamCalls'[q].permissions # Nobody
    <3>1. CASE planHas
      <4>1. /\ DOMAIN teamCalls' = TeamCalls /\ teamCalls' = [q \in TeamCalls |-> teamCalls'[q]]
            /\ \A q \in TeamCalls : \/ teamCalls'[q] = teamCalls[q]
                                    \/ /\ teamCalls[q] # TeamIdle
                                       /\ teamCalls'[q] = [teamCalls[q] EXCEPT !.late = TRUE]
        BY <1>16, <3>1 DEF ChangePlan, TeamIdle
      <4> QED BY <4>1, ManyTeamCalls
    <3>2. CASE ~planHas
      BY <1>16, <3>2 DEF ChangePlan, TeamTypeOK
    <3> QED BY <3>1, <3>2
  <2> QED BY <1>16, <2>1 DEF ChangePlan, TeamTypeOK, teamScreen, Holders
<1>17. ASSUME NEW k \in TeamCalls, MemberAnswered(k) PROVE TeamTypeOK'
  <2>1. teamCalls[k] # TeamIdle /\ teamCalls[k].member \in Members
        /\ teamCalls[k].permissions \in Permissions \cup {Nobody}
    BY <1>17, TeamShape DEF MemberAnswered, TeamTypeOK, TeamIdle, TeamSent
  <2>2. team' \in Rows
    BY <1>17, <2>1 DEF MemberAnswered, TeamTypeOK, Rows
  <2>3. memberForm' \in MemberForms
    BY <1>17 DEF MemberAnswered, Ends, TeamTypeOK, NoForm, MemberForms
  <2> QED BY <1>17, <2>2, <2>3 DEF MemberAnswered, Ends, TeamTypeOK, staffRows
<1>18. ASSUME NEW k \in TeamCalls, MemberFails(k) PROVE TeamTypeOK'
  <2>1. memberForm' \in MemberForms
    BY <1>18 DEF MemberFails, Ends, TeamTypeOK, MemberForms
  <2> QED BY <1>18, <2>1 DEF MemberFails, Ends, TeamTypeOK, staffRows
<1> QED BY <1>1, <1>2, <1>3, <1>5, <1>6, <1>7, <1>8, <1>10, <1>11, <1>12, <1>14, <1>15, <1>16, <1>17, <1>18
        DEF TeamNext

-----------------------------------------------------------------------------
\* What the screen does by itself, the plan does not see.
LEMMA PlanUntouched ==
    ASSUME TeamInv, UNCHANGED staffRows,
           \A k \in TeamCalls : teamCalls'[k].at = "checked" =>
                /\ teamCalls[k].at = "checked"
                /\ teamCalls'[k].permissions = teamCalls[k].permissions
                /\ teamCalls'[k].late = teamCalls[k].late
    PROVE  CheckedInThePlan' /\ GrantsWereInThePlan'
  BY DEF TeamInv, CheckedInThePlan, GrantsWereInThePlan, Holders, staffRows

LEMMA TeamStep == TeamInv /\ [TeamNext]_teamVars => TeamInv'
<1> SUFFICES ASSUME TeamInv, [TeamNext]_teamVars PROVE TeamInv'
  OBVIOUS
<1>1. CASE UNCHANGED teamVars
  BY <1>1 DEF teamVars, staffRows, teamScreen, TeamInv, TeamTypeOK, CheckedInThePlan, GrantsWereInThePlan, Holders
<1>2. CASE TeamNext
  <2>1. TeamTypeOK /\ TeamTypeOK'
    BY <1>2, TeamTypesStep DEF TeamInv
  <2> SUFFICES CheckedInThePlan' /\ GrantsWereInThePlan'
    BY <2>1 DEF TeamInv
  <2>2. CASE OpenTeam
    <3>1. \A q \in TeamCalls : teamCalls'[q].at = "checked" =>
                /\ teamCalls[q].at = "checked"
                /\ teamCalls'[q].permissions = teamCalls[q].permissions
                /\ teamCalls'[q].late = teamCalls[q].late
      BY <2>1, <2>2, TeamShape DEF OpenTeam, TeamSent, TeamIdle
    <3> QED BY <2>2, <3>1, PlanUntouched DEF OpenTeam
  <2>3. CASE ListStaff \/ TeamListed \/ CancelMember
    BY <2>3, PlanUntouched DEF ListStaff, TeamListed, CancelMember
  <2>4. ASSUME NEW editing, NEW permissions, Form(editing, permissions)
        PROVE  CheckedInThePlan' /\ GrantsWereInThePlan'
    BY <2>4, PlanUntouched DEF Form
  <2>5. CASE OpenNewForm \/ ChangePosition \/ \E m \in Members : OpenEditForm(m)
    BY <2>4, <2>5 DEF OpenNewForm, ChangePosition, OpenEditForm
  <2>6. ASSUME NEW p \in Gated, TogglePermission(p) PROVE CheckedInThePlan' /\ GrantsWereInThePlan'
    BY <2>4, <2>6 DEF TogglePermission
  <2>7. ASSUME NEW k \in TeamCalls, NEW isSave, NEW m, NEW permissions, CallTeam(k, isSave, m, permissions)
        PROVE  CheckedInThePlan' /\ GrantsWereInThePlan'
    BY <2>1, <2>7, PlanUntouched DEF CallTeam, TeamTypeOK
  <2>8. ASSUME NEW k \in TeamCalls, SaveMember(k) \/ \E m \in Members : ToggleActive(k, m)
        PROVE  CheckedInThePlan' /\ GrantsWereInThePlan'
    BY <2>7, <2>8 DEF SaveMember, ToggleActive
  <2>9. ASSUME NEW k \in TeamCalls, CheckMember(k) PROVE CheckedInThePlan' /\ GrantsWereInThePlan'
    <3>1. /\ UNCHANGED staffRows
          /\ teamCalls'[k].permissions = teamCalls[k].permissions
          /\ teamCalls[k].permissions \notin {Nobody, {}} => planHas
          /\ \A q \in TeamCalls \ {k} : teamCalls'[q] = teamCalls[q]
      BY <2>1, <2>9, TeamShape DEF CheckMember, Checked, TeamTypeOK, TeamSent, TeamIdle
    <3> QED BY <3>1 DEF TeamInv, CheckedInThePlan, GrantsWereInThePlan, Holders, staffRows
  <2>10. ASSUME NEW k \in TeamCalls, NEW m \in Members, NEW permissions, Written(k, m, permissions),
                \/ permissions = teamCalls[k].permissions /\ permissions # Nobody
                \/ permissions = staff[m]
         PROVE  CheckedInThePlan' /\ GrantsWereInThePlan'
    <3>1. /\ teamCalls[k].at = "checked" /\ teamCalls'[k].at = "applied"
          /\ \A q \in TeamCalls \ {k} : teamCalls'[q] = teamCalls[q]
          /\ UNCHANGED planHas /\ staff' = [staff EXCEPT ![m] = permissions]
          /\ lapsed' = IF teamCalls[k].late THEN lapsed \cup {m} ELSE lapsed
      BY <2>1, <2>10, TeamShape DEF Written, TeamTypeOK, TeamIdle, TeamSent
    <3>2. CheckedInThePlan'
      BY <3>1 DEF TeamInv, CheckedInThePlan
    <3>3. ASSUME ~planHas', NEW h \in Members, staff'[h] \notin {Nobody, {}} PROVE h \in lapsed'
      <4>1. CASE h # m \/ permissions = staff[m]
        BY <2>1, <3>1, <3>3, <4>1 DEF TeamInv, GrantsWereInThePlan, Holders, TeamTypeOK, Rows
      <4>2. CASE h = m /\ permissions = teamCalls[k].permissions
        BY <2>1, <3>1, <3>3, <4>2 DEF TeamInv, CheckedInThePlan, TeamTypeOK, Rows
      <4> QED BY <2>10, <4>1, <4>2
    <3> QED BY <3>2, <3>3 DEF GrantsWereInThePlan, Holders
  <2>11. ASSUME NEW k \in TeamCalls, NEW m \in Members, CreateMember(k, m)
         PROVE  CheckedInThePlan' /\ GrantsWereInThePlan'
    <3>1. CASE teamCalls[k].permissions # Nobody
      BY <2>10, <2>11, <3>1 DEF CreateMember
    <3>2. CASE teamCalls[k].permissions = Nobody
      BY <2>10, <2>11, <3>2 DEF CreateMember
    <3> QED BY <3>1, <3>2
  <2>12. ASSUME NEW k \in TeamCalls, UpdateMember(k) PROVE CheckedInThePlan' /\ GrantsWereInThePlan'
    <3>1. teamCalls[k].member \in Members
      BY <2>1, <2>12 DEF UpdateMember, TeamTypeOK
    <3> QED BY <2>10, <2>12, <3>1 DEF UpdateMember
  <2>13. CASE ChangePlan
    <3>1. CASE planHas
      <4>1. \A q \in TeamCalls : teamCalls[q].at = "checked" /\ teamCalls[q].permissions # Nobody => teamCalls'[q].late
        BY <2>1, <2>13, <3>1, TeamShape DEF ChangePlan, TeamIdle, TeamSent
      <4>2. \A q \in TeamCalls : teamCalls'[q].at = "checked" =>
                teamCalls[q].at = "checked" /\ teamCalls'[q].permissions = teamCalls[q].permissions
        BY <2>1, <2>13, <3>1, TeamShape DEF ChangePlan, TeamIdle, TeamSent
      <4>3. Holders' = Holders /\ lapsed' = lapsed \cup Holders
        BY <2>13, <3>1 DEF ChangePlan, Holders
      <4> QED BY <4>1, <4>2, <4>3 DEF CheckedInThePlan, GrantsWereInThePlan
    <3>2. CASE ~planHas
      BY <2>1, <2>13, <3>2 DEF ChangePlan, CheckedInThePlan, GrantsWereInThePlan
    <3> QED BY <3>1, <3>2
  <2>14. ASSUME NEW k \in TeamCalls, MemberAnswered(k) \/ MemberFails(k)
         PROVE  CheckedInThePlan' /\ GrantsWereInThePlan'
    BY <2>1, <2>14, PlanUntouched DEF MemberAnswered, MemberFails, Ends, TeamIdle, TeamTypeOK
  <2> QED BY <1>2, <2>2, <2>3, <2>5, <2>6, <2>8, <2>9, <2>11, <2>12, <2>13, <2>14 DEF TeamNext
<1> QED BY <1>1, <1>2

LEMMA TeamInitial == TeamInit => TeamInv
  BY NobodyAssumption DEF TeamInit, TeamInv, TeamTypeOK, CheckedInThePlan, GrantsWereInThePlan, Rows, NoForm,
     MemberForms, TeamIdle, NobodyListed

\* What the staff screen keeps and shows has its type, in every behaviour of it.
THEOREM TeamTypes == TeamSpec => []TeamTypeOK
<1>1. TeamInv => TeamTypeOK
  BY DEF TeamInv
<1> QED BY <1>1, TeamInitial, TeamStep, PTL DEF TeamSpec

\* Nobody is given a permission of a module the plan lacks, but by a call that had been
\* checked when the plan lost it.
THEOREM GrantsAreInThePlan == TeamSpec => []GrantsWereInThePlan
<1>1. TeamInv => GrantsWereInThePlan
  BY DEF TeamInv
<1> QED BY <1>1, TeamInitial, TeamStep, PTL DEF TeamSpec

-----------------------------------------------------------------------------
(* The finances. *)

\* What a GET was answered is of the period it was sent for.
AnswersAreOfTheirPeriod ==
    \A t \in 1..Len(gets) : gets[t].at = "served" =>
        \A e \in ExpenseIds : gets[t].rows[e] # Unset => gets[t].rows[e] <= choices[t]

\* And it is all that is stored of that period, but for what was written since.
AnswersAreStored ==
    \A t \in 1..Len(gets) : gets[t].at = "served" =>
        \A e \in ExpenseIds : <<t, e>> \notin overtaken => gets[t].rows[e] = Within(expenses, choices[t])[e]

\* A save that has not been answered and wrote last wrote what is stored.
SavesAreStored ==
    \A k \in lastSaves :
        /\ expenseCalls[k].at = "applied"
        /\ expenses[expenseCalls[k].expense] = IF expenseCalls[k].kind = "save" THEN expenseCalls[k].age ELSE Unset

\* Only what is listed is out of place.
RowsAreListed == \A e \in misfiled \cup twice : listed[e] # Unset

\* What is listed is of the period of the list that came last, whichever it is.
ListIsOfItsPeriod ==
    \A e \in ExpenseIds \ misfiled : listed[e] # Unset => listOf # Unset /\ listed[e] <= listOf

\* And what the list may be believed about is stored.
ListIsStored ==
    listOf # Unset =>
        \A e \in ExpenseIds : ListKnows(e) =>
            /\ listed[e] = IF e \in misfiled THEN expenses[e] ELSE Within(expenses, listOf)[e]
            /\ e \notin twice

FinanceTold ==
    /\ AnswersAreOfTheirPeriod /\ AnswersAreStored /\ SavesAreStored
    /\ RowsAreListed /\ ListIsOfItsPeriod /\ ListIsStored

FinanceInv == FinanceTypeOK /\ FinanceTold

-----------------------------------------------------------------------------
LEMMA ExpenseShape ==
    ASSUME FinanceTypeOK, NEW k \in ExpenseCalls, expenseCalls[k].at # "idle"
    PROVE  /\ expenseCalls[k] \in ExpenseSent
           /\ expenseCalls[k].kind = "save" => expenseCalls[k].age \in Ages
           /\ expenseCalls[k].expense \in ExpenseIds \cup {Unset}
           /\ \A e \in ExpenseIds : [expenseCalls[k] EXCEPT !.at = "applied", !.expense = e] \in ExpenseSent
<1>1. expenseCalls[k] \in ExpenseSent
  BY DEF FinanceTypeOK
<1>2. /\ expenseCalls[k].kind = "save" => expenseCalls[k].age \in Ages
      /\ expenseCalls[k].expense \in ExpenseIds \cup {Unset}
  BY <1>1 DEF ExpenseSent
<1>3. ASSUME NEW e \in ExpenseIds
      PROVE  [expenseCalls[k] EXCEPT !.at = "applied", !.expense = e] \in ExpenseSent
  BY <1>1 DEF ExpenseSent
<1> QED BY <1>1, <1>2, <1>3

LEMMA WithinTypes ==
    ASSUME NEW ages \in Ledger, NEW period \in Periods
    PROVE  /\ Within(ages, period) \in Ledger
           /\ \A e \in ExpenseIds : Within(ages, period)[e] # Unset => Within(ages, period)[e] <= period
  BY DEF Within, Ledger

LEMMA ThePeriod ==
    ASSUME FinanceTypeOK
    PROVE  /\ Period \in Periods
           /\ \A t \in 1..Len(choices) : choices[t] \in Periods /\ gets[t] \in Gets
  BY DEF FinanceTypeOK, Period

\* One of the GETs moves on.
LEMMA OneGet ==
    ASSUME FinanceTypeOK, NEW t \in 1..Len(gets), NEW answer \in Gets, gets' = [gets EXCEPT ![t] = answer]
    PROVE  /\ gets' \in Seq(Gets) /\ Len(gets') = Len(gets)
           /\ gets'[t] = answer
           /\ \A u \in 1..Len(gets) \ {t} : gets'[u] = gets[u]
  BY ExceptSeq DEF FinanceTypeOK

LEMMA OneExpenseCall ==
    ASSUME FinanceTypeOK, NEW k \in ExpenseCalls, NEW call \in ExpenseSent \cup {[at |-> "idle"]},
           expenseCalls' = [expenseCalls EXCEPT ![k] = call],
           call.at # "idle" => call.expense \in ExpenseIds \/ (call.at = "sent" /\ call.new)
    PROVE  /\ expenseCalls' \in [ExpenseCalls -> ExpenseSent \cup {[at |-> "idle"]}]
           /\ \A q \in ExpenseCalls : expenseCalls'[q].at # "idle" =>
                \/ expenseCalls'[q].expense \in ExpenseIds
                \/ expenseCalls'[q].at = "sent" /\ expenseCalls'[q].new
  BY DEF FinanceTypeOK

LEMMA FinanceTypesStep == ASSUME FinanceInv, FinanceNext PROVE FinanceTypeOK'
<1> USE UnsetAssumption, PeriodsAssumption
<1> USE DEF FinanceInv, screenGets, expenseList
<1>1. ASSUME NEW form \in Editors, Editor(form) PROVE FinanceTypeOK'
  BY <1>1 DEF Editor, FinanceTypeOK
<1>2. CASE AddExpense
  BY <1>1, <1>2 DEF AddExpense, Editors
<1>3. ASSUME NEW e \in ExpenseIds, StartEdit(e) PROVE FinanceTypeOK'
  BY <1>1, <1>3 DEF StartEdit, Editors, FinanceTypeOK, Ledger
<1>4. ASSUME NEW a \in Ages, SetDate(a) PROVE FinanceTypeOK'
  BY <1>1, <1>4 DEF SetDate, Editors, FinanceTypeOK, Blank
<1>5. CASE ResetForm
  BY <1>1, <1>5 DEF ResetForm, Editors
<1>6. ASSUME NEW p \in Periods, ChoosePeriod(p) PROVE FinanceTypeOK'
  <2>1. /\ choices' \in Seq(Periods) /\ gets' \in Seq(Gets)
        /\ Len(choices') = Len(choices) + 1 /\ Len(gets') = Len(gets) + 1
    BY <1>6 DEF ChoosePeriod, FinanceTypeOK, GetSent, Gets
  <2> QED BY <1>6, <2>1 DEF ChoosePeriod, FinanceTypeOK
<1>7. ASSUME NEW t \in 1..Len(choices), ServeList(t) PROVE FinanceTypeOK'
  <2>1. t \in 1..Len(gets) /\ choices[t] \in Periods
    BY ThePeriod DEF FinanceTypeOK
  <2>2. [at |-> "served", rows |-> Within(expenses, choices[t])] \in Gets
    BY <2>1, WithinTypes DEF FinanceTypeOK, Gets
  <2>3. gets' \in Seq(Gets) /\ Len(gets') = Len(gets)
    BY <1>7, <2>1, <2>2, OneGet DEF ServeList
  <2> QED BY <1>7, <2>3 DEF ServeList, FinanceTypeOK
<1>8. ASSUME NEW t \in 1..Len(choices), ListArrives(t) \/ ListFails(t) PROVE FinanceTypeOK'
  <2>1. t \in 1..Len(gets) /\ choices[t] \in Periods /\ gets[t] \in Gets
    BY ThePeriod DEF FinanceTypeOK
  <2>2. GetOver(t)
    BY <1>8 DEF ListArrives, ListFails
  <2>3. gets' \in Seq(Gets) /\ Len(gets') = Len(gets)
    BY <2>1, <2>2, OneGet DEF GetOver, Gets
  <2>4. overtaken' \subseteq Nat \X ExpenseIds /\ UNCHANGED <<expenses, choices, expenseForm, expenseCalls, lastSaves>>
    BY <2>2 DEF GetOver, FinanceTypeOK
  <2>5. /\ listOf' \in Periods \cup {Unset} /\ listed' \in Ledger
        /\ misfiled' \subseteq ExpenseIds /\ twice' \subseteq ExpenseIds /\ strayed' \subseteq ExpenseIds
    BY <1>8, <2>1 DEF ListArrives, ListFails, FinanceTypeOK, Gets
  <2> QED BY <2>3, <2>4, <2>5 DEF FinanceTypeOK
<1>9. ASSUME NEW k \in ExpenseCalls, NEW call \in ExpenseSent, CallExpenses(k, call),
             call.expense \in ExpenseIds \/ (call.at = "sent" /\ call.new)
      PROVE  FinanceTypeOK'
  <2>1. /\ expenseCalls' \in [ExpenseCalls -> ExpenseSent \cup {[at |-> "idle"]}]
        /\ \A q \in ExpenseCalls : expenseCalls'[q].at # "idle" =>
             \/ expenseCalls'[q].expense \in ExpenseIds
             \/ expenseCalls'[q].at = "sent" /\ expenseCalls'[q].new
    BY <1>9, OneExpenseCall DEF CallExpenses
  <2> QED BY <1>9, <2>1 DEF CallExpenses, FinanceTypeOK
<1>10. ASSUME NEW k \in ExpenseCalls, SaveExpense(k) PROVE FinanceTypeOK'
  <2>1. PICK call : call = [at |-> "sent", kind |-> "save", expense |-> expenseForm.editing,
                            age |-> expenseForm.age, new |-> expenseForm.editing = Unset]
    OBVIOUS
  <2>2. expenseForm.editing \in ExpenseIds \cup {Unset} /\ expenseForm.age \in Ages
    <3>1. expenseForm # Blank
      BY <1>10 DEF SaveExpense, Blank
    <3>2. expenseForm \in [open : {TRUE}, editing : ExpenseIds \cup {Unset}, age : Ages]
      BY <3>1 DEF FinanceTypeOK, Editors
    <3> QED BY <3>2
  <2>3. call \in ExpenseSent /\ (call.expense \in ExpenseIds \/ (call.at = "sent" /\ call.new))
    BY <2>1, <2>2 DEF ExpenseSent
  <2>4. CallExpenses(k, call)
    BY <1>10, <2>1 DEF SaveExpense
  <2> QED BY <1>9, <2>3, <2>4
<1>11. ASSUME NEW k \in ExpenseCalls, NEW e \in ExpenseIds, RemoveExpense(k, e) PROVE FinanceTypeOK'
  <2>1. PICK call : call = [at |-> "sent", kind |-> "remove", expense |-> e, new |-> FALSE,
                            edited |-> expenseForm.open /\ expenseForm.editing = e]
    OBVIOUS
  <2>2. call \in ExpenseSent /\ call.expense \in ExpenseIds
    BY <2>1 DEF ExpenseSent
  <2>3. CallExpenses(k, call)
    BY <1>11, <2>1 DEF RemoveExpense
  <2> QED BY <1>9, <2>2, <2>3
<1>12. ASSUME NEW k \in ExpenseCalls, NEW e \in ExpenseIds, NEW row \in Ages \cup {Unset}, Stored(k, e, row)
       PROVE  FinanceTypeOK'
  <2>1. PICK call : call = [expenseCalls[k] EXCEPT !.at = "applied", !.expense = e]
    OBVIOUS
  <2>2. /\ call \in ExpenseSent /\ call.expense = e
        /\ expenseCalls' = [expenseCalls EXCEPT ![k] = call]
    <3>1. expenseCalls[k].at # "idle"
      BY <1>12 DEF Stored
    <3>2. expenseCalls[k] \in ExpenseSent /\ call \in ExpenseSent
      BY <2>1, <3>1, ExpenseShape
    <3>3. call.expense = e
      BY <2>1, <3>2 DEF ExpenseSent
    <3> QED BY <1>12, <2>1, <3>2, <3>3 DEF Stored, FinanceTypeOK
  <2>3. /\ expenseCalls' \in [ExpenseCalls -> ExpenseSent \cup {[at |-> "idle"]}]
        /\ \A q \in ExpenseCalls : expenseCalls'[q].at # "idle" =>
             \/ expenseCalls'[q].expense \in ExpenseIds
             \/ expenseCalls'[q].at = "sent" /\ expenseCalls'[q].new
    BY <2>2, OneExpenseCall
  <2>4. expenses' \in Ledger
    BY <1>12 DEF Stored, FinanceTypeOK, Ledger
  <2>5. lastSaves' \subseteq ExpenseCalls /\ overtaken' \subseteq Nat \X ExpenseIds
    BY <1>12 DEF Stored, FinanceTypeOK
  <2> QED BY <1>12, <2>3, <2>4, <2>5 DEF Stored, FinanceTypeOK
<1>13. ASSUME NEW k \in ExpenseCalls, NEW e \in ExpenseIds, CreateExpense(k, e) PROVE FinanceTypeOK'
  <2>1. expenseCalls[k].age \in Ages
    <3>1. expenseCalls[k].at # "idle" /\ expenseCalls[k].new
      BY <1>13 DEF CreateExpense
    <3>2. expenseCalls[k] \in ExpenseSent
      BY <3>1, ExpenseShape
    <3> QED BY <3>1, <3>2 DEF ExpenseSent
  <2> QED BY <1>12, <1>13, <2>1 DEF CreateExpense
<1>14. ASSUME NEW k \in ExpenseCalls, ChangeExpense(k) PROVE FinanceTypeOK'
  <2>1. expenseCalls[k].expense \in ExpenseIds
    BY <1>14 DEF ChangeExpense, FinanceTypeOK
  <2>2. (IF expenseCalls[k].kind = "save" THEN expenseCalls[k].age ELSE Unset) \in Ages \cup {Unset}
    BY <1>14, ExpenseShape DEF ChangeExpense
  <2> QED BY <1>12, <1>14, <2>1, <2>2 DEF ChangeExpense
<1>15. ASSUME NEW k \in ExpenseCalls, Answered(k)
       PROVE  /\ expenseCalls' \in [ExpenseCalls -> ExpenseSent \cup {[at |-> "idle"]}]
              /\ \A q \in ExpenseCalls : expenseCalls'[q].at # "idle" =>
                    \/ expenseCalls'[q].expense \in ExpenseIds
                    \/ expenseCalls'[q].at = "sent" /\ expenseCalls'[q].new
              /\ lastSaves' \subseteq ExpenseCalls
              /\ UNCHANGED <<expenses, choices, gets, listOf, overtaken>>
  BY <1>15 DEF Answered, FinanceTypeOK
<1>16. ASSUME NEW k \in ExpenseCalls, ExpenseSaved(k) \/ ExpenseRemoved(k) \/ ExpenseFails(k)
       PROVE  FinanceTypeOK'
  <2>1. Answered(k) /\ expenseForm' \in Editors
    BY <1>16 DEF ExpenseSaved, ExpenseRemoved, ExpenseFails, Editors, FinanceTypeOK
  <2>2. listed' \in Ledger
    <3>1. CASE ExpenseSaved(k)
      <4>1. expenseCalls[k].age \in Ages /\ expenseCalls[k].expense \in ExpenseIds
        BY <3>1, ExpenseShape DEF ExpenseSaved, FinanceTypeOK
      <4> QED BY <3>1, <4>1 DEF ExpenseSaved, FinanceTypeOK, Ledger
    <3>2. CASE ExpenseRemoved(k) \/ ExpenseFails(k)
      BY <3>2 DEF ExpenseRemoved, ExpenseFails, FinanceTypeOK, Ledger
    <3> QED BY <1>16, <3>1, <3>2
  <2>3. expenseCalls[k].at = "applied" => expenseCalls[k].expense \in ExpenseIds
    BY DEF FinanceTypeOK
  <2>4. misfiled' \subseteq ExpenseIds /\ twice' \subseteq ExpenseIds /\ strayed' \subseteq ExpenseIds
    <3>1. CASE ExpenseSaved(k)
      <4>1. expenseCalls[k].expense \in ExpenseIds
        BY <2>3, <3>1 DEF ExpenseSaved
      <4>2. /\ misfiled' \subseteq misfiled \cup {expenseCalls[k].expense}
            /\ twice' \subseteq twice \cup {expenseCalls[k].expense}
            /\ strayed' \subseteq strayed \cup {expenseCalls[k].expense}
        BY <3>1 DEF ExpenseSaved
      <4> QED BY <4>1, <4>2 DEF FinanceTypeOK
    <3>2. CASE ExpenseRemoved(k)
      BY <2>3, <3>2 DEF ExpenseRemoved, FinanceTypeOK
    <3>3. CASE ExpenseFails(k)
      <4>1. k \in lastSaves => expenseCalls[k].expense \in ExpenseIds
        BY <2>3 DEF FinanceTold, SavesAreStored
      <4> QED BY <3>3, <4>1 DEF ExpenseFails, FinanceTypeOK
    <3> QED BY <1>16, <3>1, <3>2, <3>3
  <2> QED BY <1>15, <2>1, <2>2, <2>4 DEF FinanceTypeOK
<1> QED BY <1>2, <1>3, <1>4, <1>5, <1>6, <1>7, <1>8, <1>10, <1>11, <1>13, <1>14, <1>16 DEF FinanceNext

-----------------------------------------------------------------------------
\* A GET that is sent, served or over leaves the list, the rows and the calls alone.
LEMMA GetsStep ==
    ASSUME FinanceInv, FinanceTypeOK', UNCHANGED <<expenses, expenseCalls, lastSaves>>,
           UNCHANGED <<listOf, expenseList>>
    PROVE  SavesAreStored' /\ RowsAreListed' /\ ListIsOfItsPeriod' /\ ListIsStored'
  BY DEF expenseList, FinanceInv, FinanceTold, SavesAreStored, RowsAreListed, ListIsOfItsPeriod, ListIsStored,
         ListKnows, Within

\* The calls leave the GETs alone.
LEMMA CallsStep ==
    ASSUME FinanceInv, UNCHANGED <<gets, choices, overtaken, expenses>>
    PROVE  AnswersAreOfTheirPeriod' /\ AnswersAreStored'
  BY DEF FinanceInv, FinanceTold, AnswersAreOfTheirPeriod, AnswersAreStored, Within

\* What is not to do with e.
LEMMA OthersAreListed ==
    ASSUME FinanceInv, FinanceTypeOK', NEW e \in ExpenseIds, NEW k \in ExpenseCalls, UNCHANGED listOf,
           expenseCalls[k].expense = e \/ k \notin lastSaves,
           \A q \in lastSaves \ {k} :
                \/ q \in lastSaves' /\ expenseCalls'[q].expense = expenseCalls[q].expense
                \/ expenseCalls[q].expense = e,
           \A x \in ExpenseIds \ {e} :
                /\ listed'[x] = listed[x] /\ expenses'[x] = expenses[x]
                /\ x \in misfiled' <=> x \in misfiled
                /\ x \in twice' <=> x \in twice
                /\ x \in strayed' <=> x \in strayed,
           NEW x \in ExpenseIds, x # e
    PROVE  /\ x \in misfiled' \cup twice' => listed'[x] # Unset
           /\ x \notin misfiled' /\ listed'[x] # Unset => listOf' # Unset /\ listed'[x] <= listOf'
           /\ listOf' # Unset /\ ListKnows(x)' =>
                /\ listed'[x] = IF x \in misfiled' THEN expenses'[x] ELSE Within(expenses', listOf')[x]
                /\ x \notin twice'
<1> USE DEF FinanceInv, FinanceTold
<1>1. ListKnows(x)' => ListKnows(x)
  BY DEF ListKnows
<1>2. Within(expenses', listOf')[x] = Within(expenses, listOf)[x]
  BY DEF Within
<1> QED BY <1>1, <1>2 DEF RowsAreListed, ListIsOfItsPeriod, ListIsStored

\* An expense is written.
LEMMA StoredStep ==
    ASSUME FinanceInv, FinanceTypeOK', NEW k \in ExpenseCalls, NEW e \in ExpenseIds, NEW row,
           Stored(k, e, row),
           row = IF expenseCalls[k].kind = "save" THEN expenseCalls[k].age ELSE Unset
    PROVE  FinanceTold'
<1> USE DEF FinanceInv, FinanceTold
<1>1. /\ expenses'[e] = row /\ \A x \in ExpenseIds \ {e} : expenses'[x] = expenses[x]
      /\ UNCHANGED <<choices, gets, listOf, listed, twice, misfiled, strayed>>
      /\ k \notin lastSaves
  BY DEF Stored, FinanceTypeOK, Ledger, screenGets, expenseList, SavesAreStored
<1>2. PICK call \in ExpenseSent : call = expenseCalls[k]
  BY ExpenseShape DEF Stored
<1>3. /\ expenseCalls'[k].at = "applied" /\ expenseCalls'[k].expense = e
      /\ expenseCalls'[k].kind = call.kind
      /\ call.kind = "save" => expenseCalls'[k].age = call.age
      /\ \A q \in ExpenseCalls \ {k} : expenseCalls'[q] = expenseCalls[q]
  <2>1. PICK stored : stored = [call EXCEPT !.at = "applied", !.expense = e]
    OBVIOUS
  <2>2. /\ stored.at = "applied" /\ stored.expense = e /\ stored.kind = call.kind
        /\ call.kind = "save" => stored.age = call.age
    BY <1>2, <2>1 DEF ExpenseSent
  <2>3. expenseCalls'[k] = stored /\ \A q \in ExpenseCalls \ {k} : expenseCalls'[q] = expenseCalls[q]
    BY <1>2, <2>1 DEF Stored, FinanceTypeOK
  <2> QED BY <2>2, <2>3
<1>4. AnswersAreOfTheirPeriod'
  BY <1>1 DEF AnswersAreOfTheirPeriod
<1>5. AnswersAreStored'
  <2> SUFFICES ASSUME NEW t \in 1..Len(gets), gets[t].at = "served", NEW x \in ExpenseIds, <<t, x>> \notin overtaken'
               PROVE  gets[t].rows[x] = Within(expenses', choices[t])[x]
    BY <1>1 DEF AnswersAreStored
  <2>1. x # e /\ <<t, x>> \notin overtaken
    BY DEF Stored
  <2>2. Within(expenses', choices[t])[x] = Within(expenses, choices[t])[x]
    BY <1>1, <2>1 DEF Within
  <2> QED BY <2>1, <2>2 DEF AnswersAreStored
<1>6. SavesAreStored'
  <2> SUFFICES ASSUME NEW q \in lastSaves'
               PROVE  /\ expenseCalls'[q].at = "applied"
                      /\ expenses'[expenseCalls'[q].expense] =
                            IF expenseCalls'[q].kind = "save" THEN expenseCalls'[q].age ELSE Unset
    BY DEF SavesAreStored
  <2>1. CASE q = k
    BY <1>1, <1>2, <1>3, <2>1
  <2>2. CASE q # k
    <3>1. q \in lastSaves /\ q \in ExpenseCalls /\ expenseCalls[q].expense # e
      BY <2>2 DEF Stored, FinanceTypeOK
    <3>2. expenseCalls[q].expense \in ExpenseIds
      BY <3>1 DEF SavesAreStored, FinanceTypeOK
    <3> QED BY <1>1, <1>3, <2>2, <3>1, <3>2 DEF SavesAreStored
  <2> QED BY <2>1, <2>2
<1>7. \A q \in lastSaves \ {k} :
            \/ q \in lastSaves' /\ expenseCalls'[q].expense = expenseCalls[q].expense
            \/ expenseCalls[q].expense = e
  BY <1>3 DEF Stored, FinanceTypeOK
<1>8. ASSUME NEW x \in ExpenseIds
      PROVE  /\ x \in misfiled' \cup twice' => listed'[x] # Unset
             /\ x \notin misfiled' /\ listed'[x] # Unset => listOf' # Unset /\ listed'[x] <= listOf'
             /\ listOf' # Unset /\ ListKnows(x)' =>
                    /\ listed'[x] = IF x \in misfiled' THEN expenses'[x] ELSE Within(expenses', listOf')[x]
                    /\ x \notin twice'
  <2>1. CASE x = e
    <3>1. ~ListKnows(x)'
      BY <1>3, <2>1 DEF ListKnows, Stored
    <3> QED BY <1>1, <2>1, <3>1 DEF RowsAreListed, ListIsOfItsPeriod
  <2>2. CASE x # e
    BY <1>1, <1>7, <2>2, OthersAreListed
  <2> QED BY <2>1, <2>2
<1>9. RowsAreListed' /\ ListIsOfItsPeriod' /\ ListIsStored'
  BY <1>8 DEF RowsAreListed, ListIsOfItsPeriod, ListIsStored, FinanceTypeOK
<1> QED BY <1>4, <1>5, <1>6, <1>9

\* An answer changes the list.
LEMMA AnsweredStep ==
    ASSUME FinanceInv, FinanceTypeOK', NEW k \in ExpenseCalls,
           ExpenseSaved(k) \/ ExpenseRemoved(k) \/ ExpenseFails(k)
    PROVE  FinanceTold'
<1> USE UnsetAssumption, PeriodsAssumption
<1> USE DEF FinanceInv, FinanceTold
<1>1. /\ lastSaves' = lastSaves \ {k} /\ UNCHANGED <<expenses, choices, gets, listOf, overtaken>>
      /\ \A q \in ExpenseCalls \ {k} : expenseCalls'[q] = expenseCalls[q]
  BY DEF ExpenseSaved, ExpenseRemoved, ExpenseFails, Answered, screenGets, FinanceTypeOK
<1>2. AnswersAreOfTheirPeriod' /\ AnswersAreStored'
  BY <1>1, CallsStep
<1>3. SavesAreStored'
  BY <1>1 DEF SavesAreStored, FinanceTypeOK
<1>4. \A q \in lastSaves \ {k} : q \in lastSaves' /\ expenseCalls'[q].expense = expenseCalls[q].expense
  BY <1>1 DEF FinanceTypeOK
<1>5. k \in lastSaves =>
        /\ expenseCalls[k].at = "applied" /\ expenseCalls[k].expense \in ExpenseIds
        /\ expenses[expenseCalls[k].expense] =
                IF expenseCalls[k].kind = "save" THEN expenseCalls[k].age ELSE Unset
  BY DEF SavesAreStored, FinanceTypeOK
<1>6. CASE ExpenseFails(k) /\ k \notin lastSaves
  BY <1>1, <1>2, <1>3, <1>4, <1>6 DEF ExpenseFails, RowsAreListed, ListIsOfItsPeriod, ListIsStored, ListKnows
<1>7. CASE ~(ExpenseFails(k) /\ k \notin lastSaves)
  <2>1. PICK e \in ExpenseIds : e = expenseCalls[k].expense
    BY <1>5, <1>7 DEF ExpenseSaved, ExpenseRemoved, FinanceTypeOK
  <2>2. \A x \in ExpenseIds \ {e} :
            /\ listed'[x] = listed[x]
            /\ x \in misfiled' <=> x \in misfiled
            /\ x \in twice' <=> x \in twice
            /\ x \in strayed' <=> x \in strayed
    BY <2>1 DEF ExpenseSaved, ExpenseRemoved, ExpenseFails, FinanceTypeOK, Ledger
  <2>3. /\ e \in misfiled' \cup twice' => listed'[e] # Unset
        /\ e \notin misfiled' /\ listed'[e] # Unset => listOf # Unset /\ listed'[e] <= listOf
        /\ listOf # Unset /\ ListKnows(e)' =>
                /\ listed'[e] = IF e \in misfiled' THEN expenses[e] ELSE Within(expenses, listOf)[e]
                /\ e \notin twice'
    <3>1. CASE ExpenseSaved(k)
      <4>1. PICK row \in Ages : row = expenseCalls[k].age
        BY <3>1, ExpenseShape DEF ExpenseSaved
      <4>2. row # Unset
        OBVIOUS
      <4>3. CASE Placed(k)
        <5>1. /\ listed'[e] = row
              /\ e \in misfiled' <=> ~InListsPeriod(row)
              /\ e \notin strayed' => k \in lastSaves /\ e \notin twice'
          BY <2>1, <3>1, <4>1, <4>3 DEF ExpenseSaved, FinanceTypeOK, Ledger
        <5>2. k \in lastSaves => expenses[e] = row
          BY <1>5, <2>1, <3>1, <4>1 DEF ExpenseSaved
        <5>3. InListsPeriod(row) /\ expenses[e] = row => Within(expenses, listOf)[e] = row
          BY <4>2 DEF InListsPeriod, Within
        <5> QED BY <4>2, <5>1, <5>2, <5>3 DEF InListsPeriod, ListKnows
      <4>4. CASE ~Placed(k)
        <5>1. /\ listed[e] = Unset /\ listed' = listed /\ e \notin misfiled' /\ e \notin twice'
          BY <2>1, <3>1, <4>4 DEF ExpenseSaved, Placed, RowsAreListed
        <5>2. ASSUME listOf # Unset, ListKnows(e)' PROVE Within(expenses, listOf)[e] = Unset
          <6>1. e \notin strayed' /\ e \notin strayed
            BY <2>1, <3>1, <4>4, <5>2 DEF ExpenseSaved, ListKnows
          <6>2. CASE k \in lastSaves
            <7>1. ~InListsPeriod(row)
              BY <2>1, <3>1, <4>1, <4>4, <6>1, <6>2 DEF ExpenseSaved
            <7>2. expenses[e] = row
              BY <1>5, <2>1, <3>1, <4>1, <6>2 DEF ExpenseSaved
            <7> QED BY <5>2, <7>1, <7>2 DEF InListsPeriod, Within
          <6>3. CASE k \notin lastSaves
            <7>1. ListKnows(e)
              BY <1>4, <5>2, <6>1, <6>3 DEF ListKnows
            <7> QED BY <5>1, <5>2, <6>1, <7>1 DEF ListIsStored, RowsAreListed
          <6> QED BY <6>2, <6>3
        <5> QED BY <5>1, <5>2
      <4> QED BY <4>3, <4>4
    <3>2. CASE ExpenseRemoved(k)
      <4>1. /\ listed'[e] = Unset /\ e \notin misfiled' /\ e \notin twice'
            /\ e \notin strayed' => k \in lastSaves
        BY <2>1, <3>2 DEF ExpenseRemoved, FinanceTypeOK, Ledger
      <4>2. k \in lastSaves => expenses[e] = Unset
        BY <1>5, <2>1, <3>2 DEF ExpenseRemoved
      <4> QED BY <4>1, <4>2 DEF ListKnows, Within
    <3>3. CASE ExpenseFails(k)
      <4>1. e \in strayed' /\ UNCHANGED <<listed, misfiled, twice>>
        BY <1>7, <2>1, <3>3 DEF ExpenseFails
      <4> QED BY <4>1 DEF ListKnows, RowsAreListed, ListIsOfItsPeriod
    <3> QED BY <3>1, <3>2, <3>3
  <2>4. ASSUME NEW x \in ExpenseIds, x # e
        PROVE  /\ x \in misfiled' \cup twice' => listed'[x] # Unset
               /\ x \notin misfiled' /\ listed'[x] # Unset => listOf' # Unset /\ listed'[x] <= listOf'
               /\ listOf' # Unset /\ ListKnows(x)' =>
                    /\ listed'[x] = IF x \in misfiled' THEN expenses'[x] ELSE Within(expenses', listOf')[x]
                    /\ x \notin twice'
    BY <1>1, <1>4, <2>1, <2>2, <2>4, OthersAreListed
  <2>5. RowsAreListed' /\ ListIsOfItsPeriod' /\ ListIsStored'
    BY <1>1, <2>3, <2>4 DEF RowsAreListed, ListIsOfItsPeriod, ListIsStored, FinanceTypeOK
  <2> QED BY <1>2, <1>3, <2>5
<1> QED BY <1>6, <1>7

\* A list arrives, or does not.
LEMMA ArrivesStep ==
    ASSUME FinanceInv, FinanceTypeOK', NEW t \in 1..Len(choices), ListArrives(t) \/ ListFails(t)
    PROVE  FinanceTold'
<1> USE UnsetAssumption, PeriodsAssumption
<1> USE DEF FinanceInv, FinanceTold
<1>1. /\ t \in 1..Len(gets) /\ choices[t] \in Periods /\ GetOver(t)
      /\ UNCHANGED <<expenses, choices, expenseCalls, lastSaves>>
  BY ThePeriod DEF FinanceTypeOK, ListArrives, ListFails, GetOver
<1>2. /\ Len(gets') = Len(gets) /\ gets'[t].at = "over"
      /\ \A u \in 1..Len(gets) \ {t} : gets'[u] = gets[u]
  BY <1>1, OneGet DEF GetOver, Gets
<1>3. \A u \in 1..Len(gets) \ {t}, e \in ExpenseIds : <<u, e>> \in overtaken => <<u, e>> \in overtaken'
  BY <1>1 DEF GetOver
<1>4. AnswersAreOfTheirPeriod' /\ AnswersAreStored'
  BY <1>1, <1>2, <1>3 DEF AnswersAreOfTheirPeriod, AnswersAreStored
<1>5. CASE ListFails(t)
  BY <1>1, <1>4, <1>5, GetsStep DEF ListFails
<1>6. CASE ListArrives(t)
  <2>1. SavesAreStored' /\ RowsAreListed'
    BY <1>1, <1>6 DEF ListArrives, SavesAreStored, RowsAreListed
  <2>2. ListIsOfItsPeriod'
    BY <1>1, <1>6 DEF ListArrives, AnswersAreOfTheirPeriod, ListIsOfItsPeriod
  <2>3. ListIsStored'
    BY <1>1, <1>6 DEF ListArrives, AnswersAreStored, ListIsStored, ListKnows
  <2> QED BY <1>4, <2>1, <2>2, <2>3
<1> QED BY <1>5, <1>6

\* A period is chosen, or the GET of one served.
LEMMA AskedStep ==
    ASSUME FinanceInv, FinanceTypeOK',
           (\E p \in Periods : ChoosePeriod(p)) \/ (\E t \in 1..Len(choices) : ServeList(t))
    PROVE  FinanceTold'
<1> USE UnsetAssumption, PeriodsAssumption
<1> USE DEF FinanceInv, FinanceTold
<1>1. SavesAreStored' /\ RowsAreListed' /\ ListIsOfItsPeriod' /\ ListIsStored'
  BY GetsStep DEF ChoosePeriod, ServeList
<1>2. ASSUME NEW p \in Periods, ChoosePeriod(p) PROVE AnswersAreOfTheirPeriod' /\ AnswersAreStored'
  <2>1. /\ Len(gets') = Len(gets) + 1
        /\ \A t \in 1..Len(gets) : gets'[t] = gets[t] /\ choices'[t] = choices[t]
        /\ gets'[Len(gets) + 1].at = "sent"
        /\ UNCHANGED <<expenses, overtaken>>
    BY <1>2 DEF ChoosePeriod, FinanceTypeOK, GetSent
  <2>2. \A t \in 1..Len(gets') : gets'[t].at = "served" => t \in 1..Len(gets)
    BY <2>1 DEF FinanceTypeOK
  <2> QED BY <2>1, <2>2 DEF AnswersAreOfTheirPeriod, AnswersAreStored
<1>3. ASSUME NEW t \in 1..Len(choices), ServeList(t) PROVE AnswersAreOfTheirPeriod' /\ AnswersAreStored'
  <2>1. t \in 1..Len(gets) /\ choices[t] \in Periods /\ UNCHANGED <<expenses, choices, overtaken>>
    BY <1>3, ThePeriod DEF FinanceTypeOK, ServeList
  <2>2. PICK answer : answer = [at |-> "served", rows |-> Within(expenses, choices[t])]
    OBVIOUS
  <2>3. answer \in Gets /\ \A e \in ExpenseIds : answer.rows[e] # Unset => answer.rows[e] <= choices[t]
    BY <2>1, <2>2, WithinTypes DEF Gets, FinanceTypeOK
  <2>4. /\ Len(gets') = Len(gets) /\ gets'[t] = answer
        /\ \A u \in 1..Len(gets) \ {t} : gets'[u] = gets[u]
    BY <1>3, <2>1, <2>2, <2>3, OneGet DEF ServeList
  <2>5. AnswersAreOfTheirPeriod'
    BY <2>1, <2>3, <2>4 DEF AnswersAreOfTheirPeriod
  <2>6. AnswersAreStored'
    BY <2>1, <2>2, <2>4 DEF AnswersAreStored
  <2> QED BY <2>5, <2>6
<1> QED BY <1>1, <1>2, <1>3

LEMMA FinanceStep == FinanceInv /\ [FinanceNext]_financeVars => FinanceInv'
<1> SUFFICES ASSUME FinanceInv, [FinanceNext]_financeVars PROVE FinanceInv'
  OBVIOUS
<1> USE DEF FinanceInv
<1>1. ASSUME UNCHANGED <<expenses, screenGets, expenseList, expenseCalls, lastSaves, overtaken>>
      PROVE  FinanceTold'
  BY <1>1 DEF screenGets, expenseList, FinanceTold, AnswersAreOfTheirPeriod, AnswersAreStored, SavesAreStored,
              RowsAreListed, ListIsOfItsPeriod, ListIsStored, ListKnows, Within
<1>2. CASE UNCHANGED financeVars
  <2>1. FinanceTypeOK'
    BY <1>2 DEF financeVars, screenGets, expenseList, FinanceTypeOK
  <2> QED BY <1>1, <1>2, <2>1 DEF financeVars
<1>3. CASE FinanceNext
  <2>1. FinanceTypeOK'
    BY <1>3, FinanceTypesStep
  <2>2. CASE AddExpense \/ ResetForm \/ (\E a \in Ages : SetDate(a)) \/ \E e \in ExpenseIds : StartEdit(e)
    BY <1>1, <2>1, <2>2 DEF AddExpense, ResetForm, SetDate, StartEdit, Editor
  <2>3. CASE (\E p \in Periods : ChoosePeriod(p)) \/ \E t \in 1..Len(choices) : ServeList(t)
    BY <2>1, <2>3, AskedStep
  <2>4. ASSUME NEW t \in 1..Len(choices), ListArrives(t) \/ ListFails(t) PROVE FinanceTold'
    BY <2>1, <2>4, ArrivesStep
  <2>5. ASSUME NEW k \in ExpenseCalls, NEW call, CallExpenses(k, call) PROVE FinanceTold'
    <3>1. k \notin lastSaves
      BY <2>5 DEF CallExpenses, FinanceTold, SavesAreStored
    <3>2. /\ \A q \in lastSaves : expenseCalls'[q] = expenseCalls[q]
          /\ UNCHANGED <<expenses, screenGets, expenseList, lastSaves, overtaken>>
      BY <2>5, <3>1 DEF CallExpenses, FinanceTypeOK
    <3> QED BY <3>2 DEF screenGets, expenseList, FinanceTold, AnswersAreOfTheirPeriod, AnswersAreStored,
                        SavesAreStored, RowsAreListed, ListIsOfItsPeriod, ListIsStored, ListKnows, Within
  <2>6. ASSUME NEW k \in ExpenseCalls, SaveExpense(k) \/ \E e \in ExpenseIds : RemoveExpense(k, e)
        PROVE  FinanceTold'
    BY <2>5, <2>6 DEF SaveExpense, RemoveExpense
  <2>7. ASSUME NEW k \in ExpenseCalls, NEW e \in ExpenseIds, CreateExpense(k, e) PROVE FinanceTold'
    <3>1. expenseCalls[k].kind = "save"
      BY <2>7, ExpenseShape DEF CreateExpense, ExpenseSent
    <3> QED BY <2>1, <2>7, <3>1, StoredStep DEF CreateExpense
  <2>8. ASSUME NEW k \in ExpenseCalls, ChangeExpense(k) PROVE FinanceTold'
    <3>1. expenseCalls[k].expense \in ExpenseIds
      BY <2>8 DEF ChangeExpense, FinanceTypeOK
    <3> QED BY <2>1, <2>8, <3>1, StoredStep DEF ChangeExpense
  <2>9. ASSUME NEW k \in ExpenseCalls, ExpenseSaved(k) \/ ExpenseRemoved(k) \/ ExpenseFails(k)
        PROVE  FinanceTold'
    BY <2>1, <2>9, AnsweredStep
  <2> QED BY <1>3, <2>1, <2>2, <2>3, <2>4, <2>6, <2>7, <2>8, <2>9 DEF FinanceNext
<1> QED BY <1>2, <1>3

LEMMA FinanceInitial == FinanceInit => FinanceInv
<1> SUFFICES ASSUME FinanceInit PROVE FinanceInv
  OBVIOUS
<1>1. PICK p \in Periods : choices = <<p>>
  BY DEF FinanceInit
<1>2. gets = <<GetSent>> /\ Len(gets) = 1 /\ Len(choices) = 1 /\ gets[1].at = "sent"
  BY <1>1 DEF FinanceInit, GetSent
<1>3. choices \in Seq(Periods) /\ gets \in Seq(Gets)
  BY <1>1, <1>2 DEF GetSent, Gets
<1>4. FinanceTypeOK
  BY <1>2, <1>3 DEF FinanceInit, FinanceTypeOK, Ledger, NoneListed, NoCalls, Editors
<1>5. FinanceTold
  BY <1>2 DEF FinanceInit, FinanceTold, AnswersAreOfTheirPeriod, AnswersAreStored, SavesAreStored, RowsAreListed,
              ListIsOfItsPeriod, ListIsStored, NoneListed
<1> QED BY <1>4, <1>5 DEF FinanceInv

\* What the finance screen keeps and shows has its type, in every behaviour of it.
THEOREM FinanceTypes == FinanceSpec => []FinanceTypeOK
<1>1. FinanceInv => FinanceTypeOK
  BY DEF FinanceInv
<1> QED BY <1>1, FinanceInitial, FinanceStep, PTL DEF FinanceSpec

\* The expenses added up are all those of the period whose list came last, as they are stored,
\* but for those the screen put there with a date outside it and those of which the list was
\* overtaken (ListIsOfOnePeriod).
THEOREM TheListIsOfOnePeriod == FinanceSpec => []ListIsOfOnePeriod
<1>1. FinanceInv => ListIsOfOnePeriod
  BY DEF FinanceInv, FinanceTold, ListIsOfItsPeriod, ListIsStored, ListIsOfOnePeriod
<1> QED BY <1>1, FinanceInitial, FinanceStep, PTL DEF FinanceSpec

-----------------------------------------------------------------------------
(* The settings of the store. *)

\* The PATCHes that ask for isOpen and have read, and those that have written, not logged.
Deciders == {k \in Patches : patches[k].at \in Deciding /\ Asks(k)}
Unlogged == {k \in Deciders : patches[k].at # "read"}

\* The log: of PATCHes that do not cross at most one decides, and what it read is what
\* the log says.
LogIsKept ==
    ~clashed =>
        /\ \A k, q \in Deciders : k = q
        /\ Unlogged = {} => told = isOpen
        /\ \A k \in Deciders : patches[k].was = told

\* What a PATCH has written is what it asked for, and is the row until another writes.
WrittenAsAsked ==
    /\ \A k \in Patches : patches[k].at \in Applied /\ Asks(k) => patches[k].row = patches[k].dto
    /\ ~clashed => \A k \in Unlogged : patches[k].row = isOpen

\* The component mounted has one call at most, shows what it asks for, and waits.
Live == {k \in Patches : patches[k] # Idle /\ patches[k].live}

LiveCallIsShown ==
    /\ \A k, q \in Live : k = q
    /\ \A k \in Live :
        /\ patches[k].mine /\ screen.busy
        /\ screen.name = "switch" <=> Asks(k)
        /\ Asks(k) => screen.isOpen = patches[k].dto

\* The panel: what it does not know is what the PATCH of its component is about to tell it.
Unheard == {k \in Patches : patches[k].at \in Applied}

PanelKnows ==
    ~misled =>
        /\ \A k \in Patches : patches[k] # Idle /\ patches[k].mine => patches[k].live
        /\ \A k \in Unheard : patches[k].mine
        /\ Unheard = {} => /\ mock = isOpen
                           /\ \A k \in Live : Asks(k) => patches[k].dto # isOpen
        /\ screen.name = "switch" /\ Live = {} => screen.isOpen = isOpen

\* The public page: a past that no deletion has been told of has one coming.
Coming == \E k \in Patches : patches[k].at = "updated"

PageIsCleared ==
    /\ branding # Unsaid => branding.row = isOpen \/ branding.late \/ Coming
    /\ \A r \in Readers : readers[r].at = "read" =>
            readers[r].row = isOpen \/ readers[r].late \/ Coming

StoreInv ==
    /\ StoreTypeOK
    /\ LogIsKept /\ WrittenAsAsked
    /\ LiveCallIsShown /\ PanelKnows
    /\ PageIsCleared

-----------------------------------------------------------------------------
\* What a slot can be.
LEMMA PatchShape ==
    ASSUME StoreTypeOK, NEW k \in Patches
    PROVE  /\ patches[k] = Idle <=> patches[k].at = "idle"
           /\ patches[k] # Idle => patches[k] \in PatchesUnderWay
           /\ patches[k].at \in {"idle", "sent"} \cup Deciding \cup Applied
  BY DEF StoreTypeOK, PatchesUnderWay, Idle, Deciding, Applied

LEMMA ReaderShape ==
    ASSUME StoreTypeOK, NEW r \in Readers
    PROVE  /\ readers[r] = Idle <=> readers[r].at = "idle"
           /\ readers[r].at = "read" => readers[r] \in [at : {"read"}, row : BOOLEAN, late : BOOLEAN]
           /\ readers[r].at \in {"idle", "missed", "read"}
  BY DEF StoreTypeOK, Misses, Idle

LEMMA LateTypes ==
    ASSUME StoreTypeOK
    PROVE  Late \in [Readers -> Misses \cup {Idle}]
<1> SUFFICES ASSUME NEW r \in Readers
             PROVE  (IF readers[r].at = "read" THEN [readers[r] EXCEPT !.late = TRUE] ELSE readers[r])
                        \in Misses \cup {Idle}
  BY DEF Late
<1> QED BY ReaderShape DEF StoreTypeOK, Misses

\* One PATCH moves on, and stays one.
LEMMA OnePatch ==
    ASSUME StoreTypeOK, NEW k \in Patches, NEW patch \in PatchesUnderWay \cup {Idle},
           patches' = [patches EXCEPT ![k] = patch],
           patch.at \in Deciding \cup Applied => patch.was \in BOOLEAN,
           patch.at \in Applied => patch.row \in BOOLEAN
    PROVE  /\ patches' \in [Patches -> PatchesUnderWay \cup {Idle}]
           /\ \A q \in Patches : /\ patches'[q].at \in Deciding \cup Applied => patches'[q].was \in BOOLEAN
                                 /\ patches'[q].at \in Applied => patches'[q].row \in BOOLEAN
  BY DEF StoreTypeOK

LEMMA StoreTypesStep == ASSUME StoreTypeOK, StoreNext PROVE StoreTypeOK'
<1> USE UnsaidAssumption
<1>1. ASSUME Boot PROVE StoreTypeOK'
  <2>1. ASSUME NEW q \in Patches
        PROVE  /\ patches'[q] \in PatchesUnderWay \cup {Idle}
               /\ patches'[q].at = patches[q].at
               /\ patches[q] # Idle => /\ patches'[q].was = patches[q].was
                                       /\ patches'[q].row = patches[q].row
    BY <1>1, PatchShape DEF Boot, PatchesUnderWay
  <2>2. patches' \in [Patches -> PatchesUnderWay \cup {Idle}]
    <3>1. DOMAIN patches' = Patches /\ patches' = [q \in Patches |-> patches'[q]]
      BY <1>1 DEF Boot
    <3> QED BY <2>1, <3>1
  <2>3. ASSUME NEW q \in Patches
        PROVE  /\ patches'[q].at \in Deciding \cup Applied => patches'[q].was \in BOOLEAN
               /\ patches'[q].at \in Applied => patches'[q].row \in BOOLEAN
    BY <2>1, PatchShape DEF StoreTypeOK, Deciding, Applied
  <2>4. screen' \in Screens
    BY <1>1 DEF Boot, StoreTypeOK, Screens
  <2>5. misled' \in BOOLEAN
    BY <1>1 DEF Boot
  <2> QED BY <1>1, <2>2, <2>3, <2>4, <2>5 DEF Boot, StoreTypeOK, server
<1>2. ASSUME BrandingExpires PROVE StoreTypeOK'
  BY <1>2 DEF BrandingExpires, StoreTypeOK, panel
<1>3. ASSUME NEW name \in {"switch", "settings"}, GoTo(name) PROVE StoreTypeOK'
  <2>1. ASSUME NEW q \in Patches
        PROVE  /\ patches'[q] \in PatchesUnderWay \cup {Idle}
               /\ patches'[q].at = patches[q].at
               /\ patches[q] # Idle => /\ patches'[q].was = patches[q].was
                                       /\ patches'[q].row = patches[q].row
    BY <1>3, PatchShape DEF GoTo, PatchesUnderWay
  <2>2. patches' \in [Patches -> PatchesUnderWay \cup {Idle}]
    <3>1. DOMAIN patches' = Patches /\ patches' = [q \in Patches |-> patches'[q]]
      BY <1>3 DEF GoTo
    <3> QED BY <2>1, <3>1
  <2>3. ASSUME NEW q \in Patches
        PROVE  /\ patches'[q].at \in Deciding \cup Applied => patches'[q].was \in BOOLEAN
               /\ patches'[q].at \in Applied => patches'[q].row \in BOOLEAN
    BY <2>1, PatchShape DEF StoreTypeOK, Deciding, Applied
  <2>4. screen' \in Screens
    BY <1>3 DEF GoTo, Mounted, StoreTypeOK, Screens
  <2>5. misled' \in BOOLEAN
    BY <1>3 DEF GoTo, StoreTypeOK
  <2> QED BY <1>3, <2>2, <2>3, <2>4, <2>5 DEF GoTo, StoreTypeOK, server
<1>4. ASSUME NEW k \in Patches, Toggle(k) PROVE StoreTypeOK'
  <2>1. /\ screen \in [name : {"switch"}, isOpen : BOOLEAN, busy : BOOLEAN]
        /\ Asking(~screen.isOpen, TRUE) \in PatchesUnderWay
        /\ Asking(~screen.isOpen, TRUE).at = "sent"
    BY <1>4 DEF Toggle, StoreTypeOK, Screens, Asking, PatchesUnderWay, Said
  <2>2. /\ patches' \in [Patches -> PatchesUnderWay \cup {Idle}]
        /\ \A q \in Patches : /\ patches'[q].at \in Deciding \cup Applied => patches'[q].was \in BOOLEAN
                              /\ patches'[q].at \in Applied => patches'[q].row \in BOOLEAN
    BY <1>4, <2>1, OnePatch DEF Toggle, SendPatch, Deciding, Applied
  <2>3. screen' \in Screens
    BY <1>4, <2>1 DEF Toggle, Screens
  <2> QED BY <1>4, <2>2, <2>3 DEF Toggle, SendPatch, StoreTypeOK, server
<1>5. ASSUME NEW k \in Patches, SaveSettings(k) PROVE StoreTypeOK'
  <2>1. /\ Asking(Unsaid, TRUE) \in PatchesUnderWay
        /\ Asking(Unsaid, TRUE).at = "sent"
    BY DEF Asking, PatchesUnderWay, Said
  <2>2. /\ patches' \in [Patches -> PatchesUnderWay \cup {Idle}]
        /\ \A q \in Patches : /\ patches'[q].at \in Deciding \cup Applied => patches'[q].was \in BOOLEAN
                              /\ patches'[q].at \in Applied => patches'[q].row \in BOOLEAN
    BY <1>5, <2>1, OnePatch DEF SaveSettings, SendPatch, Deciding, Applied
  <2>3. screen' \in Screens
    BY <1>5 DEF SaveSettings, StoreTypeOK, Screens
  <2> QED BY <1>5, <2>2, <2>3 DEF SaveSettings, SendPatch, StoreTypeOK, server
<1>6. ASSUME NEW k \in Patches, NEW on \in BOOLEAN, OtherToggle(k, on) PROVE StoreTypeOK'
  <2>1. /\ Asking(on, FALSE) \in PatchesUnderWay
        /\ Asking(on, FALSE).at = "sent"
    BY DEF Asking, PatchesUnderWay, Said
  <2>2. /\ patches' \in [Patches -> PatchesUnderWay \cup {Idle}]
        /\ \A q \in Patches : /\ patches'[q].at \in Deciding \cup Applied => patches'[q].was \in BOOLEAN
                              /\ patches'[q].at \in Applied => patches'[q].row \in BOOLEAN
    BY <1>6, <2>1, OnePatch DEF OtherToggle, Deciding, Applied
  <2> QED BY <1>6, <2>2 DEF OtherToggle, StoreTypeOK, server, panel
<1>7. ASSUME NEW k \in Patches, ReadOwn(k) PROVE StoreTypeOK'
  <2> DEFINE patch == [patches[k] EXCEPT !.at = "read", !.was = isOpen]
  <2>1. /\ patch \in PatchesUnderWay /\ patch.at = "read" /\ patch.was \in BOOLEAN
        /\ patches' = [patches EXCEPT ![k] = patch]
    BY <1>7, PatchShape DEF ReadOwn, StoreTypeOK, PatchesUnderWay, Deciding, Said
  <2> HIDE DEF patch
  <2>2. /\ patches' \in [Patches -> PatchesUnderWay \cup {Idle}]
        /\ \A q \in Patches : /\ patches'[q].at \in Deciding \cup Applied => patches'[q].was \in BOOLEAN
                              /\ patches'[q].at \in Applied => patches'[q].row \in BOOLEAN
    BY <2>1, OnePatch DEF Applied
  <2> QED BY <1>7, <2>2 DEF ReadOwn, StoreTypeOK, panel
<1>8. ASSUME NEW k \in Patches, UpdateMe(k) PROVE StoreTypeOK'
  <2> DEFINE row   == IF Asks(k) THEN patches[k].dto ELSE isOpen
             patch == [patches[k] EXCEPT !.at = "updated", !.row = row]
  <2>1. row \in BOOLEAN
    BY <1>8, PatchShape DEF UpdateMe, Asks, StoreTypeOK, PatchesUnderWay, Said
  <2>2. /\ patch \in PatchesUnderWay /\ patch.at = "updated" /\ patch.row \in BOOLEAN
        /\ patch.was \in BOOLEAN
        /\ patches' = [patches EXCEPT ![k] = patch]
    BY <1>8, <2>1, PatchShape DEF UpdateMe, StoreTypeOK, PatchesUnderWay, Deciding, Said
  <2> HIDE DEF patch
  <2>3. /\ patches' \in [Patches -> PatchesUnderWay \cup {Idle}]
        /\ \A q \in Patches : /\ patches'[q].at \in Deciding \cup Applied => patches'[q].was \in BOOLEAN
                              /\ patches'[q].at \in Applied => patches'[q].row \in BOOLEAN
    BY <2>2, OnePatch
  <2> QED BY <1>8, <2>1, <2>3 DEF UpdateMe, StoreTypeOK, panel
<1>9. ASSUME NEW k \in Patches, DeleteBranding(k) PROVE StoreTypeOK'
  BY <1>9, PatchShape, LateTypes DEF DeleteBranding, StoreTypeOK, PatchesUnderWay, Deciding, Applied, panel
<1>10. ASSUME NEW k \in Patches, LogStore(k) PROVE StoreTypeOK'
  BY <1>10, PatchShape DEF LogStore, StoreTypeOK, PatchesUnderWay, Deciding, Applied, panel
<1>11. ASSUME NEW k \in Patches, StoreAnswered(k) PROVE StoreTypeOK'
  BY <1>11, PatchShape DEF StoreAnswered, Free, StoreTypeOK, PatchesUnderWay, Deciding, Applied, Idle, Screens, server
<1>12. ASSUME NEW k \in Patches, StoreFails(k) PROVE StoreTypeOK'
  BY <1>12, PatchShape, LateTypes DEF StoreFails, Free, Reverted, StoreTypeOK, PatchesUnderWay, Deciding,
     Applied, Idle, Screens, Entries
<1>13. ASSUME NEW r \in Readers, Missed(r) \/ ReadBranding(r) \/ FillBranding(r) PROVE StoreTypeOK'
  <2>1. CASE Missed(r)
    BY <2>1 DEF Missed, StoreTypeOK, Misses, panel
  <2>2. CASE ReadBranding(r)
    BY <2>2 DEF ReadBranding, StoreTypeOK, Misses, panel
  <2>3. CASE FillBranding(r)
    BY <2>3, ReaderShape DEF FillBranding, StoreTypeOK, Entries, panel
  <2> QED BY <1>13, <2>1, <2>2, <2>3
<1> QED BY <1>1, <1>2, <1>3, <1>4, <1>5, <1>6, <1>7, <1>8, <1>9, <1>10, <1>11, <1>12, <1>13 DEF StoreNext

-----------------------------------------------------------------------------
\* What PATCHes that have not read do, and those that have logged, the log does not see.
LEMMA LogUntouched ==
    ASSUME LogIsKept, WrittenAsAsked, UNCHANGED <<isOpen, told, clashed>>,
           \A q \in Patches :
                \/ patches[q].at \notin Deciding /\ patches'[q].at \notin Deciding \cup Applied
                \/ /\ patches'[q].at = patches[q].at /\ patches'[q].dto = patches[q].dto
                   /\ patches'[q].was = patches[q].was /\ patches'[q].row = patches[q].row
    PROVE  LogIsKept' /\ WrittenAsAsked'
<1>1. Deciders' = Deciders /\ Unlogged' = Unlogged
  BY DEF Deciders, Unlogged, Asks, Deciding
<1>2. \A k \in Deciders : patches'[k].was = patches[k].was /\ patches'[k].row = patches[k].row
  BY DEF Deciders, Deciding
<1>3. LogIsKept'
  BY <1>1, <1>2 DEF LogIsKept
<1>4. ASSUME NEW k \in Patches, patches'[k].at \in Applied, Asks(k)'
      PROVE  patches'[k].row = patches'[k].dto
  BY <1>4 DEF WrittenAsAsked, Asks
<1> QED BY <1>1, <1>2, <1>3, <1>4 DEF WrittenAsAsked, Unlogged

LEMMA LogStep == ASSUME StoreInv, StoreTypeOK', StoreNext PROVE LogIsKept' /\ WrittenAsAsked'
<1> USE DEF StoreInv
<1>1. CASE Boot
  BY <1>1, PatchShape, LogUntouched DEF Boot, server, PatchesUnderWay, Idle, Deciding, Applied
<1>2. CASE BrandingExpires
  BY <1>2, LogUntouched DEF BrandingExpires
<1>3. ASSUME NEW name \in {"switch", "settings"}, GoTo(name) PROVE LogIsKept' /\ WrittenAsAsked'
  BY <1>3, PatchShape, LogUntouched DEF GoTo, server, PatchesUnderWay, Idle, Deciding, Applied
<1>4. ASSUME NEW k \in Patches, NEW dto, NEW mine, patches[k] = Idle, UNCHANGED <<isOpen, told, clashed>>,
             patches' = [patches EXCEPT ![k] = Asking(dto, mine)]
      PROVE  LogIsKept' /\ WrittenAsAsked'
  BY <1>4, PatchShape, LogUntouched DEF StoreTypeOK, Asking, Idle, Deciding, Applied
<1>5. ASSUME NEW k \in Patches, Toggle(k) PROVE LogIsKept' /\ WrittenAsAsked'
  BY <1>4, <1>5 DEF Toggle, SendPatch, server
<1>6. ASSUME NEW k \in Patches, SaveSettings(k) PROVE LogIsKept' /\ WrittenAsAsked'
  BY <1>4, <1>6 DEF SaveSettings, SendPatch, server
<1>7. ASSUME NEW k \in Patches, NEW on \in BOOLEAN, OtherToggle(k, on) PROVE LogIsKept' /\ WrittenAsAsked'
  BY <1>4, <1>7 DEF OtherToggle, server
<1>8. ASSUME NEW k \in Patches, ReadOwn(k) PROVE LogIsKept' /\ WrittenAsAsked'
  <2>1. /\ patches'[k].at = "read" /\ patches'[k].was = isOpen /\ patches'[k].dto = patches[k].dto
        /\ \A q \in Patches \ {k} : patches'[q] = patches[q]
    BY <1>8, PatchShape DEF ReadOwn, StoreTypeOK, PatchesUnderWay, Idle
  <2>2. /\ Deciders' = Deciders \cup (IF Asks(k) THEN {k} ELSE {})
        /\ Unlogged' = Unlogged /\ k \notin Deciders
    BY <2>1, <1>8 DEF Deciders, Unlogged, Asks, Deciding, ReadOwn
  <2>3. ~clashed' => ~clashed /\ (Asks(k) => Deciders = {})
    BY <1>8, <2>2 DEF ReadOwn, Others, Deciders
  <2>4. UNCHANGED <<isOpen, told>>
    BY <1>8 DEF ReadOwn
  <2>5. LogIsKept'
    <3> SUFFICES ASSUME ~clashed' PROVE /\ \A j, q \in Deciders' : j = q
                                        /\ Unlogged = {} => told = isOpen
                                        /\ \A j \in Deciders' : patches'[j].was = told
      BY <2>2, <2>4 DEF LogIsKept
    <3>1. CASE Asks(k)
      <4>1. Deciders' = {k} /\ Unlogged = {}
        BY <3>1, <2>2, <2>3 DEF Unlogged
      <4> QED BY <4>1, <2>1, <2>3 DEF LogIsKept
    <3>2. CASE ~Asks(k)
      BY <3>2, <2>1, <2>2, <2>3 DEF LogIsKept, Deciders
    <3> QED BY <3>1, <3>2
  <2>6. ASSUME NEW q \in Patches, patches'[q].at \in Applied, Asks(q)' PROVE patches'[q].row = patches'[q].dto
    BY <2>1, <2>6 DEF WrittenAsAsked, Asks, Applied
  <2>7. \A q \in Unlogged' : q # k /\ patches'[q].row = patches[q].row
    BY <2>1, <2>2 DEF Unlogged, Deciders
  <2> QED BY <2>2, <2>3, <2>4, <2>5, <2>6, <2>7 DEF WrittenAsAsked
<1>9. ASSUME NEW k \in Patches, UpdateMe(k) PROVE LogIsKept' /\ WrittenAsAsked'
  <2>1. /\ patches'[k].at = "updated" /\ patches'[k].was = patches[k].was
        /\ patches'[k].dto = patches[k].dto /\ patches'[k].row = isOpen'
        /\ isOpen' = IF Asks(k) THEN patches[k].dto ELSE isOpen
        /\ \A q \in Patches \ {k} : patches'[q] = patches[q]
        /\ UNCHANGED <<told, clashed>>
    BY <1>9, PatchShape DEF UpdateMe, StoreTypeOK, PatchesUnderWay, Idle
  <2>2. /\ Deciders' = Deciders
        /\ Unlogged' = Unlogged \cup (IF Asks(k) THEN {k} ELSE {})
        /\ Asks(k) => k \in Deciders
    BY <2>1, <1>9 DEF Deciders, Unlogged, Asks, Deciding, UpdateMe
  <2>3. \A q \in Deciders : patches'[q].was = patches[q].was
    BY <2>1 DEF Deciders
  <2>4. LogIsKept'
    BY <2>1, <2>2, <2>3 DEF LogIsKept
  <2>5. ASSUME NEW q \in Patches, patches'[q].at \in Applied, Asks(q)' PROVE patches'[q].row = patches'[q].dto
    BY <2>1, <2>5 DEF WrittenAsAsked, Asks
  <2>6. ASSUME ~clashed', NEW q \in Unlogged' PROVE patches'[q].row = isOpen'
    <3>1. CASE q = k
      BY <3>1, <2>1
    <3>2. CASE q # k
      <4>1. q \in Unlogged /\ q \in Deciders /\ q \in Patches /\ ~Asks(k)
        BY <3>2, <2>1, <2>2, <2>6 DEF LogIsKept, Unlogged, Deciders
      <4> QED BY <4>1, <3>2, <2>1, <2>6 DEF WrittenAsAsked
    <3> QED BY <3>1, <3>2
  <2> QED BY <2>4, <2>5, <2>6 DEF WrittenAsAsked
<1>10. ASSUME NEW k \in Patches, DeleteBranding(k) PROVE LogIsKept' /\ WrittenAsAsked'
  <2>1. /\ patches[k].at = "updated" /\ patches'[k].at = "deleted" /\ patches'[k].was = patches[k].was
        /\ patches'[k].dto = patches[k].dto /\ patches'[k].row = patches[k].row
        /\ \A q \in Patches \ {k} : patches'[q] = patches[q]
        /\ UNCHANGED <<isOpen, told, clashed>>
    BY <1>10, PatchShape DEF DeleteBranding, StoreTypeOK, PatchesUnderWay, Idle
  <2>2. Deciders' = Deciders /\ Unlogged' = Unlogged
    BY <2>1 DEF Deciders, Unlogged, Asks, Deciding
  <2>3. \A q \in Patches : /\ patches'[q].was = patches[q].was /\ patches'[q].row = patches[q].row
                          /\ patches'[q].dto = patches[q].dto
                          /\ patches'[q].at \in Applied => patches[q].at \in Applied
    BY <2>1 DEF Applied
  <2>4. Deciders \subseteq Patches /\ Unlogged \subseteq Patches
    BY DEF Deciders, Unlogged
  <2>5. LogIsKept'
    BY <2>1, <2>2, <2>3, <2>4 DEF LogIsKept
  <2> QED BY <2>1, <2>2, <2>3, <2>4, <2>5 DEF WrittenAsAsked, Asks
<1>11. ASSUME NEW k \in Patches, LogStore(k) PROVE LogIsKept' /\ WrittenAsAsked'
  <2>1. /\ patches[k].at = "deleted" /\ patches'[k].at = "done" /\ patches'[k].was = patches[k].was
        /\ patches'[k].dto = patches[k].dto /\ patches'[k].row = patches[k].row
        /\ \A q \in Patches \ {k} : patches'[q] = patches[q]
        /\ UNCHANGED <<isOpen, clashed>>
        /\ told' = IF Changes(k) THEN patches[k].row ELSE told
    BY <1>11, PatchShape DEF LogStore, StoreTypeOK, PatchesUnderWay, Idle
  <2>2. Deciders' = Deciders \ {k} /\ Unlogged' = Unlogged \ {k}
    BY <2>1 DEF Deciders, Unlogged, Asks, Deciding
  <2>3. \A q \in Patches : /\ patches'[q].was = patches[q].was /\ patches'[q].row = patches[q].row
                          /\ patches'[q].dto = patches[q].dto
                          /\ patches'[q].at \in Applied => patches[q].at \in Applied
    BY <2>1 DEF Applied
  <2>4. Deciders \subseteq Patches /\ Unlogged \subseteq Deciders
    BY DEF Deciders, Unlogged
  <2>5. Asks(k) => k \in Unlogged
    BY <2>1 DEF Unlogged, Deciders, Deciding
  <2>6. \A q \in Deciders : patches'[q].was = patches[q].was
    BY <2>1 DEF Deciders
  <2>7. LogIsKept'
    <3>1. CASE Asks(k)
      <4>1. ~clashed => Deciders = {k} /\ patches[k].row = isOpen /\ patches[k].was = told
        BY <3>1, <2>1, <2>4, <2>5 DEF LogIsKept, WrittenAsAsked
      <4>2. patches[k].row = patches[k].dto
        BY <3>1, <2>1 DEF WrittenAsAsked, Applied
      <4>3. ~clashed => told' = isOpen
        BY <4>1, <4>2, <3>1, <2>1 DEF Changes
      <4> QED BY <4>1, <4>3, <2>1, <2>2 DEF LogIsKept
    <3>2. CASE ~Asks(k)
      <4>1. told' = told /\ Deciders' = Deciders /\ Unlogged' = Unlogged
        BY <3>2, <2>1, <2>2, <2>4 DEF Changes, Deciders
      <4> QED BY <4>1, <2>1, <2>6 DEF LogIsKept
    <3> QED BY <3>1, <3>2
  <2> QED BY <2>1, <2>2, <2>3, <2>4, <2>7 DEF WrittenAsAsked, Asks
<1>12. ASSUME NEW k \in Patches, StoreAnswered(k) PROVE LogIsKept' /\ WrittenAsAsked'
  BY <1>12, LogUntouched, PatchShape DEF StoreAnswered, Free, server, StoreTypeOK, Idle, Deciding, Applied
<1>13. ASSUME NEW k \in Patches, StoreFails(k) PROVE LogIsKept' /\ WrittenAsAsked'
  <2>1. /\ patches'[k].at = "idle"
        /\ \A q \in Patches \ {k} : patches'[q] = patches[q]
        /\ UNCHANGED <<isOpen, told>>
        /\ ~clashed' => ~clashed /\ ~(patches[k].at \in {"updated", "deleted"} /\ Changes(k))
    BY <1>13, PatchShape DEF StoreFails, Free, StoreTypeOK, Idle
  <2>2. Deciders' = Deciders \ {k} /\ Unlogged' = Unlogged \ {k}
    BY <2>1 DEF Deciders, Unlogged, Asks, Deciding
  <2>3. Deciders \subseteq Patches /\ Unlogged \subseteq Deciders
    BY DEF Deciders, Unlogged
  <2>4. LogIsKept'
    <3> SUFFICES ASSUME ~clashed' PROVE /\ \A j, q \in Deciders \ {k} : j = q
                                        /\ Unlogged \ {k} = {} => told = isOpen
                                        /\ \A j \in Deciders \ {k} : patches'[j].was = told
      BY <2>1, <2>2 DEF LogIsKept
    <3>1. CASE k \in Unlogged
      <4>1. Deciders = {k}
        BY <3>1, <2>1, <2>3 DEF LogIsKept
      <4>2. patches[k].at \in {"updated", "deleted"} /\ Asks(k)
        BY <3>1 DEF Unlogged, Deciders, Deciding
      <4>3. patches[k].row = isOpen /\ patches[k].was = told /\ patches[k].row = patches[k].dto
        BY <3>1, <4>2, <2>1, <2>3 DEF LogIsKept, WrittenAsAsked, Applied
      <4>4. told = isOpen
        BY <4>2, <4>3, <2>1 DEF Changes
      <4> QED BY <4>1, <4>4
    <3>2. CASE k \notin Unlogged
      BY <3>2, <2>1, <2>3 DEF LogIsKept
    <3> QED BY <3>1, <3>2
  <2> QED BY <2>1, <2>2, <2>3, <2>4 DEF WrittenAsAsked, Asks, Applied
<1>14. ASSUME NEW r \in Readers, Missed(r) \/ ReadBranding(r) \/ FillBranding(r)
       PROVE  LogIsKept' /\ WrittenAsAsked'
  BY <1>14, LogUntouched DEF Missed, ReadBranding, FillBranding
<1> QED BY <1>1, <1>2, <1>3, <1>5, <1>6, <1>7, <1>8, <1>9, <1>10, <1>11, <1>12, <1>13, <1>14 DEF StoreNext

-----------------------------------------------------------------------------
\* A slot the panel takes no notice of.
SameLife(k) ==
    /\ patches'[k] = Idle <=> patches[k] = Idle
    /\ patches'[k].at \in Applied <=> patches[k].at \in Applied
    /\ patches[k] # Idle => /\ patches'[k].mine = patches[k].mine
                            /\ patches'[k].live = patches[k].live
                            /\ patches'[k].dto = patches[k].dto

LEMMA PanelUntouched ==
    ASSUME LiveCallIsShown, PanelKnows, UNCHANGED <<isOpen, mock, screen, misled>>,
           \A k \in Patches : SameLife(k)
    PROVE  LiveCallIsShown' /\ PanelKnows'
<1>1. Live' = Live /\ Unheard' = Unheard
  BY DEF SameLife, Live, Unheard
<1>2. \A k \in Live : /\ patches'[k].mine = patches[k].mine /\ patches'[k].live = patches[k].live
                      /\ patches'[k].dto = patches[k].dto
  BY DEF Live, SameLife
<1>3. \A k \in Live : Asks(k)' <=> Asks(k)
  BY <1>2 DEF Live, Asks
<1>4. LiveCallIsShown'
  BY <1>1, <1>2, <1>3 DEF LiveCallIsShown
<1>5. \A k \in Unheard : k \in Patches /\ patches[k] # Idle
  BY DEF Unheard, Idle, Applied
<1>6. ASSUME ~misled'
      PROVE  /\ \A k \in Patches : patches'[k] # Idle /\ patches'[k].mine => patches'[k].live
             /\ \A k \in Unheard : patches'[k].mine
             /\ Unheard = {} => /\ mock = isOpen
                                /\ \A k \in Live : Asks(k)' => patches'[k].dto # isOpen
             /\ screen.name = "switch" /\ Live = {} => screen.isOpen = isOpen
  BY <1>2, <1>3, <1>5, <1>6 DEF PanelKnows, SameLife
<1> QED BY <1>1, <1>4, <1>6 DEF PanelKnows

\* Nothing is left for the screen just mounted.
LEMMA PanelForgets ==
    ASSUME \A k \in Patches : patches'[k] = Idle \/ ~patches'[k].live,
           ~misled' => /\ \A k \in Patches : patches'[k] = Idle
                       /\ mock' = isOpen'
                       /\ screen'.name = "switch" => screen'.isOpen = isOpen'
    PROVE  LiveCallIsShown' /\ PanelKnows'
<1>1. Live' = {}
  BY DEF Live
<1>2. ~misled' => Unheard' = {}
  BY DEF Unheard, Idle, Applied
<1> QED BY <1>1, <1>2 DEF LiveCallIsShown, PanelKnows

LEMMA PanelStep == ASSUME StoreInv, StoreTypeOK', StoreNext PROVE LiveCallIsShown' /\ PanelKnows'
<1> USE DEF StoreInv
<1>1. CASE Boot
  <2>1. \A q \in Patches : patches'[q] = Idle \/ ~patches'[q].live
    BY <1>1, PatchShape DEF Boot, PatchesUnderWay
  <2>2. ~misled' => \A q \in Patches : patches'[q] = Idle
    BY <1>1 DEF Boot
  <2>3. mock' = isOpen' /\ screen'.isOpen = isOpen'
    BY <1>1 DEF Boot, server
  <2> QED BY <2>1, <2>2, <2>3, PanelForgets
<1>2. CASE BrandingExpires
  BY <1>2, PanelUntouched DEF BrandingExpires, panel, SameLife
<1>3. ASSUME NEW name \in {"switch", "settings"}, GoTo(name) PROVE LiveCallIsShown' /\ PanelKnows'
  <2>1. \A q \in Patches : patches'[q] = Idle \/ ~patches'[q].live
    BY <1>3, PatchShape DEF GoTo, PatchesUnderWay
  <2>2. ~misled' => ~misled /\ \A q \in Patches : patches[q] = Idle /\ patches'[q] = Idle
    BY <1>3 DEF GoTo
  <2>3. ~misled' => Unheard = {}
    BY <2>2 DEF Unheard, Idle, Applied
  <2>4. /\ isOpen' = isOpen /\ mock' = mock
        /\ screen'.name = "switch" => screen'.isOpen = mock
    BY <1>3 DEF GoTo, server, Mounted
  <2>5. ~misled' => mock' = isOpen'
    BY <2>2, <2>3, <2>4 DEF PanelKnows
  <2> QED BY <2>1, <2>2, <2>4, <2>5, PanelForgets
<1>4. ASSUME NEW k \in Patches, NEW dto \in Said, SendPatch(k, dto), screen'.busy, screen'.name = screen.name,
             screen.name = "switch" <=> dto # Unsaid,
             dto # Unsaid => screen'.isOpen = dto /\ (screen.isOpen = isOpen => dto # isOpen)
      PROVE  LiveCallIsShown' /\ PanelKnows'
  <2>1. /\ patches'[k] = Asking(dto, TRUE) /\ patches'[k].at = "sent" /\ patches'[k].dto = dto
        /\ patches'[k].mine /\ patches'[k].live /\ patches'[k] # Idle
        /\ \A q \in Patches \ {k} : patches'[q] = patches[q]
        /\ UNCHANGED <<isOpen, mock, misled>>
    BY <1>4 DEF SendPatch, Asking, StoreTypeOK, Idle, server
  <2>2. Live = {}
    BY <1>4 DEF SendPatch, LiveCallIsShown, Live
  <2>3. Live' = {k} /\ Unheard' = Unheard /\ (Asks(k)' <=> dto # Unsaid)
    <3>1. \A q \in Patches : q \in Live' <=> q = k
      BY <2>1, <2>2 DEF Live
    <3>2. patches[k].at = "idle"
      BY <1>4 DEF SendPatch, Idle
    <3>3. \A q \in Patches : q \in Unheard' <=> q \in Unheard
      BY <2>1, <3>2 DEF Unheard, Applied
    <3> QED BY <2>1, <3>1, <3>3 DEF Live, Unheard, Asks
  <2>4. LiveCallIsShown'
    BY <2>1, <2>3, <1>4 DEF LiveCallIsShown
  <2>5. ASSUME ~misled'
        PROVE  /\ \A q \in Patches : patches'[q] # Idle /\ patches'[q].mine => patches'[q].live
               /\ \A q \in Unheard : patches'[q].mine
               /\ Unheard = {} => mock = isOpen
               /\ screen.name = "switch" => screen.isOpen = isOpen
    BY <2>1, <2>2, <2>3, <2>5 DEF PanelKnows, Unheard
  <2> QED BY <2>1, <2>3, <2>4, <2>5, <1>4 DEF PanelKnows
<1>5. ASSUME NEW k \in Patches, Toggle(k) PROVE LiveCallIsShown' /\ PanelKnows'
  <2>1. /\ screen.name = "switch" /\ screen.isOpen \in BOOLEAN
        /\ screen'.busy /\ screen'.name = screen.name /\ screen'.isOpen = ~screen.isOpen
    BY <1>5 DEF Toggle, StoreTypeOK, Screens
  <2>2. SendPatch(k, ~screen.isOpen)
    BY <1>5 DEF Toggle
  <2>3. TRUE \in Said /\ TRUE # Unsaid /\ FALSE \in Said /\ FALSE # Unsaid
    BY UnsaidAssumption DEF Said
  <2>4. CASE screen.isOpen = TRUE
    <3>1. SendPatch(k, FALSE) /\ screen'.isOpen = FALSE
      BY <2>1, <2>2, <2>4
    <3> QED BY <1>4, <2>1, <2>3, <2>4, <3>1
  <2>5. CASE screen.isOpen = FALSE
    <3>1. SendPatch(k, TRUE) /\ screen'.isOpen = TRUE
      BY <2>1, <2>2, <2>5
    <3> QED BY <1>4, <2>1, <2>3, <2>5, <3>1
  <2> QED BY <2>1, <2>4, <2>5
<1>6. ASSUME NEW k \in Patches, SaveSettings(k) PROVE LiveCallIsShown' /\ PanelKnows'
  BY <1>4, <1>6 DEF SaveSettings, StoreTypeOK, Screens, Said
<1>7. ASSUME NEW k \in Patches, NEW on \in BOOLEAN, OtherToggle(k, on) PROVE LiveCallIsShown' /\ PanelKnows'
  <2>1. /\ patches[k] = Idle /\ patches'[k] = Asking(on, FALSE) /\ patches'[k].at = "sent"
        /\ ~patches'[k].mine /\ ~patches'[k].live /\ patches'[k] # Idle
        /\ \A q \in Patches \ {k} : patches'[q] = patches[q]
        /\ UNCHANGED <<isOpen, mock, screen, misled>>
    BY <1>7 DEF OtherToggle, Asking, StoreTypeOK, Idle, server, panel
  <2>2. Live' = Live /\ Unheard' = Unheard /\ k \notin Live /\ k \notin Unheard
    <3>1. patches[k].at = "idle"
      BY <2>1 DEF Idle
    <3>2. \A q \in Patches : (q \in Live' <=> q \in Live) /\ (q \in Unheard' <=> q \in Unheard)
      BY <2>1, <3>1 DEF Live, Unheard, Applied
    <3> QED BY <2>1, <3>1, <3>2 DEF Live, Unheard, Applied
  <2>3. LiveCallIsShown'
    BY <2>1, <2>2 DEF LiveCallIsShown, Live, Asks
  <2>4. ASSUME ~misled'
        PROVE  /\ \A q \in Patches : patches'[q] # Idle /\ patches'[q].mine => patches'[q].live
               /\ \A q \in Unheard : patches'[q].mine
               /\ Unheard = {} => /\ mock = isOpen
                                  /\ \A q \in Live : Asks(q)' => patches'[q].dto # isOpen
               /\ screen.name = "switch" /\ Live = {} => screen.isOpen = isOpen
    BY <2>1, <2>2, <2>4 DEF PanelKnows, Unheard, Live, Asks
  <2> QED BY <2>1, <2>2, <2>3, <2>4 DEF PanelKnows
<1>8. ASSUME NEW k \in Patches, ReadOwn(k) \/ DeleteBranding(k) \/ LogStore(k) PROVE LiveCallIsShown' /\ PanelKnows'
  <2>1. UNCHANGED <<isOpen, mock, screen, misled>>
    BY <1>8 DEF ReadOwn, DeleteBranding, LogStore, panel
  <2>2. SameLife(k)
    BY <1>8, PatchShape DEF ReadOwn, DeleteBranding, LogStore, SameLife, StoreTypeOK, PatchesUnderWay, Idle, Applied
  <2>3. \A q \in Patches \ {k} : patches'[q] = patches[q]
    BY <1>8 DEF ReadOwn, DeleteBranding, LogStore, StoreTypeOK
  <2>4. \A q \in Patches : SameLife(q)
    BY <2>2, <2>3 DEF SameLife
  <2> QED BY <2>1, <2>4, PanelUntouched
<1>9. ASSUME NEW k \in Patches, UpdateMe(k) PROVE LiveCallIsShown' /\ PanelKnows'
  <2>1. /\ patches[k] # Idle /\ patches'[k] # Idle /\ patches'[k].at = "updated"
        /\ patches'[k].mine = patches[k].mine /\ patches'[k].live = patches[k].live
        /\ patches'[k].dto = patches[k].dto
        /\ \A q \in Patches \ {k} : patches'[q] = patches[q]
        /\ UNCHANGED <<mock, screen>>
        /\ ~misled' => ~misled /\ patches[k].mine
    BY <1>9, PatchShape DEF UpdateMe, StoreTypeOK, PatchesUnderWay, Idle, panel
  <2>2. Live' = Live /\ Unheard' = Unheard \cup {k}
    BY <2>1 DEF Live, Unheard, Applied
  <2>3. LiveCallIsShown'
    BY <2>1, <2>2 DEF LiveCallIsShown, Live, Asks
  <2>4. ASSUME ~misled'
        PROVE  /\ \A q \in Patches : patches'[q] # Idle /\ patches'[q].mine => patches'[q].live
               /\ \A q \in Unheard' : patches'[q].mine
               /\ k \in Live
    BY <2>1, <2>2, <2>4 DEF PanelKnows, Live, Unheard
  <2> QED BY <2>1, <2>2, <2>3, <2>4 DEF PanelKnows
<1>10. ASSUME NEW k \in Patches, StoreAnswered(k) PROVE LiveCallIsShown' /\ PanelKnows'
  <2>1. /\ patches[k].at = "done" /\ patches[k] # Idle /\ patches'[k] = Idle
        /\ \A q \in Patches \ {k} : patches'[q] = patches[q]
        /\ isOpen' = isOpen /\ screen'.name = screen.name /\ screen'.isOpen = screen.isOpen
        /\ ~patches[k].live => screen' = screen
        /\ mock' = IF patches[k].mine THEN patches[k].row ELSE mock
        /\ ~misled' => ~misled /\ (patches[k].mine => patches[k].row = isOpen)
    BY <1>10, PatchShape DEF StoreAnswered, Free, StoreTypeOK, Idle, server, Screens
  <2>2. Live' = Live \ {k} /\ Unheard' = Unheard \ {k} /\ k \in Unheard
    BY <2>1 DEF Live, Unheard, Idle, Applied
  <2>3. k \in Live => Live' = {}
    BY <2>2 DEF LiveCallIsShown
  <2>4. LiveCallIsShown'
    <3>1. CASE k \in Live
      BY <3>1, <2>3 DEF LiveCallIsShown
    <3>2. CASE k \notin Live
      <4>1. ~patches[k].live /\ screen' = screen /\ Live' = Live
        BY <3>2, <2>1, <2>2 DEF Live
      <4> QED BY <4>1, <3>2, <2>1 DEF LiveCallIsShown, Live, Asks
    <3> QED BY <3>1, <3>2
  <2>5. ASSUME ~misled' PROVE PanelKnows'
    <3>1. patches[k].mine /\ patches[k].live /\ patches[k].row = isOpen
      BY <2>1, <2>2, <2>5 DEF PanelKnows
    <3>2. k \in Live /\ Live' = {} /\ mock' = isOpen
      BY <3>1, <2>1, <2>3 DEF Live
    <3>3. screen.name = "switch" => screen.isOpen = isOpen
      BY <3>1, <3>2, <2>1 DEF LiveCallIsShown, WrittenAsAsked, Applied
    <3>4. \A q \in Patches : patches'[q] # Idle /\ patches'[q].mine => patches'[q].live
      BY <2>1, <2>5 DEF PanelKnows
    <3>5. \A q \in Unheard' : patches'[q].mine
      BY <2>1, <2>2, <2>5 DEF PanelKnows, Unheard
    <3> QED BY <3>2, <3>3, <3>4, <3>5, <2>1 DEF PanelKnows
  <2> QED BY <2>4, <2>5 DEF PanelKnows
<1>11. ASSUME NEW k \in Patches, StoreFails(k) PROVE LiveCallIsShown' /\ PanelKnows'
  <2>1. /\ patches[k] # Idle /\ patches'[k] = Idle
        /\ \A q \in Patches \ {k} : patches'[q] = patches[q]
        /\ isOpen' = isOpen /\ mock' = mock
        /\ ~patches[k].live => screen' = screen
        /\ patches[k].live => /\ screen'.name = screen.name
                              /\ screen.name = "switch" => screen'.isOpen = ~screen.isOpen
        /\ ~misled' => ~misled /\ k \notin Unheard
    BY <1>11, PatchShape DEF StoreFails, Reverted, Free, StoreTypeOK, Idle, Screens, Unheard
  <2>2. Live' = Live \ {k} /\ Unheard' = Unheard \ {k}
    BY <2>1 DEF Live, Unheard, Idle, Applied
  <2>3. k \in Live => Live' = {}
    BY <2>2 DEF LiveCallIsShown
  <2>4. LiveCallIsShown'
    <3>1. CASE k \in Live
      BY <3>1, <2>3 DEF LiveCallIsShown
    <3>2. CASE k \notin Live
      <4>1. ~patches[k].live /\ screen' = screen /\ Live' = Live
        BY <3>2, <2>1, <2>2 DEF Live
      <4> QED BY <4>1, <3>2, <2>1 DEF LiveCallIsShown, Live, Asks
    <3> QED BY <3>1, <3>2
  <2>5. ASSUME ~misled' PROVE PanelKnows'
    <3>1. Unheard' = Unheard
      BY <2>1, <2>2, <2>5
    <3>2. /\ \A q \in Patches : patches'[q] # Idle /\ patches'[q].mine => patches'[q].live
          /\ \A q \in Unheard : patches'[q].mine
          /\ Unheard = {} => mock = isOpen
      BY <2>1, <2>5 DEF PanelKnows, Unheard
    <3>3. CASE k \in Live
      <4>1. \A q \in Unheard : q = k
        BY <3>3, <2>1, <2>5 DEF PanelKnows, Unheard, LiveCallIsShown, Live, Idle, Applied
      <4>2. Unheard = {}
        BY <4>1, <2>1, <2>5
      <4>3. screen.name = "switch" => screen.isOpen \in BOOLEAN /\ screen.isOpen # isOpen
        BY <3>3, <4>2, <2>1, <2>5 DEF PanelKnows, LiveCallIsShown, StoreTypeOK, Screens
      <4>4. screen'.name = "switch" => screen'.isOpen = isOpen
        BY <3>3, <4>3, <2>1 DEF Live, StoreTypeOK
      <4> QED BY <4>4, <3>1, <3>2, <3>3, <2>1, <2>3 DEF PanelKnows
    <3>4. CASE k \notin Live
      <4>1. screen' = screen /\ Live' = Live
        BY <3>4, <2>1, <2>2 DEF Live
      <4>2. \A q \in Live : patches'[q].dto = patches[q].dto
        BY <3>4, <2>1 DEF Live
      <4>3. /\ Unheard = {} => \A q \in Live : patches'[q].dto # Unsaid => patches'[q].dto # isOpen
            /\ screen.name = "switch" /\ Live = {} => screen.isOpen = isOpen
        BY <4>2, <2>1, <2>5 DEF PanelKnows, Asks
      <4> QED BY <4>1, <4>3, <3>1, <3>2, <2>1 DEF PanelKnows, Asks
    <3> QED BY <3>3, <3>4
  <2> QED BY <2>4, <2>5 DEF PanelKnows
<1>12. ASSUME NEW r \in Readers, Missed(r) \/ ReadBranding(r) \/ FillBranding(r)
       PROVE  LiveCallIsShown' /\ PanelKnows'
  BY <1>12, PanelUntouched DEF Missed, ReadBranding, FillBranding, panel, SameLife
<1> QED BY <1>1, <1>2, <1>3, <1>5, <1>6, <1>7, <1>8, <1>9, <1>10, <1>11, <1>12 DEF StoreNext

-----------------------------------------------------------------------------
\* What leaves the row and the page alone, and deletes nothing.
LEMMA PageUntouched ==
    ASSUME PageIsCleared, UNCHANGED <<isOpen, branding, readers>>,
           \A k \in Patches : patches[k].at = "updated" => patches'[k].at = "updated"
    PROVE  PageIsCleared'
  BY DEF PageIsCleared, Coming

\* Whoever has read and not yet filled is told that it is late.
LEMMA LateReaders ==
    ASSUME StoreTypeOK, readers' = Late, NEW r \in Readers, readers'[r].at = "read"
    PROVE  readers'[r].late
  BY ReaderShape DEF Late

LEMMA PageStep == ASSUME StoreInv, StoreTypeOK', StoreNext PROVE PageIsCleared'
<1> USE DEF StoreInv
<1>1. CASE Boot
  BY <1>1, PatchShape, PageUntouched DEF Boot, server, PatchesUnderWay, Idle
<1>2. CASE BrandingExpires
  BY <1>2 DEF BrandingExpires, PageIsCleared, Coming
<1>3. ASSUME NEW name \in {"switch", "settings"}, GoTo(name) PROVE PageIsCleared'
  BY <1>3, PatchShape, PageUntouched DEF GoTo, server, PatchesUnderWay, Idle
<1>4. ASSUME NEW k \in Patches, NEW dto, SendPatch(k, dto) PROVE PageIsCleared'
  <2>1. patches[k].at # "updated"
    BY <1>4 DEF SendPatch, Idle
  <2>2. \A q \in Patches \ {k} : patches'[q] = patches[q]
    BY <1>4 DEF SendPatch, StoreTypeOK
  <2> QED BY <1>4, <2>1, <2>2, PageUntouched DEF SendPatch, server
<1>5. ASSUME NEW k \in Patches, NEW on \in BOOLEAN, OtherToggle(k, on) PROVE PageIsCleared'
  <2>1. patches[k].at # "updated"
    BY <1>5 DEF OtherToggle, Idle
  <2>2. \A q \in Patches \ {k} : patches'[q] = patches[q]
    BY <1>5 DEF OtherToggle, StoreTypeOK
  <2> QED BY <1>5, <2>1, <2>2, PageUntouched DEF OtherToggle, server
<1>6. ASSUME NEW k \in Patches, ReadOwn(k) \/ LogStore(k) PROVE PageIsCleared'
  BY <1>6, PageUntouched DEF ReadOwn, LogStore, StoreTypeOK
<1>7. ASSUME NEW k \in Patches, UpdateMe(k) PROVE PageIsCleared'
  <2>1. patches'[k].at = "updated"
    BY <1>7, PatchShape DEF UpdateMe, StoreTypeOK, PatchesUnderWay, Idle
  <2> QED BY <2>1 DEF PageIsCleared, Coming
<1>8. ASSUME NEW k \in Patches, DeleteBranding(k) PROVE PageIsCleared'
  BY <1>8, LateReaders DEF DeleteBranding, PageIsCleared
<1>9. ASSUME NEW k \in Patches, StoreAnswered(k) PROVE PageIsCleared'
  BY <1>9, PageUntouched DEF StoreAnswered, Free, server, StoreTypeOK
<1>10. ASSUME NEW k \in Patches, StoreFails(k) PROVE PageIsCleared'
  <2>1. CASE patches[k].at = "updated"
    <3>1. readers' = Late /\ (branding' # Unsaid => branding'.late)
      BY <1>10, <2>1 DEF StoreFails, StoreTypeOK, Entries
    <3> QED BY <3>1, LateReaders DEF PageIsCleared
  <2>2. CASE patches[k].at # "updated"
    BY <1>10, <2>2, PageUntouched DEF StoreFails, Free, StoreTypeOK
  <2> QED BY <2>1, <2>2
<1>11. ASSUME NEW r \in Readers, Missed(r) \/ ReadBranding(r) \/ FillBranding(r) PROVE PageIsCleared'
  <2>1. /\ UNCHANGED isOpen /\ Coming' = Coming
        /\ \A q \in Readers \ {r} : readers'[q] = readers[q]
    BY <1>11 DEF Missed, ReadBranding, FillBranding, StoreTypeOK, Coming
  <2>2. /\ branding' = branding \/ (readers[r].at = "read" /\ branding'.row = readers[r].row
                                    /\ branding'.late = readers[r].late)
        /\ readers'[r].at = "read" => readers'[r].row = isOpen
    BY <1>11 DEF Missed, ReadBranding, FillBranding, StoreTypeOK, Idle
  <2> QED BY <2>1, <2>2 DEF PageIsCleared
<1> QED BY <1>1, <1>2, <1>3, <1>4, <1>5, <1>6, <1>7, <1>8, <1>9, <1>10, <1>11 DEF StoreNext, Toggle, SaveSettings

-----------------------------------------------------------------------------
LEMMA StoreInitial == StoreInit => StoreInv
<1> SUFFICES ASSUME StoreInit PROVE StoreInv
  OBVIOUS
<1> USE UnsaidAssumption
<1>1. StoreTypeOK
  BY DEF StoreInit, StoreTypeOK, Mounted, Screens, Idle, Deciding, Applied
<1>2. Live = {} /\ Unheard = {} /\ Deciders = {} /\ Unlogged = {}
  BY DEF StoreInit, Live, Unheard, Deciders, Unlogged, Idle, Deciding, Applied
<1>3. LogIsKept
  BY <1>2 DEF StoreInit, LogIsKept
<1>4. WrittenAsAsked
  BY <1>2 DEF WrittenAsAsked, Unheard
<1>5. LiveCallIsShown
  BY <1>2 DEF LiveCallIsShown
<1>6. PanelKnows
  BY <1>2 DEF StoreInit, PanelKnows, Mounted
<1>7. PageIsCleared
  BY DEF StoreInit, PageIsCleared, Idle
<1> QED BY <1>1, <1>3, <1>4, <1>5, <1>6, <1>7 DEF StoreInv

LEMMA StoreStep == StoreInv /\ [StoreNext]_storeVars => StoreInv'
<1> SUFFICES ASSUME StoreInv, [StoreNext]_storeVars PROVE StoreInv'
  OBVIOUS
<1>1. CASE StoreNext
  <2>1. StoreTypeOK'
    BY <1>1, StoreTypesStep DEF StoreInv
  <2> QED BY <1>1, <2>1, LogStep, PanelStep, PageStep DEF StoreInv
<1>2. CASE UNCHANGED storeVars
  BY <1>2 DEF storeVars, server, panel, StoreInv, StoreTypeOK, LogIsKept, WrittenAsAsked, LiveCallIsShown,
     PanelKnows, PageIsCleared, Deciders, Unlogged, Asks, Live, Unheard, Coming
<1> QED BY <1>1, <1>2

\* What the store keeps and the panel shows of it has its type, in every behaviour of it.
THEOREM StoreTypes == StoreSpec => []StoreTypeOK
<1>1. StoreInv => StoreTypeOK
  BY DEF StoreInv
<1> QED BY <1>1, StoreInitial, StoreStep, PTL DEF StoreSpec

\* With no PATCH under way, the log, the panel, its switch and the public page say of the
\* store what its row says, up to the races that updateMe leaves open.
THEOREM StoreIsTold == StoreSpec => []StoreIsToldAsItIs
<1>1. StoreInv => StoreIsToldAsItIs
  <2> SUFFICES ASSUME StoreInv, \A k \in Patches : patches[k] = Idle
               PROVE  /\ ~clashed => told = isOpen
                      /\ ~misled => /\ mock = isOpen
                                    /\ screen.name = "switch" => screen.isOpen = isOpen
                      /\ branding # Unsaid => branding.row = isOpen \/ branding.late
    BY DEF StoreIsToldAsItIs
  <2>1. Live = {} /\ Unheard = {} /\ Unlogged = {} /\ ~Coming
    BY DEF Live, Unheard, Deciders, Unlogged, Coming, Idle, Deciding, Applied
  <2> QED BY <2>1 DEF StoreInv, LogIsKept, PanelKnows, PageIsCleared
<1> QED BY <1>1, StoreInitial, StoreStep, PTL DEF StoreSpec

(* The retention of the audit log. *)

\* An event that is recorded is in one table, and in one it is until it is two years old.
TablesOK ==
    /\ hot \cap archive = {}
    /\ \A e \in Events : age[e] \in {"hot", "old"} => e \in hot \cup archive
    /\ \A e \in hot \cup archive : age[e] # "none"

\* What a transaction of tenant t in run r has read and moved.
TransactionOK(r, t) ==
    LET tx == r.txs[t] IN
    /\ tx.old \subseteq Older({"old", "dead"}) /\ tx.dead \subseteq Older({"dead"})
    /\ r.began.old \subseteq tx.old /\ r.began.dead \subseteq tx.dead
    /\ tx.moves \subseteq hot \cap Of(t)
    /\ tx.at = "moved" => hot \cap Of(t) \cap tx.old \subseteq tx.moves

\* Owner o has nothing left of what was past its time when run r began.
IsSettled(r, o) ==
    \A e \in Events : owner[e] = o =>
        /\ e \in r.began.old => e \notin hot
        /\ e \in r.began.dead => e \notin archive

RunOK(r) ==
    /\ r.began.old \subseteq Older({"old", "dead"})
    /\ r.began.dead \subseteq Older({"dead"}) \cap r.began.old
    /\ \A t \in Tenants : r.txs[t] # Off => TransactionOK(r, t)
    /\ \A t \in Tenants : t \in r.left \/ r.txs[t] # Off \/ t \in r.failed \/ IsSettled(r, t)
    /\ r.at # "tenants" => r.left = {} /\ \A t \in Tenants : r.txs[t] = Off
    /\ r.at = "platform moved" =>
            \A e \in Events : owner[e] = Platform /\ e \in r.began.old => e \notin hot
    /\ r.at = "done" => Platform \in r.failed \/ IsSettled(r, Platform)

\* Two runs never move the same row.
MovesApart ==
    \A i, j \in Jobs, t \in Tenants :
        i # j /\ jobs[i] # Off /\ jobs[j] # Off /\ jobs[i].txs[t] # Off /\ jobs[j].txs[t] # Off =>
            jobs[i].txs[t].moves \cap jobs[j].txs[t].moves = {}

AuditInv ==
    /\ AuditTypeOK
    /\ TablesOK
    /\ \A j \in Jobs, r \in Runs : jobs[j] = r => RunOK(r)
    /\ MovesApart

\* What every step does to the tables and the events.
TablesMove ==
    /\ \A e \in Events : age[e] # "none" =>
            age'[e] # "none" /\ owner'[e] = owner[e] /\ (e \in hot' => e \in hot)
    /\ \A e \in Events : age[e] \in {"old", "dead"} => age'[e] \in {"old", "dead"}
    /\ \A e \in Events : age[e] = "dead" => age'[e] = "dead"
    /\ archive' \subseteq archive \cup hot

LEMMA RunShape ==
    ASSUME AuditTypeOK, NEW j \in Jobs, jobs[j] # Off
    PROVE  /\ jobs[j] \in Runs
           /\ jobs[j].left \subseteq Tenants /\ jobs[j].failed \subseteq Owners
           /\ jobs[j].began.old \subseteq Events /\ jobs[j].began.dead \subseteq Events
           /\ \A t \in Tenants : jobs[j].txs[t] # Off => jobs[j].txs[t] \in Transactions
BY DEF AuditTypeOK, Runs, Owners

LEMMA OlderType ==
    ASSUME AuditTypeOK, NEW ages
    PROVE  Older(ages) \subseteq Events /\ \A e \in Older(ages) : age[e] \in ages
BY DEF Older

LEMMA AuditInitial == AuditInit => AuditInv
<1> SUFFICES ASSUME AuditInit PROVE AuditInv
  OBVIOUS
<1>1. AuditTypeOK
  BY DEF AuditInit, AuditTypeOK, Owners
<1>2. TablesOK /\ MovesApart
  BY DEF AuditInit, TablesOK, MovesApart
<1>3. \A j \in Jobs, r \in Runs : jobs[j] # r
  BY OffAssumption DEF AuditInit
<1> QED
  BY <1>1, <1>2, <1>3 DEF AuditInv

-----------------------------------------------------------------------------
(* What others have done stays done. *)

LEMMA SettledStays ==
    ASSUME AuditTypeOK, TablesOK, TablesMove, NEW r \in Runs, NEW o, IsSettled(r, o),
           r.began.old \subseteq Older({"old", "dead"}),
           r.began.dead \subseteq Older({"dead"}) \cap r.began.old
    PROVE  IsSettled(r, o)'
<1> SUFFICES ASSUME NEW e \in Events, owner'[e] = o
             PROVE  /\ e \in r.began.old => e \notin hot'
                    /\ e \in r.began.dead => e \notin archive'
  BY DEF IsSettled
<1>1. e \in r.began.old => age[e] # "none"
  BY OlderType
<1>2. e \in r.began.old => owner[e] = o /\ e \notin hot
  BY <1>1 DEF TablesMove, IsSettled
<1>3. e \in r.began.old => e \notin hot'
  BY <1>1, <1>2 DEF TablesMove
<1>4. e \in r.began.dead => e \notin archive'
  BY <1>2 DEF TablesMove, IsSettled
<1> QED
  BY <1>3, <1>4

LEMMA TransactionStays ==
    ASSUME AuditTypeOK, TablesOK, TablesMove, NEW r \in Runs, NEW t \in Tenants,
           r.txs[t] \in Transactions, TransactionOK(r, t), r.txs[t].moves \subseteq hot'
    PROVE  TransactionOK(r, t)'
<1> DEFINE tx == r.txs[t]
<1>1. /\ tx.old \subseteq Older({"old", "dead"}) /\ tx.dead \subseteq Older({"dead"})
      /\ tx.old \subseteq Events /\ tx.dead \subseteq Events /\ tx.moves \subseteq Events
      /\ tx.moves \subseteq hot /\ tx.moves \subseteq Of(t)
      /\ tx.at = "moved" => hot \cap Of(t) \cap tx.old \subseteq tx.moves
  BY DEF TransactionOK, Transactions
<1>2. tx.old \subseteq Older({"old", "dead"})' /\ tx.dead \subseteq Older({"dead"})'
  BY <1>1 DEF TablesMove, Older
<1>3. tx.moves \subseteq hot' \cap Of(t)'
  <2>1. \A e \in tx.moves : e \in Events /\ age[e] # "none" /\ owner[e] = t
    BY <1>1 DEF TablesOK, Of
  <2> QED
    BY <2>1 DEF TablesMove, Of
<1>4. tx.at = "moved" => hot' \cap Of(t)' \cap tx.old \subseteq tx.moves
  <2> SUFFICES ASSUME tx.at = "moved", NEW e \in hot', e \in Of(t)', e \in tx.old PROVE e \in tx.moves
    OBVIOUS
  <2>1. age[e] # "none" /\ e \in Events
    BY <1>1 DEF Older
  <2>2. e \in hot /\ e \in Of(t)
    BY <2>1 DEF TablesMove, Of
  <2> QED
    BY <1>1, <2>2
<1> QED
  BY <1>2, <1>3, <1>4 DEF TransactionOK

\* A run that takes no part keeps what it has, unless its rows are taken from it.
LEMMA RunStays ==
    ASSUME AuditTypeOK, TablesOK, TablesMove, NEW r \in Runs, RunOK(r),
           \A t \in Tenants : r.txs[t] # Off => r.txs[t].moves \subseteq hot'
    PROVE  RunOK(r)'
<1>1. \A t \in Tenants : r.txs[t] # Off => r.txs[t] \in Transactions
  BY DEF Runs
<1>2. r.began.old \subseteq Older({"old", "dead"})' /\ r.began.dead \subseteq Older({"dead"})' \cap r.began.old
  <2>1. \A ages : Older(ages) \subseteq Events
    BY DEF Older
  <2> QED
    BY <2>1 DEF RunOK, TablesMove, Older
<1>3. \A t \in Tenants : r.txs[t] # Off => TransactionOK(r, t)'
  BY <1>1, TransactionStays DEF RunOK
<1>4. \A o : IsSettled(r, o) => IsSettled(r, o)'
  BY SettledStays DEF RunOK
<1>5. ASSUME r.at = "platform moved", NEW e \in Events, owner'[e] = Platform, e \in r.began.old
      PROVE  e \notin hot'
  <2>1. age[e] # "none"
    BY <1>5 DEF RunOK, Older
  <2> QED
    BY <1>5, <2>1 DEF RunOK, TablesMove
<1> QED
  BY <1>2, <1>3, <1>4, <1>5 DEF RunOK

\* Where the tables stay, so does everything that is said of them.
LEMMA TablesStay ==
    ASSUME UNCHANGED <<age, owner, hot, archive>>
    PROVE  /\ TablesOK => TablesOK'
           /\ \A r \in Runs : RunOK(r) => RunOK(r)'
<1>1. TablesOK => TablesOK'
  BY DEF TablesOK
<1>2. (\A o : Of(o)' = Of(o)) /\ (\A ages : Older(ages)' = Older(ages))
  BY DEF Of, Older
<1>3. \A r \in Runs, t \in Tenants : TransactionOK(r, t) => TransactionOK(r, t)'
  BY <1>2 DEF TransactionOK
<1>4. \A r \in Runs, o \in Owners : IsSettled(r, o) => IsSettled(r, o)'
  BY DEF IsSettled
<1>5. \A r \in Runs : RunOK(r) => RunOK(r)'
  BY <1>2, <1>3, <1>4 DEF RunOK, Owners
<1> QED
  BY <1>1, <1>5

-----------------------------------------------------------------------------
(* The steps. *)

\* A step of run j that leaves the tables alone, and moves no row another run moves.
LEMMA QuietStep ==
    ASSUME AuditInv, NEW j \in Jobs, NEW s \in Runs \cup {Off},
           jobs' = [jobs EXCEPT ![j] = s], UNCHANGED <<age, owner, hot, archive>>,
           s # Off => RunOK(s),
           \A i \in Jobs, t \in Tenants :
              i # j /\ s # Off /\ jobs[i] # Off /\ s.txs[t] # Off /\ jobs[i].txs[t] # Off =>
                  jobs[i].txs[t].moves \cap s.txs[t].moves = {}
    PROVE  AuditInv'
<1> USE DEF AuditInv
<1>1. jobs'[j] = s /\ \A i \in Jobs : i # j => jobs'[i] = jobs[i]
  BY DEF AuditTypeOK
<1>2. AuditTypeOK'
  BY DEF AuditTypeOK, Owners
<1>3. TablesOK' /\ \A i \in Jobs, r \in Runs : jobs'[i] = r => RunOK(r)'
  <2> SUFFICES ASSUME NEW i \in Jobs, NEW r \in Runs, jobs'[i] = r PROVE RunOK(r)
    BY TablesStay
  <2>1. r # Off
    BY OffAssumption
  <2> QED
    BY <1>1, <2>1
<1>4. MovesApart'
  BY <1>1 DEF MovesApart
<1> QED
  BY <1>2, <1>3, <1>4

\* The run a step is of.
LEMMA TheRun ==
    ASSUME AuditInv, NEW j \in Jobs, jobs[j] # Off
    PROVE  \E r \in Runs : jobs[j] = r /\ RunOK(r)
BY DEF AuditInv, AuditTypeOK

LEMMA RunStep == ASSUME AuditInv, NEW j \in Jobs, Run(j) PROVE AuditInv'
<1> DEFINE s == [left |-> Tenants, failed |-> {}, at |-> "tenants", txs |-> [t \in Tenants |-> Off],
                 began |-> [old |-> Older({"old", "dead"}), dead |-> Older({"dead"})]]
<1>1. Older({"old", "dead"}) \in SUBSET Events /\ Older({"dead"}) \in SUBSET Older({"old", "dead"})
  BY DEF Older
<1>2. s \in Runs
  BY <1>1 DEF Runs
<1>3. RunOK(s)
  BY <1>1 DEF RunOK
<1>4. \A t \in Tenants : s.txs[t] = Off
  OBVIOUS
<1>5. jobs' = [jobs EXCEPT ![j] = s] /\ UNCHANGED <<age, owner, hot, archive>>
  BY DEF Run
<1> HIDE DEF s
<1> QED
  BY <1>2, <1>3, <1>4, <1>5, QuietStep

LEMMA StopsStep == ASSUME AuditInv, NEW j \in Jobs, Stops(j) PROVE AuditInv'
BY QuietStep DEF Stops

LEMMA BatchStep ==
    ASSUME AuditInv, NEW j \in Jobs, NEW batch \in SUBSET Tenants, NextBatch(j, batch) PROVE AuditInv'
<1>1. PICK r \in Runs : jobs[j] = r /\ RunOK(r)
  BY TheRun DEF NextBatch
<1>2. r \in [left : SUBSET Tenants, failed : SUBSET (Tenants \cup {Platform}),
             at : {"tenants", "platform", "platform moved", "done"},
             txs : [Tenants -> Transactions \cup {Off}],
             began : [old : SUBSET Events, dead : SUBSET Events]]
  BY DEF Runs
<1> DEFINE s == [r EXCEPT !.left = @ \ batch, !.txs = [t \in Tenants |-> IF t \in batch THEN Begun ELSE Off],
                          !.at = IF batch = {} THEN "platform" ELSE @]
<1>3. Begun \in Transactions /\ Begun # Off
  <2>1. Begun \in Transactions
    BY DEF Begun, Transactions, Older
  <2> QED
    BY <2>1, OffAssumption
<1>4. /\ s.left = r.left \ batch /\ s.failed = r.failed /\ s.began = r.began
      /\ s.txs = [t \in Tenants |-> IF t \in batch THEN Begun ELSE Off]
      /\ s.at = IF batch = {} THEN "platform" ELSE r.at
  BY <1>2
<1>5. s \in Runs
  <2>1. [t \in Tenants |-> IF t \in batch THEN Begun ELSE Off] \in [Tenants -> Transactions \cup {Off}]
    BY <1>3
  <2> QED
    BY <1>2, <2>1 DEF Runs
<1>6. jobs' = [jobs EXCEPT ![j] = s] /\ UNCHANGED <<age, owner, hot, archive>>
  BY <1>1 DEF NextBatch, AuditInv, AuditTypeOK
<1>7. batch \subseteq r.left /\ r.at = "tenants" /\ \A t \in Tenants : r.txs[t] = Off
  BY <1>1, OffAssumption DEF NextBatch, Running
<1>8. batch = {} => r.left = {}
  BY <1>1, FS_EmptySet, ConcurrencyAssumption DEF NextBatch
<1> HIDE DEF s
<1>9. RunOK(s)
  <2>1. \A t \in Tenants : s.txs[t] # Off => t \in batch /\ s.txs[t] = Begun
    BY <1>4
  <2>2. \A t \in Tenants : s.txs[t] # Off => TransactionOK(s, t)
    <3> SUFFICES ASSUME NEW t \in Tenants, s.txs[t] # Off PROVE TransactionOK(s, t)
      OBVIOUS
    <3>1. s.txs[t] = Begun
      BY <2>1
    <3>2. /\ Begun.at = "open" /\ Begun.old = Older({"old", "dead"}) /\ Begun.dead = Older({"dead"})
          /\ Begun.moves = {}
      BY DEF Begun
    <3>3. s.began = r.began /\ r.began.old \subseteq Begun.old /\ r.began.dead \subseteq Begun.dead
      BY <1>1, <1>4, <3>2 DEF RunOK
    <3> QED
      BY <3>1, <3>2, <3>3 DEF TransactionOK
  <2>3. \A t \in Tenants : t \in s.left \/ s.txs[t] # Off \/ t \in s.failed \/ IsSettled(s, t)
    BY <1>1, <1>3, <1>4, <1>7 DEF RunOK, IsSettled
  <2>4. s.at # "tenants" => s.left = {} /\ \A t \in Tenants : s.txs[t] = Off
    BY <1>4, <1>7, <1>8
  <2>5. s.at \in {"tenants", "platform"}
    BY <1>4, <1>7
  <2> QED
    BY <1>1, <1>4, <2>2, <2>3, <2>4, <2>5 DEF RunOK
<1>10. \A t \in Tenants : s.txs[t] # Off => s.txs[t].moves = {}
  BY <1>4 DEF Begun
<1> QED
  BY <1>5, <1>6, <1>9, <1>10, QuietStep

\* The transaction of tenant t in run j, and what is left of the run when it ends.
LEMMA TheTransaction ==
    ASSUME AuditInv, NEW j \in Jobs, NEW t \in Tenants, t \in Running(j)
    PROVE  \E r \in Runs, x \in Transactions :
                /\ jobs[j] = r /\ RunOK(r) /\ r.txs[t] = x /\ x # Off /\ TransactionOK(r, t)
                /\ r.at = "tenants"
<1>1. jobs[j] # Off /\ jobs[j].txs[t] # Off
  BY DEF Running
<1>2. PICK r \in Runs : jobs[j] = r /\ RunOK(r)
  BY <1>1, TheRun
<1>3. r.txs[t] \in Transactions /\ TransactionOK(r, t) /\ r.at = "tenants"
  BY <1>1, <1>2 DEF Runs, RunOK
<1> QED
  BY <1>1, <1>2, <1>3

LEMMA MoveStep ==
    ASSUME AuditInv, NEW j \in Jobs, NEW t \in Tenants, Move(j, t) PROVE AuditInv'
<1>1. PICK r \in Runs, x \in Transactions :
        /\ jobs[j] = r /\ RunOK(r) /\ r.txs[t] = x /\ x # Off /\ TransactionOK(r, t) /\ r.at = "tenants"
  BY TheTransaction DEF Move
<1> DEFINE movidos == hot \cap Of(t) \cap x.old
           y == [x EXCEPT !.at = "moved", !.moves = movidos]
           s == [r EXCEPT !.txs = [r.txs EXCEPT ![t] = y]]
<1>2. r \in [left : SUBSET Tenants, failed : SUBSET (Tenants \cup {Platform}),
             at : {"tenants", "platform", "platform moved", "done"},
             txs : [Tenants -> Transactions \cup {Off}],
             began : [old : SUBSET Events, dead : SUBSET Events]]
  BY DEF Runs
<1>3. y \in Transactions /\ y.at = "moved" /\ y.moves = movidos /\ y.old = x.old /\ y.dead = x.dead
  BY DEF Transactions, Of
<1>4. y # Off
  BY <1>3, OffAssumption
<1>5. /\ jobs' = [jobs EXCEPT ![j] = s] /\ UNCHANGED <<age, owner, hot, archive>>
      /\ movidos \cap Locked(j, t) = {}
  BY <1>1, <1>2 DEF Move, AuditInv, AuditTypeOK
<1>6. s \in Runs
  BY <1>2, <1>3 DEF Runs
<1>7. /\ s.left = r.left /\ s.failed = r.failed /\ s.began = r.began /\ s.at = r.at
      /\ s.txs[t] = y /\ \A u \in Tenants : u # t => s.txs[u] = r.txs[u]
  BY <1>2
<1> HIDE DEF s, y
<1>8. RunOK(s)
  <2>1. TransactionOK(s, t)
    BY <1>1, <1>3, <1>7 DEF TransactionOK
  <2>2. \A u \in Tenants : s.txs[u] # Off => TransactionOK(s, u)
    <3> SUFFICES ASSUME NEW u \in Tenants, u # t, s.txs[u] # Off PROVE TransactionOK(s, u)
      BY <2>1
    <3>1. s.txs[u] = r.txs[u] /\ TransactionOK(r, u)
      BY <1>1, <1>7 DEF RunOK
    <3> QED
      BY <1>7, <3>1 DEF TransactionOK
  <2>3. \A u \in Tenants : u \in s.left \/ s.txs[u] # Off \/ u \in s.failed \/ IsSettled(s, u)
    BY <1>1, <1>4, <1>7 DEF RunOK, IsSettled
  <2> QED
    BY <1>1, <1>7, <2>2, <2>3 DEF RunOK
<1>9. ASSUME NEW i \in Jobs, NEW u \in Tenants, i # j, jobs[i] # Off, s.txs[u] # Off, jobs[i].txs[u] # Off
      PROVE  jobs[i].txs[u].moves \cap s.txs[u].moves = {}
  <2>1. CASE u = t
    <3>1. jobs[i].txs[t].moves \subseteq Locked(j, t)
      BY <1>9, <2>1 DEF Locked, Running
    <3> QED
      BY <1>3, <1>5, <1>7, <2>1, <3>1
  <2>2. CASE u # t
    BY <1>1, <1>7, <1>9, <2>2, OffAssumption DEF AuditInv, MovesApart
  <2> QED
    BY <2>1, <2>2
<1> QED
  BY <1>5, <1>6, <1>8, <1>9, QuietStep

LEMMA FailsStep ==
    ASSUME AuditInv, NEW j \in Jobs, NEW t \in Tenants, TransactionFails(j, t) PROVE AuditInv'
<1>1. PICK r \in Runs, x \in Transactions :
        /\ jobs[j] = r /\ RunOK(r) /\ r.txs[t] = x /\ x # Off /\ TransactionOK(r, t) /\ r.at = "tenants"
  BY TheTransaction DEF TransactionFails
<1> DEFINE s == [r EXCEPT !.txs = [r.txs EXCEPT ![t] = Off], !.failed = @ \cup {t}]
<1>2. r \in [left : SUBSET Tenants, failed : SUBSET (Tenants \cup {Platform}),
             at : {"tenants", "platform", "platform moved", "done"},
             txs : [Tenants -> Transactions \cup {Off}],
             began : [old : SUBSET Events, dead : SUBSET Events]]
  BY DEF Runs
<1>3. jobs' = [jobs EXCEPT ![j] = s] /\ UNCHANGED <<age, owner, hot, archive>>
  BY <1>1, <1>2 DEF TransactionFails, AuditInv, AuditTypeOK
<1>4. s \in Runs
  BY <1>2 DEF Runs
<1>5. /\ s.left = r.left /\ s.failed = r.failed \cup {t} /\ s.began = r.began /\ s.at = r.at
      /\ s.txs[t] = Off /\ \A u \in Tenants : u # t => s.txs[u] = r.txs[u]
  BY <1>2
<1> HIDE DEF s
<1>6. \A u \in Tenants : s.txs[u] # Off => u # t /\ s.txs[u] = r.txs[u]
  BY <1>5
<1>7. RunOK(s)
  <2>1. \A u \in Tenants : s.txs[u] # Off => TransactionOK(s, u)
    BY <1>1, <1>5, <1>6 DEF RunOK, TransactionOK
  <2>2. \A u \in Tenants : u \in s.left \/ s.txs[u] # Off \/ u \in s.failed \/ IsSettled(s, u)
    BY <1>1, <1>5 DEF RunOK, IsSettled
  <2> QED
    BY <1>1, <1>5, <2>1, <2>2 DEF RunOK
<1>8. ASSUME NEW i \in Jobs, NEW u \in Tenants, i # j, jobs[i] # Off, s.txs[u] # Off, jobs[i].txs[u] # Off
      PROVE  jobs[i].txs[u].moves \cap s.txs[u].moves = {}
  BY <1>1, <1>6, <1>8, OffAssumption DEF AuditInv, MovesApart
<1> QED
  BY <1>3, <1>4, <1>7, <1>8, QuietStep

LEMMA PlatformFailsStep == ASSUME AuditInv, NEW j \in Jobs, PlatformFails(j) PROVE AuditInv'
<1>1. PICK r \in Runs : jobs[j] = r /\ RunOK(r)
  BY TheRun DEF PlatformFails
<1> DEFINE s == [r EXCEPT !.at = "done", !.failed = @ \cup {Platform}]
<1>2. r \in [left : SUBSET Tenants, failed : SUBSET (Tenants \cup {Platform}),
             at : {"tenants", "platform", "platform moved", "done"},
             txs : [Tenants -> Transactions \cup {Off}],
             began : [old : SUBSET Events, dead : SUBSET Events]]
  BY DEF Runs
<1>3. jobs' = [jobs EXCEPT ![j] = s] /\ UNCHANGED <<age, owner, hot, archive>>
  BY <1>1 DEF PlatformFails, AuditInv, AuditTypeOK
<1>4. s \in Runs
  BY <1>2 DEF Runs
<1>5. /\ s.left = r.left /\ s.failed = r.failed \cup {Platform} /\ s.began = r.began /\ s.at = "done"
      /\ s.txs = r.txs /\ r.at # "tenants"
  BY <1>1, <1>2 DEF PlatformFails
<1> HIDE DEF s
<1>6. RunOK(s)
  BY <1>1, <1>5 DEF RunOK, IsSettled
<1>7. \A t \in Tenants : s.txs[t] = Off
  BY <1>1, <1>5 DEF RunOK
<1> QED
  BY <1>3, <1>4, <1>6, <1>7, QuietStep

\* A step of run j that moves rows no other run is moving.
LEMMA MovingStep ==
    ASSUME AuditInv, AuditTypeOK', TablesMove, TablesOK', NEW j \in Jobs, NEW r \in Runs, NEW s \in Runs,
           jobs[j] = r, jobs' = [jobs EXCEPT ![j] = s], RunOK(s)',
           \A t \in Tenants : s.txs[t] # Off => s.txs[t] = r.txs[t],
           \A i \in Jobs, t \in Tenants :
              i # j /\ jobs[i] # Off /\ jobs[i].txs[t] # Off => jobs[i].txs[t].moves \subseteq hot'
    PROVE  AuditInv'
<1> USE DEF AuditInv
<1>1. jobs'[j] = s /\ \A i \in Jobs : i # j => jobs'[i] = jobs[i]
  BY DEF AuditTypeOK
<1>2. \A i \in Jobs, q \in Runs : jobs'[i] = q => RunOK(q)'
  <2> SUFFICES ASSUME NEW i \in Jobs, NEW q \in Runs, jobs'[i] = q PROVE RunOK(q)'
    OBVIOUS
  <2>1. CASE i = j
    BY <1>1, <2>1
  <2>2. CASE i # j
    <3>1. jobs[i] = q /\ q # Off /\ RunOK(q)
      BY <1>1, <2>2, OffAssumption
    <3>2. \A t \in Tenants : q.txs[t] # Off => q.txs[t].moves \subseteq hot'
      BY <2>2, <3>1
    <3> QED
      BY <3>1, <3>2, RunStays
  <2> QED
    BY <2>1, <2>2
<1>3. MovesApart'
  <2>1. r # Off
    BY OffAssumption
  <2> QED
    BY <1>1, <2>1 DEF MovesApart
<1> QED
  BY <1>2, <1>3

\* The rows another transaction is moving are not those of this one, nor the platform's.
LEMMA OthersMoves ==
    ASSUME AuditInv, NEW i \in Jobs, NEW u \in Tenants, jobs[i] # Off, jobs[i].txs[u] # Off
    PROVE  /\ jobs[i].txs[u].moves \subseteq hot \cap Of(u)
           /\ \A o \in Owners : o # u => jobs[i].txs[u].moves \cap Of(o) = {}
<1>1. PICK r \in Runs : jobs[i] = r /\ RunOK(r)
  BY TheRun
<1>2. r.txs[u].moves \subseteq hot \cap Of(u)
  BY <1>1 DEF RunOK, TransactionOK
<1>3. \A o : o # u => Of(u) \cap Of(o) = {}
  BY DEF Of
<1> QED
  BY <1>1, <1>2, <1>3

LEMMA CommitBatchStep ==
    ASSUME AuditInv, NEW j \in Jobs, NEW t \in Tenants, Commit(j, t) PROVE AuditInv'
<1>1. PICK r \in Runs, x \in Transactions :
        /\ jobs[j] = r /\ RunOK(r) /\ r.txs[t] = x /\ x # Off /\ TransactionOK(r, t) /\ r.at = "tenants"
  BY TheTransaction DEF Commit
<1> DEFINE s == [r EXCEPT !.txs = [r.txs EXCEPT ![t] = Off]]
<1>2. r \in [left : SUBSET Tenants, failed : SUBSET (Tenants \cup {Platform}),
             at : {"tenants", "platform", "platform moved", "done"},
             txs : [Tenants -> Transactions \cup {Off}],
             began : [old : SUBSET Events, dead : SUBSET Events]]
  BY DEF Runs
<1>3. /\ jobs' = [jobs EXCEPT ![j] = s] /\ UNCHANGED <<age, owner>>
      /\ hot' = hot \ x.moves /\ archive' = (archive \cup x.moves) \ (Of(t) \cap x.dead)
      /\ x.at = "moved"
  BY <1>1, <1>2 DEF Commit, AuditInv, AuditTypeOK
<1>4. s \in Runs
  BY <1>2 DEF Runs
<1>5. /\ s.left = r.left /\ s.failed = r.failed /\ s.began = r.began /\ s.at = r.at
      /\ s.txs[t] = Off /\ \A u \in Tenants : u # t => s.txs[u] = r.txs[u]
  BY <1>2
<1> HIDE DEF s
<1>6. /\ x.old \subseteq Older({"old", "dead"}) /\ x.dead \subseteq Older({"dead"})
      /\ r.began.old \subseteq x.old /\ r.began.dead \subseteq x.dead
      /\ x.moves \subseteq hot \cap Of(t) /\ hot \cap Of(t) \cap x.old \subseteq x.moves
  BY <1>1, <1>3 DEF TransactionOK
<1>7. TablesMove
  BY <1>3, <1>6 DEF TablesMove
<1>8. TablesOK'
  <2>1. hot' \cap archive' = {} /\ \A e \in hot' \cup archive' : age'[e] # "none"
    BY <1>3, <1>6 DEF AuditInv, TablesOK
  <2>2. \A e \in Events : age[e] \in {"hot", "old"} => e \notin x.dead
    BY <1>6 DEF Older
  <2>3. \A e \in Events : age'[e] \in {"hot", "old"} => e \in hot' \cup archive'
    BY <1>3, <2>2 DEF AuditInv, TablesOK
  <2> QED
    BY <2>1, <2>3 DEF TablesOK
<1>9. AuditTypeOK'
  BY <1>3, <1>4, <1>6 DEF AuditInv, AuditTypeOK
<1>10. t \in Owners /\ jobs[j] # Off
  BY <1>1, OffAssumption DEF Owners
<1>11. \A i \in Jobs, u \in Tenants :
        (i # j \/ u # t) /\ jobs[i] # Off /\ jobs[i].txs[u] # Off => jobs[i].txs[u].moves \subseteq hot'
  <2> SUFFICES ASSUME NEW i \in Jobs, NEW u \in Tenants, i # j \/ u # t, jobs[i] # Off, jobs[i].txs[u] # Off
               PROVE  jobs[i].txs[u].moves \cap x.moves = {}
    BY <1>3, OthersMoves
  <2>1. CASE u # t
    BY <1>6, <1>10, <2>1, OthersMoves
  <2>2. CASE u = t
    BY <1>1, <1>10, <2>2 DEF AuditInv, MovesApart
  <2> QED
    BY <2>1, <2>2
<1>12. RunOK(s)'
  <2>1. \A u \in Tenants : s.txs[u] # Off => TransactionOK(s, u)'
    <3> SUFFICES ASSUME NEW u \in Tenants, s.txs[u] # Off PROVE TransactionOK(s, u)'
      OBVIOUS
    <3>1. u # t /\ s.txs[u] = r.txs[u] /\ TransactionOK(r, u) /\ r.txs[u] \in Transactions
      BY <1>1, <1>2, <1>5 DEF RunOK
    <3>2. r.txs[u].moves \subseteq hot'
      BY <1>1, <1>10, <1>11, <3>1
    <3>3. TransactionOK(r, u)'
      BY <1>7, <3>1, <3>2, TransactionStays DEF AuditInv
    <3> QED
      BY <1>5, <3>1, <3>3 DEF TransactionOK
  <2>2. \A u \in Tenants : IsSettled(r, u) => IsSettled(s, u)'
    <3>1. \A u \in Tenants : IsSettled(r, u) => IsSettled(r, u)'
      BY <1>1, <1>7, SettledStays DEF AuditInv, RunOK
    <3> QED
      BY <1>5, <3>1 DEF IsSettled
  <2>3. IsSettled(s, t)'
    <3> SUFFICES ASSUME NEW e \in Events, owner'[e] = t
                 PROVE  /\ e \in r.began.old => e \notin hot'
                        /\ e \in r.began.dead => e \notin archive'
      BY <1>5 DEF IsSettled
    <3>1. e \in Of(t)
      BY <1>3 DEF Of
    <3>2. e \in r.began.old => e \in x.old
      BY <1>6
    <3>3. e \in r.began.dead => e \in x.dead
      BY <1>6
    <3> QED
      BY <1>3, <1>6, <3>1, <3>2, <3>3
  <2>4. \A u \in Tenants : u \in s.left \/ s.txs[u] # Off \/ u \in s.failed \/ IsSettled(s, u)'
    BY <1>1, <1>5, <2>2, <2>3 DEF RunOK
  <2>5. s.began.old \subseteq Older({"old", "dead"})' /\ s.began.dead \subseteq Older({"dead"})' \cap s.began.old
    BY <1>1, <1>3, <1>5 DEF RunOK, Older
  <2> QED
    BY <1>1, <1>5, <2>1, <2>4, <2>5 DEF RunOK
<1>13. \A u \in Tenants : s.txs[u] # Off => s.txs[u] = r.txs[u]
  BY <1>5
<1>14. \A i \in Jobs, u \in Tenants :
        i # j /\ jobs[i] # Off /\ jobs[i].txs[u] # Off => jobs[i].txs[u].moves \subseteq hot'
  BY <1>11
<1> QED
  BY <1>1, <1>3, <1>4, <1>7, <1>8, <1>9, <1>12, <1>13, <1>14, MovingStep

\* The statements on the platform's events.
LEMMA PlatformStep ==
    ASSUME AuditInv, NEW j \in Jobs, MovePlatform(j) \/ DropPlatform(j) PROVE AuditInv'
<1> DEFINE movidos == hot \cap Of(Platform) \cap Older({"old", "dead"})
           gone == Of(Platform) \cap Older({"dead"})
<1>1. PICK r \in Runs : jobs[j] = r /\ RunOK(r)
  BY TheRun DEF MovePlatform, DropPlatform
<1> DEFINE s == [r EXCEPT !.at = IF r.at = "platform" THEN "platform moved" ELSE "done"]
<1>2. r \in [left : SUBSET Tenants, failed : SUBSET (Tenants \cup {Platform}),
             at : {"tenants", "platform", "platform moved", "done"},
             txs : [Tenants -> Transactions \cup {Off}],
             began : [old : SUBSET Events, dead : SUBSET Events]]
  BY DEF Runs
<1>3. /\ jobs' = [jobs EXCEPT ![j] = s] /\ UNCHANGED <<age, owner>>
      /\ \/ r.at = "platform" /\ hot' = hot \ movidos /\ archive' = archive \cup movidos
         \/ r.at = "platform moved" /\ hot' = hot /\ archive' = archive \ gone
  BY <1>1 DEF MovePlatform, DropPlatform, AuditInv, AuditTypeOK
<1>4. s \in Runs
  BY <1>2 DEF Runs
<1>5. /\ s.left = r.left /\ s.failed = r.failed /\ s.began = r.began /\ s.txs = r.txs
      /\ s.at = IF r.at = "platform" THEN "platform moved" ELSE "done"
  BY <1>2
<1> HIDE DEF s
<1>6. TablesMove
  BY <1>3 DEF TablesMove
<1>7. TablesOK'
  <2>1. gone \cap {e \in Events : age[e] \in {"hot", "old"}} = {}
    BY DEF Older
  <2>2. gone \subseteq Events /\ movidos \subseteq hot
    BY DEF Older
  <2> HIDE DEF gone, movidos
  <2> QED
    BY <1>3, <2>1, <2>2 DEF AuditInv, TablesOK
<1>8. AuditTypeOK'
  BY <1>3, <1>4 DEF AuditInv, AuditTypeOK
<1>9. \A i \in Jobs, u \in Tenants :
        jobs[i] # Off /\ jobs[i].txs[u] # Off => jobs[i].txs[u].moves \subseteq hot'
  <2> SUFFICES ASSUME NEW i \in Jobs, NEW u \in Tenants, jobs[i] # Off, jobs[i].txs[u] # Off
               PROVE  jobs[i].txs[u].moves \subseteq hot'
    OBVIOUS
  <2>1. jobs[i].txs[u].moves \subseteq hot /\ jobs[i].txs[u].moves \cap Of(Platform) = {}
    BY OthersMoves, OwnersAssumption DEF Owners
  <2> QED
    BY <1>3, <2>1
<1>10. RunOK(r)'
  <2>1. \A u \in Tenants : r.txs[u] # Off => r.txs[u].moves \subseteq hot'
    BY <1>1, <1>9, OffAssumption
  <2> QED
    BY <1>1, <1>6, <2>1, RunStays DEF AuditInv
<1>11. RunOK(s)'
  <2>1. /\ \A u \in Tenants : s.txs[u] # Off => TransactionOK(s, u)'
        /\ \A u \in Tenants : u \in s.left \/ s.txs[u] # Off \/ u \in s.failed \/ IsSettled(s, u)'
    BY <1>5, <1>10 DEF RunOK, TransactionOK, IsSettled
  <2>2. s.left = {} /\ \A u \in Tenants : s.txs[u] = Off
    BY <1>3, <1>5, <1>10 DEF RunOK
  <2>3. ASSUME s.at = "platform moved", NEW e \in Events, owner'[e] = Platform, e \in s.began.old
        PROVE  e \notin hot'
    BY <1>1, <1>3, <1>5, <2>3 DEF RunOK, Of
  <2>4. s.at = "done" => IsSettled(s, Platform)'
    BY <1>1, <1>3, <1>5 DEF RunOK, IsSettled, Of
  <2>5. s.began.old \subseteq Older({"old", "dead"})' /\ s.began.dead \subseteq Older({"dead"})' \cap s.began.old
    BY <1>5, <1>10 DEF RunOK
  <2> QED
    BY <2>1, <2>2, <2>3, <2>4, <2>5 DEF RunOK
<1> QED
  BY <1>1, <1>3, <1>4, <1>5, <1>6, <1>7, <1>8, <1>9, <1>11, MovingStep

\* Events come and grow old; the runs go on as they were.
LEMMA EventStep ==
    ASSUME AuditInv, NEW e \in Events, GrowsOld(e) \/ \E o \in Owners : Record(e, o) PROVE AuditInv'
<1>1. /\ hot \subseteq hot' /\ hot' \subseteq hot \cup {e} /\ UNCHANGED <<archive, jobs>>
      /\ \A f \in Events : f # e => age'[f] = age[f] /\ owner'[f] = owner[f]
      /\ age'[e] \in {"hot", "old", "dead"} /\ owner'[e] \in Owners
      /\ \/ age[e] = "none" /\ e \in hot' /\ age'[e] = "hot"
         \/ /\ hot' = hot /\ owner' = owner
            /\ (age[e] = "hot" /\ age'[e] = "old") \/ (age[e] = "old" /\ age'[e] = "dead")
  BY DEF GrowsOld, Record, AuditInv, AuditTypeOK
<1>2. AuditTypeOK'
  BY DEF GrowsOld, Record, AuditInv, AuditTypeOK
<1>3. TablesMove
  BY <1>1 DEF TablesMove
<1>4. TablesOK'
  BY <1>1 DEF AuditInv, AuditTypeOK, TablesOK
<1>5. \A i \in Jobs, q \in Runs : jobs'[i] = q => RunOK(q)'
  <2> SUFFICES ASSUME NEW i \in Jobs, NEW q \in Runs, jobs'[i] = q PROVE RunOK(q)'
    OBVIOUS
  <2>1. jobs[i] = q /\ q # Off /\ RunOK(q)
    BY <1>1, OffAssumption DEF AuditInv
  <2>2. \A t \in Tenants : q.txs[t] # Off => q.txs[t].moves \subseteq hot'
    BY <1>1, <2>1, OthersMoves
  <2> QED
    BY <1>3, <2>1, <2>2, RunStays DEF AuditInv
<1>6. MovesApart'
  BY <1>1 DEF AuditInv, MovesApart
<1> QED
  BY <1>2, <1>4, <1>5, <1>6 DEF AuditInv

LEMMA AuditStep == AuditInv /\ [AuditNext]_auditVars => AuditInv'
<1> SUFFICES ASSUME AuditInv, [AuditNext]_auditVars PROVE AuditInv'
  OBVIOUS
<1>1. CASE UNCHANGED auditVars
  <2>1. UNCHANGED <<age, owner, hot, archive, jobs>>
    BY <1>1 DEF auditVars
  <2>2. AuditTypeOK' /\ MovesApart'
    BY <2>1 DEF AuditInv, AuditTypeOK, MovesApart, Owners
  <2> QED
    BY <2>1, <2>2, TablesStay DEF AuditInv
<1>2. CASE AuditNext
  BY <1>2, EventStep, RunStep, PlatformStep, PlatformFailsStep, StopsStep, BatchStep, MoveStep,
     CommitBatchStep, FailsStep DEF AuditNext
<1> QED
  BY <1>1, <1>2

LEMMA AuditAlways == AuditSpec => []AuditInv
BY AuditInitial, AuditStep, PTL DEF AuditSpec

-----------------------------------------------------------------------------
\* Tables, events and runs have their types (AuditTypeOK).
THEOREM AuditTypes == AuditSpec => []AuditTypeOK
<1>1. AuditInv => AuditTypeOK
  BY DEF AuditInv
<1> QED
  BY <1>1, AuditAlways, PTL

\* However many runs of runDailyRetention there are, whatever fails and wherever the
\* process dies: an event is kept, in one table, until it is two years old; and a run that
\* is done has done it all for every owner it does not count as failed.
THEOREM KeptOnce == AuditSpec => []EventsAreKeptOnce
<1>1. AuditInv => EventsAreKeptOnce
  <2> SUFFICES ASSUME AuditInv PROVE EventsAreKeptOnce
    OBVIOUS
  <2>1. hot \cap archive = {} /\ \A e \in Events : age[e] \in {"hot", "old"} => e \in hot \cup archive
    BY DEF AuditInv, TablesOK
  <2>2. ASSUME NEW j \in Jobs, Finished(j), NEW e \in Events, owner[e] \notin jobs[j].failed
        PROVE  /\ e \in jobs[j].began.old => e \notin hot
               /\ e \in jobs[j].began.dead => e \notin archive
    <3>1. PICK r \in Runs : jobs[j] = r /\ RunOK(r)
      BY <2>2, TheRun DEF Finished
    <3>2. r.left = {} /\ (\A t \in Tenants : r.txs[t] = Off) /\ r.at = "done"
      BY <2>2, <3>1 DEF Finished, RunOK
    <3>3. owner[e] \in Tenants \cup {Platform}
      BY DEF AuditInv, AuditTypeOK, Owners
    <3>4. IsSettled(r, owner[e])
      BY <2>2, <3>1, <3>2, <3>3 DEF RunOK
    <3> QED
      BY <3>1, <3>4 DEF IsSettled
  <2> QED
    BY <2>1, <2>2 DEF EventsAreKeptOnce
<1> QED
  BY <1>1, AuditAlways, PTL

(* The links that confirm an e-mail address. *)

\* The facts of one transaction under way.
Fresh(k) ==
    Making(k) =>
        /\ operations[k].link \notin links \cup undone
        /\ operations[k].link # latest
        /\ uses[operations[k].link] = 0
        /\ \A l \in operations[k].old : l < operations[k].link
        /\ ~operations[k].beside => links \subseteq operations[k].old
        /\ operations[k].at = "register" => ~registered /\ ~operations[k].beside
        /\ operations[k].at = "resend" => registered

\* Two of them.
Apart(j, k) ==
    Making(j) /\ Making(k) /\ j # k =>
        /\ operations[j].link # operations[k].link
        /\ operations[j].beside /\ operations[k].beside

\* A link is used once, and works only before.
UsedOnce == \A l \in Links : uses[l] \in {0, 1} /\ (l \in links => uses[l] = 0 /\ l \notin undone)

\* What became of every link there was.
Accounted ==
    \A l \in 1 .. made : \/ l \in links \/ uses[l] = 1 \/ l \notin Committed
                         \/ \E m \in Committed : m > l

LinksInv ==
    /\ EmailTypeOK
    /\ \A k \in Operations : Fresh(k)
    /\ \A j, k \in Operations : Apart(j, k)
    /\ ~registered => links = {} /\ latest = 0
    /\ \A l \in Links : l > made => uses[l] = 0
    /\ latest \notin undone
    /\ UsedOnce
    /\ ~resendsCrossed => links \subseteq {latest}
    /\ Accounted

LEMMA LinksInit == EmailInit => LinksInv
<1> SUFFICES ASSUME EmailInit PROVE LinksInv
  OBVIOUS
<1>1. \A k \in Operations : operations[k].at = "idle" /\ ~Making(k)
  BY DEF EmailInit, NoWork, Making
<1>2. EmailTypeOK
  <2>1. operations \in [Operations -> {NoWork} \cup [at : {"verify"}, link : 1 .. made] \cup
            [at : {"register", "resend"}, link : 1 .. made, old : SUBSET (1 .. made), beside : BOOLEAN]]
    BY DEF EmailInit
  <2>2. uses \in [Links -> Nat]
    BY DEF EmailInit
  <2>3. made \in 0 .. MaxLinks /\ latest \in 0 .. made
    BY LinksAssumption DEF EmailInit
  <2>4. links \cup expired \cup mailed \cup undone = {}
    BY DEF EmailInit
  <2>5. {registered, verified, resendsCrossed} \subseteq BOOLEAN
    BY DEF EmailInit
  <2> QED
    BY <2>1, <2>2, <2>3, <2>4, <2>5 DEF EmailTypeOK
<1>3. UsedOnce
  BY DEF EmailInit, UsedOnce, Links
<1>4. Accounted
  BY DEF EmailInit, Accounted
<1> QED
  BY <1>1, <1>2, <1>3, <1>4 DEF EmailInit, LinksInv, Fresh, Apart

LEMMA LinksImplies == LinksInv => LinksWorkAsTold
BY LinksAssumption DEF LinksInv, LinksWorkAsTold, UsedOnce, Accounted, EmailTypeOK, Links

\* What a transaction under way is known by.
LEMMA LinkShape ==
    ASSUME EmailTypeOK, NEW k \in Operations
    PROVE  /\ Making(k) => operations[k] \in
                [at : {"register", "resend"}, link : 1 .. made, old : SUBSET (1 .. made), beside : BOOLEAN]
           /\ operations[k].at = "verify" => operations[k] \in [at : {"verify"}, link : 1 .. made]
           /\ operations[k] = NoWork => ~Making(k)
BY DEF EmailTypeOK, Making, NoWork

-----------------------------------------------------------------------------
\* A resend begins: it sees the links there are, and is beside whoever makes one.
LEMMA ResendStep == ASSUME LinksInv, NEW k \in Operations, Resend(k) PROVE LinksInv'
<1> USE DEF LinksInv
<1> DEFINE o == [at |-> "resend", link |-> made', old |-> links, beside |-> \E j \in Operations : Making(j)]
<1>1. /\ made' = made + 1 /\ made \in Nat /\ made' \in 0 .. MaxLinks
      /\ links \subseteq 1 .. made /\ 1 .. made \subseteq 1 .. made' /\ made' \in 1 .. made'
      /\ registered /\ made' \notin 1 .. made
  BY LinksAssumption DEF EmailTypeOK, Resend, GenerateAndSend
<1>2. /\ operations' = [Beside(k) EXCEPT ![k] = o]
      /\ UNCHANGED <<registered, verified, links, expired, uses, latest, undone, resendsCrossed>>
      /\ operations[k] = NoWork /\ mailed' \in {mailed, mailed \cup {made'}}
  BY DEF Resend, GenerateAndSend
<1>3. /\ operations'[k] = o
      /\ \A j \in Operations \ {k} : operations'[j] =
            IF Making(j) THEN [operations[j] EXCEPT !.beside = TRUE] ELSE operations[j]
  BY <1>2 DEF Beside
<1>4. \A j \in Operations \ {k} :
        /\ Making(j)' <=> Making(j)
        /\ operations'[j].at = operations[j].at
        /\ Making(j) => /\ operations'[j].link = operations[j].link
                        /\ operations'[j].old = operations[j].old
                        /\ operations'[j].beside
                        /\ operations[j].link \in 1 .. made
  BY <1>3, LinkShape DEF Making
<1>5. Making(k)' /\ ~Making(k) /\ operations'[k].link = made'
  BY <1>2, <1>3, LinkShape DEF Making
<1>6. EmailTypeOK'
  <2>1. \A j \in Operations : operations'[j] \in
            {NoWork} \cup [at : {"verify"}, link : 1 .. made'] \cup
            [at : {"register", "resend"}, link : 1 .. made', old : SUBSET (1 .. made'), beside : BOOLEAN]
    <3>1. operations'[k] \in [at : {"register", "resend"}, link : 1 .. made', old : SUBSET (1 .. made'), beside : BOOLEAN]
      BY <1>1, <1>3
    <3>2. ASSUME NEW j \in Operations \ {k} PROVE operations'[j] \in
            {NoWork} \cup [at : {"verify"}, link : 1 .. made'] \cup
            [at : {"register", "resend"}, link : 1 .. made', old : SUBSET (1 .. made'), beside : BOOLEAN]
      <4>1. CASE Making(j)
        <5>1. operations[j] \in [at : {"register", "resend"}, link : 1 .. made, old : SUBSET (1 .. made), beside : BOOLEAN]
          BY <4>1, LinkShape
        <5>2. operations'[j] = [operations[j] EXCEPT !.beside = TRUE]
          BY <1>3, <4>1
        <5>3. operations'[j] \in [at : {"register", "resend"}, link : 1 .. made, old : SUBSET (1 .. made), beside : BOOLEAN]
          BY <5>1, <5>2
        <5>4. SUBSET (1 .. made) \subseteq SUBSET (1 .. made')
          BY <1>1
        <5> QED
          BY <1>1, <5>3, <5>4
      <4>2. CASE ~Making(j)
        <5>1. operations[j] \in {NoWork} \cup [at : {"verify"}, link : 1 .. made] \cup
                [at : {"register", "resend"}, link : 1 .. made, old : SUBSET (1 .. made), beside : BOOLEAN]
          BY DEF EmailTypeOK
        <5>2. operations[j] = NoWork \/ operations[j] \in [at : {"verify"}, link : 1 .. made]
          BY <4>2, <5>1 DEF Making
        <5>3. operations'[j] = operations[j]
          BY <1>3, <4>2
        <5> QED
          BY <1>1, <5>2, <5>3
      <4> QED
        BY <4>1, <4>2
    <3> QED
      BY <3>1, <3>2
  <2>2. operations' = [j \in Operations |-> operations'[j]]
    BY <1>2 DEF Beside
  <2>3. links \cup expired \cup mailed' \cup undone \subseteq 1 .. made' /\ latest \in 0 .. made'
    BY <1>1, <1>2 DEF EmailTypeOK
  <2>4. operations' \in [Operations ->
            {NoWork} \cup [at : {"verify"}, link : 1 .. made'] \cup
            [at : {"register", "resend"}, link : 1 .. made', old : SUBSET (1 .. made'), beside : BOOLEAN]]
    BY <2>1, <2>2
  <2> QED
    BY <1>1, <1>2, <2>3, <2>4 DEF EmailTypeOK
<1>7. ASSUME NEW j \in Operations PROVE Fresh(j)'
  <2>1. CASE j = k
    BY <1>1, <1>2, <1>3, <1>5, <2>1, LinksAssumption DEF Fresh, EmailTypeOK, Links
  <2>2. CASE j # k
    BY <1>1, <1>2, <1>4, <2>2 DEF Fresh
  <2> QED
    BY <2>1, <2>2
<1>8. ASSUME NEW i \in Operations, NEW j \in Operations PROVE Apart(i, j)'
  <2>1. CASE i # k /\ j # k
    BY <1>4, <2>1 DEF Apart
  <2>2. CASE i = k /\ j # k
    BY <1>1, <1>3, <1>4, <2>2 DEF Apart
  <2>3. CASE i # k /\ j = k
    BY <1>1, <1>3, <1>4, <2>3 DEF Apart
  <2> QED
    BY <2>1, <2>2, <2>3 DEF Apart
<1>9. Committed' = Committed
  BY <1>1, <1>2, <1>4, <1>5 DEF Committed
<1>10. Accounted'
  <2> SUFFICES ASSUME NEW l \in 1 .. made'
               PROVE  l \in links \/ uses[l] = 1 \/ l \notin Committed \/ \E m \in Committed : m > l
    BY <1>2, <1>9 DEF Accounted
  <2>1. l \in 1 .. made \/ l \notin Committed
    BY DEF Committed
  <2> QED
    BY <2>1 DEF Accounted
<1>11. \A l \in Links : l > made' => uses[l] = 0
  BY <1>1 DEF Links
<1> QED
  BY <1>1, <1>2, <1>6, <1>7, <1>8, <1>10, <1>11 DEF UsedOnce

\* The account and its first link begin: nobody else makes one.
LEMMA RegisterStep == ASSUME LinksInv, NEW k \in Operations, Register(k) PROVE LinksInv'
<1> USE DEF LinksInv
<1> DEFINE o == [at |-> "register", link |-> made', old |-> {}, beside |-> FALSE]
<1>1. /\ made' = made + 1 /\ made \in Nat /\ made' \in 0 .. MaxLinks
      /\ 1 .. made \subseteq 1 .. made' /\ made' \in 1 .. made' /\ made' \notin 1 .. made
  BY LinksAssumption DEF EmailTypeOK, Register, GenerateAndSend
<1>2. /\ operations' = [operations EXCEPT ![k] = o]
      /\ UNCHANGED <<registered, verified, links, expired, uses, latest, undone, resendsCrossed>>
      /\ mailed' \in {mailed, mailed \cup {made'}}
      /\ ~registered /\ links = {} /\ latest = 0
      /\ \A j \in Operations : ~Making(j)
  BY DEF Register, GenerateAndSend
<1>3. operations'[k] = o /\ \A j \in Operations \ {k} : operations'[j] = operations[j]
  BY <1>2 DEF EmailTypeOK
<1>4. Making(k)' /\ operations'[k].link = made' /\ \A j \in Operations \ {k} : ~Making(j)'
  BY <1>2, <1>3 DEF Making
<1>5. EmailTypeOK'
  <2>1. \A j \in Operations : operations'[j] \in
            {NoWork} \cup [at : {"verify"}, link : 1 .. made'] \cup
            [at : {"register", "resend"}, link : 1 .. made', old : SUBSET (1 .. made'), beside : BOOLEAN]
    <3>1. operations'[k] \in [at : {"register", "resend"}, link : 1 .. made', old : SUBSET (1 .. made'), beside : BOOLEAN]
      BY <1>1, <1>3
    <3>2. ASSUME NEW j \in Operations \ {k}
          PROVE  operations'[j] \in {NoWork} \cup [at : {"verify"}, link : 1 .. made']
      <4>1. operations[j] \in {NoWork} \cup [at : {"verify"}, link : 1 .. made] \cup
                [at : {"register", "resend"}, link : 1 .. made, old : SUBSET (1 .. made), beside : BOOLEAN]
        BY DEF EmailTypeOK
      <4>2. operations[j] = NoWork \/ operations[j] \in [at : {"verify"}, link : 1 .. made]
        BY <1>2, <4>1 DEF Making
      <4> QED
        BY <1>1, <1>3, <4>2
    <3> QED
      BY <3>1, <3>2
  <2>2. operations' = [j \in Operations |-> operations'[j]]
    BY <1>2 DEF EmailTypeOK
  <2>3. links \cup expired \cup mailed' \cup undone \subseteq 1 .. made' /\ latest \in 0 .. made'
    BY <1>1, <1>2 DEF EmailTypeOK
  <2>4. operations' \in [Operations ->
            {NoWork} \cup [at : {"verify"}, link : 1 .. made'] \cup
            [at : {"register", "resend"}, link : 1 .. made', old : SUBSET (1 .. made'), beside : BOOLEAN]]
    BY <2>1, <2>2
  <2> QED
    BY <1>1, <1>2, <2>3, <2>4 DEF EmailTypeOK
<1>6. \A j \in Operations : Fresh(j)'
  <2>1. Fresh(k)'
    BY <1>1, <1>2, <1>3, LinksAssumption DEF Fresh, EmailTypeOK, Links
  <2> QED
    BY <1>4, <2>1 DEF Fresh
<1>7. \A i, j \in Operations : Apart(i, j)'
  BY <1>4 DEF Apart
<1>8. Committed' = Committed
  BY <1>1, <1>2, <1>4 DEF Committed
<1>9. Accounted'
  <2> SUFFICES ASSUME NEW l \in 1 .. made'
               PROVE  l \in links \/ uses[l] = 1 \/ l \notin Committed \/ \E m \in Committed : m > l
    BY <1>2, <1>8 DEF Accounted
  <2>1. l \in 1 .. made \/ l \notin Committed
    BY DEF Committed
  <2> QED
    BY <2>1 DEF Accounted
<1>10. \A l \in Links : l > made' => uses[l] = 0
  BY <1>1 DEF Links
<1> QED
  BY <1>1, <1>2, <1>5, <1>6, <1>7, <1>9, <1>10 DEF UsedOnce

\* A slot is free again, and the links are as they were or fewer.
LEMMA FreeStep ==
    ASSUME LinksInv, NEW k \in Operations, operations' = [operations EXCEPT ![k] = NoWork]
    PROVE  /\ operations' \in [Operations ->
                {NoWork} \cup [at : {"verify"}, link : 1 .. made] \cup
                [at : {"register", "resend"}, link : 1 .. made, old : SUBSET (1 .. made), beside : BOOLEAN]]
           /\ ~Making(k)'
           /\ \A j \in Operations \ {k} : operations'[j] = operations[j] /\ (Making(j)' <=> Making(j))
           /\ \A i, j \in Operations : Apart(i, j)'
<1>1. operations' \in [Operations ->
                {NoWork} \cup [at : {"verify"}, link : 1 .. made] \cup
                [at : {"register", "resend"}, link : 1 .. made, old : SUBSET (1 .. made), beside : BOOLEAN]]
  BY DEF LinksInv, EmailTypeOK
<1>2. operations'[k] = NoWork /\ \A j \in Operations \ {k} : operations'[j] = operations[j]
  BY DEF LinksInv, EmailTypeOK
<1>3. ~Making(k)' /\ \A j \in Operations \ {k} : Making(j)' <=> Making(j)
  BY <1>2 DEF Making, NoWork
<1>4. \A i, j \in Operations : Apart(i, j)'
  BY <1>2, <1>3 DEF Apart, LinksInv
<1> QED
  BY <1>1, <1>2, <1>3, <1>4

\* A link appears; those its resend saw are gone.
LEMMA CommitLinkStep == ASSUME LinksInv, NEW k \in Operations, CommitLink(k) PROVE LinksInv'
<1> USE DEF LinksInv
<1> DEFINE o == operations[k]
<1>1. /\ Making(k) /\ registered'
      /\ links' = (links \ o.old) \cup {o.link}
      /\ latest' = o.link /\ resendsCrossed' = o.beside
      /\ operations' = [operations EXCEPT ![k] = NoWork]
      /\ UNCHANGED <<verified, expired, mailed, made, uses, undone>>
  BY DEF CommitLink
<1>2. /\ o.link \in 1 .. made /\ o.old \subseteq 1 .. made /\ o.beside \in BOOLEAN
      /\ o.link \notin links \cup undone /\ uses[o.link] = 0
      /\ \A l \in o.old : l < o.link
      /\ made \in Nat /\ 1 .. made \subseteq Links
  BY <1>1, LinkShape, LinksAssumption DEF Fresh, EmailTypeOK, Links
<1>3. /\ ~Making(k)'
      /\ \A j \in Operations \ {k} : operations'[j] = operations[j] /\ (Making(j)' <=> Making(j))
      /\ \A i, j \in Operations : Apart(i, j)'
      /\ operations' \in [Operations ->
                {NoWork} \cup [at : {"verify"}, link : 1 .. made] \cup
                [at : {"register", "resend"}, link : 1 .. made, old : SUBSET (1 .. made), beside : BOOLEAN]]
  BY <1>1, FreeStep
<1>4. EmailTypeOK'
  <2>1. links' \cup expired \cup mailed \cup undone \subseteq 1 .. made /\ latest' \in 0 .. made
    BY <1>1, <1>2 DEF EmailTypeOK
  <2> QED
    BY <1>1, <1>2, <1>3, <2>1 DEF EmailTypeOK
<1>5. ASSUME NEW j \in Operations \ {k}, Making(j) PROVE operations[j].at = "resend" /\ operations[j].beside
  <2>1. operations[j].beside
    BY <1>1, <1>5 DEF Apart
  <2> QED
    BY <1>5, <2>1 DEF Fresh, Making
<1>6. ASSUME NEW j \in Operations PROVE Fresh(j)'
  <2>1. CASE j = k
    BY <1>3, <2>1 DEF Fresh
  <2>2. CASE j # k /\ Making(j)
    <3>1. operations[j].link # o.link
      BY <1>1, <2>2 DEF Apart
    <3> QED
      BY <1>1, <1>3, <1>5, <2>2, <3>1 DEF Fresh
  <2>3. CASE j # k /\ ~Making(j)
    BY <1>3, <2>3 DEF Fresh
  <2> QED
    BY <2>1, <2>2, <2>3
<1>7. UsedOnce'
  BY <1>1, <1>2 DEF UsedOnce
<1>8. ~resendsCrossed' => links' \subseteq {latest'}
  BY <1>1 DEF Fresh
<1>9. Committed' = Committed \cup {o.link}
  <2>1. ASSUME NEW j \in Operations \ {k}, Making(j) PROVE operations[j].link # o.link
    BY <1>1, <2>1 DEF Apart
  <2> QED
    BY <1>1, <1>2, <1>3, <2>1 DEF Committed
<1>10. Accounted'
  <2> SUFFICES ASSUME NEW l \in 1 .. made
               PROVE  l \in links' \/ uses[l] = 1 \/ l \notin Committed' \/ \E m \in Committed' : m > l
    BY <1>1 DEF Accounted
  <2>1. CASE l \in o.old
    BY <1>2, <1>9, <2>1
  <2>2. CASE l \notin o.old
    BY <1>1, <1>9, <2>2 DEF Accounted
  <2> QED
    BY <2>1, <2>2
<1> QED
  BY <1>1, <1>2, <1>3, <1>4, <1>6, <1>7, <1>8, <1>10

\* A transaction fails, and its link is never seen.
LEMMA UndoStep == ASSUME LinksInv, NEW k \in Operations, Undo(k) PROVE LinksInv'
<1> USE DEF LinksInv
<1>1. /\ undone' = IF Making(k) THEN undone \cup {operations[k].link} ELSE undone
      /\ operations' = [operations EXCEPT ![k] = NoWork]
      /\ UNCHANGED <<registered, verified, links, expired, mailed, made, uses, latest, resendsCrossed>>
  BY DEF Undo
<1>2. Making(k) => /\ operations[k].link \in 1 .. made
                   /\ operations[k].link \notin links /\ operations[k].link # latest
                   /\ \A j \in Operations \ {k} : Making(j) => operations[j].link # operations[k].link
  BY LinkShape DEF Fresh, Apart
<1>3. /\ ~Making(k)'
      /\ \A j \in Operations \ {k} : operations'[j] = operations[j] /\ (Making(j)' <=> Making(j))
      /\ \A i, j \in Operations : Apart(i, j)'
      /\ operations' \in [Operations ->
                {NoWork} \cup [at : {"verify"}, link : 1 .. made] \cup
                [at : {"register", "resend"}, link : 1 .. made, old : SUBSET (1 .. made), beside : BOOLEAN]]
  BY <1>1, FreeStep
<1>4. EmailTypeOK'
  <2>1. undone' \subseteq 1 .. made
    BY <1>1, <1>2 DEF EmailTypeOK
  <2> QED
    BY <1>1, <1>3, <2>1 DEF EmailTypeOK
<1>5. \A j \in Operations : Fresh(j)'
  BY <1>1, <1>2, <1>3 DEF Fresh
<1>6. UsedOnce' /\ latest' \notin undone'
  BY <1>1, <1>2 DEF UsedOnce
<1>7. Committed' = Committed
  BY <1>1, <1>2, <1>3 DEF Committed
<1> QED
  BY <1>1, <1>3, <1>4, <1>5, <1>6, <1>7 DEF Accounted

\* A click that has found its link; the slot makes none.
LEMMA VerifyStep ==
    ASSUME LinksInv, NEW k \in Operations, NEW l \in Links, Verify(k, l) PROVE LinksInv'
<1> USE DEF LinksInv
<1>1. /\ operations' = [operations EXCEPT ![k] = [at |-> "verify", link |-> l]]
      /\ UNCHANGED <<registered, verified, links, expired, mailed, made, uses, latest, undone, resendsCrossed>>
      /\ l \in 1 .. made /\ ~Making(k)
  BY LinkShape DEF Verify, EmailTypeOK
<1>2. EmailTypeOK'
  BY <1>1 DEF EmailTypeOK
<1>3. /\ ~Making(k)'
      /\ \A j \in Operations \ {k} : operations'[j] = operations[j] /\ (Making(j)' <=> Making(j))
  BY <1>1 DEF EmailTypeOK, Making
<1>4. \A j \in Operations : Fresh(j)'
  BY <1>1, <1>3 DEF Fresh
<1>5. \A i, j \in Operations : Apart(i, j)'
  BY <1>3 DEF Apart
<1>6. Committed' = Committed
  BY <1>1, <1>3 DEF Committed
<1> QED
  BY <1>1, <1>2, <1>4, <1>5, <1>6 DEF UsedOnce, Accounted

\* The click ends: the link is used if it is still there.
LEMMA ConfirmStep == ASSUME LinksInv, NEW k \in Operations, Confirm(k) PROVE LinksInv'
<1> USE DEF LinksInv
<1> DEFINE l == operations[k].link
<1>1. /\ operations' = [operations EXCEPT ![k] = NoWork]
      /\ UNCHANGED <<registered, expired, mailed, made, latest, undone, resendsCrossed>>
      /\ IF l \in links
         THEN verified' = TRUE /\ links' = links \ {l} /\ uses' = [uses EXCEPT ![l] = @ + 1]
         ELSE UNCHANGED <<verified, links, uses>>
      /\ l \in 1 .. made /\ l \in Links /\ ~Making(k)
  BY LinkShape, LinksAssumption DEF Confirm, EmailTypeOK, Links, Making
<1>2. /\ ~Making(k)'
      /\ \A j \in Operations \ {k} : operations'[j] = operations[j] /\ (Making(j)' <=> Making(j))
      /\ \A i, j \in Operations : Apart(i, j)'
      /\ operations' \in [Operations ->
                {NoWork} \cup [at : {"verify"}, link : 1 .. made] \cup
                [at : {"register", "resend"}, link : 1 .. made, old : SUBSET (1 .. made), beside : BOOLEAN]]
  BY <1>1, FreeStep
<1>3. /\ links' \subseteq links
      /\ \A m \in Links : m # l => uses'[m] = uses[m] /\ (m \in links' <=> m \in links)
      /\ uses'[l] = IF l \in links THEN 1 ELSE uses[l]
      /\ l \notin links'
      /\ uses' \in [Links -> Nat]
  BY <1>1 DEF EmailTypeOK, UsedOnce
<1>4. EmailTypeOK'
  BY <1>1, <1>2, <1>3 DEF EmailTypeOK
<1>5. ASSUME NEW j \in Operations PROVE Fresh(j)'
  <2>1. CASE j = k
    BY <1>2, <2>1 DEF Fresh
  <2>2. CASE j # k /\ Making(j)
    <3>1. operations[j].link \in Links /\ (l \in links => operations[j].link # l)
      BY <2>2, LinkShape, LinksAssumption DEF Fresh, EmailTypeOK, Links
    <3>2. uses'[operations[j].link] = 0
      BY <1>1, <1>3, <2>2, <3>1 DEF Fresh
    <3> QED
      BY <1>1, <1>2, <1>3, <2>2, <3>2 DEF Fresh
  <2>3. CASE j # k /\ ~Making(j)
    BY <1>2, <2>3 DEF Fresh
  <2> QED
    BY <2>1, <2>2, <2>3
<1>6. UsedOnce'
  BY <1>1, <1>3 DEF UsedOnce
<1>7. Committed' = Committed
  BY <1>1, <1>2 DEF Committed
<1>8. Accounted'
  <2> SUFFICES ASSUME NEW m \in 1 .. made
               PROVE  m \in links' \/ uses'[m] = 1 \/ m \notin Committed \/ \E n \in Committed : n > m
    BY <1>1, <1>7 DEF Accounted
  <2>1. m \in Links
    BY LinksAssumption DEF EmailTypeOK, Links
  <2>2. CASE m = l
    BY <1>3, <2>2 DEF Accounted
  <2>3. CASE m # l
    BY <1>3, <2>1, <2>3 DEF Accounted
  <2> QED
    BY <2>2, <2>3
<1>9. \A m \in Links : m > made' => uses'[m] = 0
  BY <1>1, <1>3 DEF Links, EmailTypeOK
<1> QED
  BY <1>1, <1>2, <1>3, <1>4, <1>5, <1>6, <1>8, <1>9

\* Links only grow old.
LEMMA ExpireStep == ASSUME LinksInv, NEW l \in Links, Expire(l) PROVE LinksInv'
<1> USE DEF LinksInv
<1>1. UNCHANGED <<registered, verified, links, mailed, operations, made, uses, latest, undone, resendsCrossed>>
  BY DEF Expire
<1>2. expired' \subseteq 1 .. made
  BY DEF Expire, EmailTypeOK
<1>3. EmailTypeOK'
  BY <1>1, <1>2 DEF EmailTypeOK
<1>4. (\A k \in Operations : Fresh(k)') /\ (\A j, k \in Operations : Apart(j, k)')
  BY <1>1 DEF Fresh, Apart, Making
<1>5. Committed' = Committed
  BY <1>1 DEF Committed, Making
<1> QED
  BY <1>1, <1>3, <1>4, <1>5 DEF UsedOnce, Accounted

LEMMA LinksNext == LinksInv /\ [EmailNext]_emailVars => LinksInv'
<1> SUFFICES ASSUME LinksInv, [EmailNext]_emailVars PROVE LinksInv'
  OBVIOUS
<1>1. ASSUME NEW k \in Operations,
             \/ Register(k) \/ Resend(k) \/ CommitLink(k) \/ Undo(k) \/ Confirm(k)
             \/ \E l \in Links : Verify(k, l)
      PROVE  LinksInv'
  BY <1>1, RegisterStep, ResendStep, CommitLinkStep, UndoStep, ConfirmStep, VerifyStep
<1>2. ASSUME NEW l \in Links, Expire(l) PROVE LinksInv'
  BY <1>2, ExpireStep
<1>3. CASE UNCHANGED emailVars
  <2>1. (\A k \in Operations : Fresh(k)') /\ (\A j, k \in Operations : Apart(j, k)')
    BY <1>3 DEF LinksInv, emailVars, Fresh, Apart, Making
  <2>2. Committed' = Committed
    BY <1>3 DEF emailVars, Committed, Making
  <2> QED
    BY <1>3, <2>1, <2>2 DEF LinksInv, emailVars, EmailTypeOK, UsedOnce, Accounted
<1> QED
  BY <1>1, <1>2, <1>3 DEF EmailNext

-----------------------------------------------------------------------------
\* The types of the links and of the transactions that make and use them.
THEOREM EmailTypes == EmailSpec => []EmailTypeOK
<1>1. LinksInv => EmailTypeOK
  BY DEF LinksInv
<1> QED
  BY <1>1, LinksInit, LinksNext, PTL DEF EmailSpec

\* A link confirms at most once; without crossing resends the last one alone works; and a
\* link that does not was used, undone or replaced, whatever fails and however many
\* registrations, resends and clicks run at the same time.
THEOREM LinksWork == EmailSpec => []LinksWorkAsTold
BY LinksInit, LinksNext, LinksImplies, PTL DEF EmailSpec

(* The six side by side. *)

LEMMA PizzeriasAreSix ==
    PizzeriaSpec => /\ StockInit /\ [][StockNext]_stockVars
                    /\ TeamInit /\ [][TeamNext]_teamVars
                    /\ FinanceInit /\ [][FinanceNext]_financeVars
                    /\ StoreInit /\ [][StoreNext]_storeVars
                    /\ AuditInit /\ [][AuditNext]_auditVars
                    /\ EmailInit /\ [][EmailNext]_emailVars
<1>1. PizzeriaInit => StockInit /\ TeamInit /\ FinanceInit /\ StoreInit /\ AuditInit /\ EmailInit
  BY DEF PizzeriaInit
<1>2. [PizzeriaNext]_pizzeriaVars => /\ [StockNext]_stockVars /\ [TeamNext]_teamVars
                                     /\ [FinanceNext]_financeVars /\ [StoreNext]_storeVars
                                     /\ [AuditNext]_auditVars /\ [EmailNext]_emailVars
  BY DEF PizzeriaNext, pizzeriaVars
<1> QED
  BY <1>1, <1>2, PTL DEF PizzeriaSpec

\* Items, members, expenses, settings, events, links and the calls over them have their types
\* (PizzeriaTypeOK).
THEOREM PizzeriaTypes == PizzeriaSpec => []PizzeriaTypeOK
<1>1. StockTypeOK /\ TeamTypeOK /\ FinanceTypeOK /\ StoreTypeOK /\ AuditTypeOK /\ EmailTypeOK
      => PizzeriaTypeOK
  BY DEF PizzeriaTypeOK
<1> QED
  BY <1>1, PizzeriasAreSix, StockTypes, TeamTypes, FinanceTypes, StoreTypes, AuditTypes, EmailTypes, PTL
     DEF StockSpec, TeamSpec, FinanceSpec, StoreSpec, AuditSpec, EmailSpec

=============================================================================
