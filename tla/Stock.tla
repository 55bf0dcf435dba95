--------------------------------- MODULE Stock ---------------------------------
(***************************************************************************)
(* The stock screen of the panel (Inventory.tsx) over GET, POST, PATCH and *)
(* DELETE /inventory.                                                      *)
(*                                                                         *)
(* The buttons + and - send the quantity that results, not the change: it  *)
(* is computed from the list as it was rendered, and the API stores it.    *)
(* Nothing is disabled while a call is under way.                          *)
(***************************************************************************)
EXTENDS Integers

CONSTANTS
    Items,
    MaxQuantity,    \* bound: quantities
    StockCalls,     \* slots: calls of this screen under way
    Gone

ASSUME MaxQuantityAssumption == MaxQuantity \in Nat \ {0}
ASSUME GoneAssumption == Gone \notin Int

VARIABLES
    quantity,   \* inventory_items.quantity (Gone: no row)
    listing,    \* the GET of this visit
    onScreen,   \* items
    repeated,   \* items that the screen has in two rows, which change alike
    stockCalls,
    tally,      \* history: what the clicks on the item should have made of it
    crossed,    \* history: items written on a quantity that was not that, until listed anew
    lastCalls,  \* history: calls that wrote the last of an item, and whose answer is to come
    outrun,     \* history: items written since the GET read them
    unshown     \* history: items of which the screen may not show what is stored

stockCounts == <<tally, crossed>>
stockShown == <<lastCalls, outrun, unshown>>
stockVars == <<quantity, listing, onScreen, repeated, stockCalls, stockCounts, stockShown>>

Quantities == 0..MaxQuantity
Shelves == [Items -> Quantities \cup {Gone}]

\* A call, with the quantity it leaves; live, if the screen that made it is still there.
StockIdle == [at |-> "idle"]
StockSent ==
    [at : {"sent", "applied"}, kind : {"adjust", "add"}, item : Items, quantity : Quantities, live : BOOLEAN] \cup
    [at : {"sent", "applied"}, kind : {"remove"}, item : Items, quantity : {Gone}, live : BOOLEAN]

StockInit ==
    /\ quantity \in Shelves
    /\ listing = [at |-> "sent"]
    /\ onScreen = [i \in Items |-> Gone]
    /\ stockCalls = [k \in StockCalls |-> StockIdle]
    /\ tally = quantity
    /\ crossed = {} /\ repeated = {}
    /\ lastCalls = {} /\ outrun = {} /\ unshown = Items

Settled(i) == \A k \in StockCalls : stockCalls[k] # StockIdle => stockCalls[k].item # i
Waiting(i) == {k \in StockCalls : stockCalls[k].at = "sent" /\ stockCalls[k].item = i}
Unserved(i) == Waiting(i) # {}

-----------------------------------------------------------------------------
\* The screen is left and opened again: what its calls still answer goes nowhere.
OpenStock ==
    /\ listing' = [at |-> "sent"]
    /\ onScreen' = [i \in Items |-> Gone]
    /\ stockCalls' = [k \in StockCalls |->
            IF stockCalls[k] = StockIdle THEN StockIdle ELSE [stockCalls[k] EXCEPT !.live = FALSE]]
    /\ repeated' = {} /\ lastCalls' = {} /\ outrun' = {} /\ unshown' = Items
    /\ UNCHANGED <<quantity, stockCounts>>

\* InventoryService.list; the count starts again.
ReadStock ==
    /\ listing.at = "sent"
    /\ listing' = [at |-> "read", rows |-> quantity]
    /\ tally' = [i \in Items |-> IF Unserved(i) THEN tally[i] ELSE quantity[i]]
    /\ crossed' = {i \in crossed : Unserved(i)}
    /\ UNCHANGED <<quantity, onScreen, repeated, stockCalls, stockShown>>

\* setItems, or nothing if the GET fails.
StockListed ==
    /\ listing.at = "read"
    /\ \/ /\ onScreen' = listing.rows
          /\ repeated' = {} /\ unshown' = outrun
       \/ UNCHANGED <<onScreen, repeated, unshown>>
    /\ listing' = [at |-> "over"]
    /\ outrun' = {}
    /\ UNCHANGED <<quantity, stockCalls, stockCounts, lastCalls>>

Send(k, kind, i, n) ==
    /\ stockCalls[k] = StockIdle
    /\ stockCalls' = [stockCalls EXCEPT ![k] =
            [at |-> "sent", kind |-> kind, item |-> i, quantity |-> n, live |-> TRUE]]
    /\ UNCHANGED <<quantity, listing, onScreen, repeated, stockShown>>

\* Mutant of Plus: nothing stops at zero.
PlusOrLess(n, delta) == n + delta

\* Math.max(0, ...)
Plus(n, delta) == IF n + delta < 0 THEN 0 ELSE n + delta

\* adjustQuantity: a click counts on the quantity of this render.
Count(i, delta) ==
    IF i \notin crossed /\ onScreen[i] = tally[i] /\ ~Unserved(i)
    THEN /\ tally' = [tally EXCEPT ![i] = Plus(@, delta)]
         /\ UNCHANGED crossed
    ELSE /\ crossed' = crossed \cup {i}
         /\ UNCHANGED tally

\* Mutant of Adjust: a click counts twice.
AdjustTwice(k, i, delta) ==
    /\ onScreen[i] # Gone /\ onScreen[i] + 2 * delta <= MaxQuantity
    /\ Send(k, "adjust", i, Plus(onScreen[i], 2 * delta))
    /\ Count(i, delta)

Adjust(k, i, delta) ==
    /\ onScreen[i] # Gone /\ onScreen[i] + delta <= MaxQuantity
    /\ Send(k, "adjust", i, Plus(onScreen[i], delta))
    /\ Count(i, delta)

\* removeItem.
RemoveItem(k, i) ==
    /\ onScreen[i] # Gone
    /\ Send(k, "remove", i, Gone)
    /\ tally' = [tally EXCEPT ![i] = Gone]
    /\ UNCHANGED crossed

\* handleAddItem: an item with an id nothing has seen.
AddItem(k, i, n) ==
    /\ quantity[i] = Gone /\ onScreen[i] = Gone /\ Settled(i)
    /\ listing.at = "read" => listing.rows[i] = Gone
    /\ Send(k, "add", i, n)
    /\ tally' = [tally EXCEPT ![i] = n]
    /\ crossed' = crossed \ {i}

-----------------------------------------------------------------------------
\* A write of item i, after which the answers that are still to come are old, but for those
\* of the calls in hears: the one that wrote, if its screen is there to hear of it.
Overwrites(i, hears) ==
    /\ lastCalls' = {k \in lastCalls : stockCalls[k].item # i} \cup hears
    /\ outrun' = IF listing.at = "read" THEN outrun \cup {i} ELSE outrun
    /\ unshown' = IF hears = {} THEN unshown \cup {i} ELSE unshown

\* InventoryService.create, update and remove: an item that is gone is refused.
StockServed(k) ==
    LET call == stockCalls[k] IN
    /\ call.at = "sent"
    /\ call.kind = "add" \/ quantity[call.item] # Gone
    /\ quantity' = [quantity EXCEPT ![call.item] = call.quantity]
    /\ stockCalls' = [stockCalls EXCEPT ![k].at = "applied"]
    /\ Overwrites(call.item, IF call.live THEN {k} ELSE {})
    /\ UNCHANGED <<listing, onScreen, repeated, stockCounts>>

\* Somebody else of the staff.
OtherAdjusts(i, n) ==
    /\ quantity[i] # Gone
    /\ quantity' = [quantity EXCEPT ![i] = n]
    /\ tally' = [tally EXCEPT ![i] = n]
    /\ crossed' = IF Unserved(i) THEN crossed \cup {i} ELSE crossed
    /\ Overwrites(i, {})
    /\ UNCHANGED <<listing, onScreen, repeated, stockCalls>>

\* An answer finds its row, or is the new row, or changes nothing.
Heard(call) == call.live /\ (call.kind = "adjust" => onScreen[call.item] # Gone)

\* map and filter by id; a new item is put at the end, even if the list has it by now.
StockAnswered(k) ==
    LET call == stockCalls[k]
        i == call.item IN
    /\ call.at = "applied"
    /\ onScreen' = IF Heard(call) THEN [onScreen EXCEPT ![i] = call.quantity] ELSE onScreen
    /\ repeated' =
        IF ~Heard(call) THEN repeated
        ELSE IF call.kind = "add" /\ onScreen[i] # Gone THEN repeated \cup {i}
        ELSE IF call.kind = "remove" THEN repeated \ {i} ELSE repeated
    /\ unshown' =
        IF Heard(call) /\ k \in lastCalls /\ i \notin repeated' THEN unshown \ {i}
        ELSE IF Heard(call) \/ k \in lastCalls THEN unshown \cup {i} ELSE unshown
    /\ stockCalls' = [stockCalls EXCEPT ![k] = StockIdle]
    /\ lastCalls' = lastCalls \ {k}
    /\ UNCHANGED <<quantity, listing, stockCounts, outrun>>

\* Refused, or the answer lost: nobody catches it, and the list stays.
StockFails(k) ==
    /\ stockCalls[k] # StockIdle
    /\ stockCalls' = [stockCalls EXCEPT ![k] = StockIdle]
    /\ crossed' = IF stockCalls[k].at = "sent" THEN crossed \cup {stockCalls[k].item} ELSE crossed
    /\ unshown' = IF k \in lastCalls THEN unshown \cup {stockCalls[k].item} ELSE unshown
    /\ lastCalls' = lastCalls \ {k}
    /\ UNCHANGED <<quantity, listing, onScreen, repeated, tally, outrun>>

StockNext ==
    \/ OpenStock \/ ReadStock \/ StockListed
    \/ \E i \in Items, n \in Quantities : OtherAdjusts(i, n)
    \/ \E k \in StockCalls :
        \/ StockServed(k) \/ StockAnswered(k) \/ StockFails(k)
        \/ \E i \in Items :
            \/ RemoveItem(k, i)
            \/ \E delta \in {-1, 1} : Adjust(k, i, delta)
            \/ \E n \in Quantities : AddItem(k, i, n)

StockSpec == StockInit /\ [][StockNext]_stockVars

-----------------------------------------------------------------------------
StockTypeOK ==
    /\ {quantity, onScreen, tally} \subseteq Shelves
    /\ listing \in [at : {"sent", "over"}] \cup [at : {"read"}, rows : Shelves]
    /\ stockCalls \in [StockCalls -> StockSent \cup {StockIdle}]
    /\ crossed \subseteq Items /\ repeated \subseteq Items /\ outrun \subseteq Items /\ unshown \subseteq Items
    /\ lastCalls \subseteq StockCalls

\* The screen may be believed about the item: it was not overtaken, and waits for nothing.
ScreenKnows(i) == i \notin unshown /\ \A k \in lastCalls : stockCalls[k].item # i

\* Absolute quantities lose clicks in one way only: a click made on a reading that was
\* already old (before the answer of the last click, after somebody else's), or written
\* over somebody's.  Every other click counts, once.  And however such clicks cross, the
\* screen shows what came of them, each item once: except for an item that somebody else
\* wrote, or the screen before this, since it was listed or while it was, of which the last
\* answer was lost or another came after it, or that was listed before its own answer came.
StockSettles ==
    /\ \A i \in Items \ crossed : ~Unserved(i) => quantity[i] = tally[i]
    /\ \A i \in Items : ScreenKnows(i) => onScreen[i] = quantity[i] /\ i \notin repeated

=============================================================================
