------------------------------ MODULE CartPrices ------------------------------
(***************************************************************************)
(* What the customer is shown and what he is charged: the menu, the pizza  *)
(* builder and the cart of apps/cliente against the prices of the API.     *)
(*                                                                         *)
(* The app computes a price to show it, from products it read some time    *)
(* ago; the API computes the order anew from what it holds when the order  *)
(* comes.  Nothing in the request says what was shown.  A line of the cart *)
(* keeps the products and the price it was made with, the builder keeps    *)
(* the flavors it was given, and loadCatalog replaces neither.             *)
(*                                                                         *)
(* Prices are in cents.  A drink may cost nothing, a pizza may not (the    *)
(* DTO refuses it; a pizza saved before it did is left out), and either    *)
(* may have no price, which is another thing to the API.  An edition is    *)
(* what the API held after some write of the owner.  Both GETs of          *)
(* loadCatalog are cached and two refreshes may cross, so a refresh may    *)
(* bring any edition.  Which tab, which search and which size a card is    *)
(* set to are left out: any product listed can be reached, and a card can  *)
(* be set to any size that has a price.  Leaving the checkout screen while *)
(* it submits, and the retries, are in Checkout.                           *)
(***************************************************************************)
EXTENDS Integers, Sequences, Functions

CONSTANTS
    Pizzas,
    Drinks,         \* and the desserts, which are handled alike
    PizzaSizes,
    DefaultSize,    \* also the column of the one price of a drink
    Prices,         \* the prices and fees the owner types, but for the 0 of a drink
    MaxUnits,       \* bound: units in the cart
    MaxEditions     \* bound: editions of the menu

Goods == Pizzas \cup Drinks
NoPrice == -1

\* The prices that the DTO lets the owner give a product.
PricesOf(p) == Prices \cup (IF p \in Drinks THEN {0} ELSE {})

ASSUME PricesAssumption == Prices \subseteq Nat \ {0} /\ DefaultSize \in PizzaSizes
ASSUME PizzasAssumption == Pizzas \cap Drinks = {}

VARIABLES
    editions,   \* history of what the API holds; the last is what it holds now
    catalog,    \* the edition of mockPizzas and mockDrinks
    branding,   \* the edition of mockTenant
    screen,     \* "menu", "builder", "cart", "checkout"
    builder,    \* the size and the flavors of the mounted builder
    basket,     \* the lines of the cart
    placing     \* the order: what was shown, what was charged and the editions it was made of

cartVars == <<editions, catalog, branding, screen, builder, basket, placing>>

\* What the API holds: the products there are, those it lists, their prices, the fee, the store.
Editions == [sold : SUBSET Goods, listed : SUBSET Goods,
             price : [Goods -> [PizzaSizes -> Prices \cup {0, NoPrice}]], fee : Prices, open : BOOLEAN]

\* A product as the app holds it: an object of some edition.
Objects == [id : Goods, of : Nat \ {0}]

Lines == [items : SUBSET Objects, size : PizzaSizes, price : Nat, quantity : Nat \ {0}]
Builders == [at : {"open"}, items : SUBSET Objects, size : PizzaSizes]

Now == Len(editions)

Price(item, size) == editions[item.of].price[item.id][size]

\* The mean of the two flavors, or of the one with itself, rounded to the cent, half up.
Mean(items, size) ==
    LET i == CHOOSE i \in items : TRUE
        j == CHOOSE j \in items : items = {i, j}
    IN  (Price(i, size) + Price(j, size) + 1) \div 2

Priced(items, size) == \A i \in items : Price(i, size) # NoPrice

\* The price on the card of a drink: 0 for the one it has not.
ShownPrice(item) == IF Price(item, DefaultSize) = NoPrice THEN 0 ELSE Price(item, DefaultSize)

Quantities(lines) == SumFunction([l \in lines |-> l.quantity])
Subtotal(lines) == SumFunction([l \in lines |-> l.price * l.quantity])

\* The total of App.tsx and of the cart, in its two parts.
ShownTotal == [goods |-> Subtotal(basket), fee |-> editions[branding].fee]

Idle == [at |-> "idle"]

CartInit ==
    /\ \E price \in [Goods -> [PizzaSizes -> Prices]], fee \in Prices :
        editions = <<[sold |-> Goods, listed |-> Goods, price |-> price, fee |-> fee, open |-> TRUE]>>
    /\ catalog = 1 /\ branding = 1
    /\ screen = "menu" /\ builder = Idle /\ basket = {} /\ placing = Idle

-----------------------------------------------------------------------------
(* The owner. *)

Edit(edition) ==
    /\ Now < MaxEditions
    /\ editions' = Append(editions, edition)
    /\ UNCHANGED <<catalog, branding, screen, builder, basket, placing>>

\* A PATCH of a product gives a price or takes it away.
PriceProduct(p, size, price) ==
    /\ p \in editions[Now].sold /\ (p \in Drinks => size = DefaultSize)
    /\ Edit([editions[Now] EXCEPT !.price[p][size] = price])

\* available: false.
Unlist(p) ==
    /\ p \in editions[Now].listed
    /\ Edit([editions[Now] EXCEPT !.listed = @ \ {p}])

TakeOffMenu(p) ==
    /\ p \in editions[Now].sold
    /\ Edit([editions[Now] EXCEPT !.sold = @ \ {p}, !.listed = @ \ {p}])

SetFee(fee) == Edit([editions[Now] EXCEPT !.fee = fee])
SwitchStore == Edit([editions[Now] EXCEPT !.open = ~@])

-----------------------------------------------------------------------------
(* The customer app. *)

Shows(p) == p \in editions[catalog].listed
Card(p) == [id |-> p, of |-> catalog]
StoreLooksOpen == editions[branding].open

\* The card of a pizza can be set to the size, and its buttons work.
CardOffers(p, size) == Shows(p) /\ StoreLooksOpen /\ Priced({Card(p)}, size)

\* The list of second flavors takes a click on p.
OfferedAsSecond(p) ==
    Shows(p) /\ p \notin {i.id : i \in builder.items} /\ Priced({Card(p)}, builder.size)

\* loadCatalog, when the window is back: it leaves the cart and the builder alone.
Refresh(c, b) ==
    /\ catalog' = c /\ branding' = b
    /\ UNCHANGED <<editions, screen, builder, basket, placing>>

Ids(items) == {i.id : i \in items}

\* sameFlavors, in the same size; for a drink, the same drink.
Same(line, items, size) == Ids(line.items) = Ids(items) /\ line.size = size

\* One more of the line that is there, at its price, or a new line.
Put(items, size, price) ==
    /\ Quantities(basket) < MaxUnits
    /\ basket' =
        IF \E l \in basket : Same(l, items, size)
        THEN {IF Same(l, items, size) THEN [l EXCEPT !.quantity = @ + 1] ELSE l : l \in basket}
        ELSE basket \cup {[items |-> items, size |-> size, price |-> price, quantity |-> 1]}

AddSingleFlavor(p, size) ==
    /\ screen = "menu" /\ CardOffers(p, size)
    /\ Put({Card(p)}, size, Mean({Card(p)}, size))
    /\ UNCHANGED <<editions, catalog, branding, screen, builder, placing>>

\* A closed store does not disable it, nor does a price that is not there.
AddDrink(d) ==
    /\ screen = "menu" /\ Shows(d)
    /\ Put({Card(d)}, DefaultSize, ShownPrice(Card(d)))
    /\ UNCHANGED <<editions, catalog, branding, screen, builder, placing>>

StartHalfHalf(p, size) ==
    /\ screen = "menu" /\ CardOffers(p, size)
    /\ builder' = [at |-> "open", items |-> {Card(p)}, size |-> size]
    /\ screen' = "builder"
    /\ UNCHANGED <<editions, catalog, branding, basket, placing>>

PickSize(size) ==
    /\ screen = "builder"
    /\ Priced(builder.items, size)
    /\ builder' = [builder EXCEPT !.size = size]
    /\ UNCHANGED <<editions, catalog, branding, screen, basket, placing>>

\* The second half comes from the menu as it is by then.
AddFlavor(p) ==
    /\ screen = "builder"
    /\ (\E i \in builder.items : builder.items = {i}) /\ OfferedAsSecond(p)
    /\ builder' = [builder EXCEPT !.items = @ \cup {Card(p)}]
    /\ UNCHANGED <<editions, catalog, branding, screen, basket, placing>>

RemoveFlavor(p) ==
    /\ screen = "builder"
    /\ p \in Ids(builder.items) /\ Ids(builder.items) # {p}
    /\ builder' = [builder EXCEPT !.items = {i \in @ : i.id # p}]
    /\ UNCHANGED <<editions, catalog, branding, screen, basket, placing>>

\* Mutant of CurrentPrice: it is rounded down.
CurrentPriceRoundedDown ==
    LET i == CHOOSE i \in builder.items : TRUE
        j == CHOOSE j \in builder.items : builder.items = {i, j}
    IN  (Price(i, builder.size) + Price(j, builder.size)) \div 2

\* calculatePrice, at every render.
CurrentPrice == Mean(builder.items, builder.size)

AddToCart ==
    /\ screen = "builder"
    /\ Priced(builder.items, builder.size)
    /\ Put(builder.items, builder.size, CurrentPrice)
    /\ screen' = "menu" /\ builder' = Idle
    /\ UNCHANGED <<editions, catalog, branding, placing>>

\* The screens, and back; the button to the checkout is disabled in a store that looks closed.
Ways == {<<"builder", "menu">>, <<"menu", "cart">>, <<"cart", "menu">>, <<"cart", "checkout">>,
         <<"checkout", "cart">>}
Go(to) ==
    /\ <<screen, to>> \in Ways /\ placing = Idle
    /\ <<screen, to>> = <<"menu", "cart">> => basket # {}
    /\ to = "checkout" => basket # {} /\ StoreLooksOpen
    /\ screen' = to /\ builder' = Idle
    /\ UNCHANGED <<editions, catalog, branding, basket, placing>>

ChangeQuantity(l, quantity) ==
    /\ screen = "cart" /\ l \in basket
    /\ Quantities(basket) - l.quantity + quantity <= MaxUnits
    /\ basket' = (basket \ {l}) \cup {[l EXCEPT !.quantity = quantity]}
    /\ UNCHANGED <<editions, catalog, branding, screen, builder, placing>>

RemoveLine(l) ==
    /\ screen = "cart" /\ l \in basket
    /\ basket' = basket \ {l}
    /\ UNCHANGED <<editions, catalog, branding, screen, builder, placing>>

\* buildOrderItems sends no price; all that placing holds is history.
SendOrder ==
    /\ screen = "checkout" /\ placing = Idle /\ StoreLooksOpen
    /\ placing' = [at |-> "sent", shown |-> ShownTotal]
    /\ UNCHANGED <<editions, catalog, branding, screen, builder, basket>>

-----------------------------------------------------------------------------
(* The API. *)

\* The products of a line as the API has them in edition n.
Present(items, n) == {[id |-> p, of |-> n] : p \in Ids(items)}

\* insertOrder: each product there (listed or not), each with its price.
CanBeOrdered(lines, n) ==
    \A l \in lines : Ids(l.items) \subseteq editions[n].sold /\ Priced(Present(l.items, n), l.size)

\* The goods of edition n, the fee of edition t.
OrderTotal(lines, t, n) ==
    [goods |-> SumFunction([l \in lines |-> Mean(Present(l.items, n), l.size) * l.quantity]),
     fee |-> editions[t].fee]

\* The pizzeria is read first, and a closed one takes no order.
ReadTenant ==
    /\ placing.at = "sent"
    /\ placing' = [at |-> IF editions[Now].open THEN "met" ELSE "refused",
                   shown |-> placing.shown, tenant |-> Now, edition |-> Now]
    /\ UNCHANGED <<editions, catalog, branding, screen, builder, basket>>

\* Then the products, by a statement of its own, which sees what was written since.
InsertOrder ==
    /\ placing.at = "met"
    /\ placing' =
        IF CanBeOrdered(basket, Now)
        THEN [at |-> "placed", shown |-> placing.shown, tenant |-> placing.tenant, edition |-> Now,
              charged |-> OrderTotal(basket, placing.tenant, Now)]
        ELSE [at |-> "refused", shown |-> placing.shown, tenant |-> placing.tenant, edition |-> Now]
    /\ UNCHANGED <<editions, catalog, branding, screen, builder, basket>>

\* The answer: handleOrderSuccess and the way back to the menu, or the error under the form.
Answered ==
    /\ placing.at \in {"placed", "refused"}
    /\ placing' = Idle
    /\ IF placing.at = "placed" THEN basket' = {} /\ screen' = "menu" ELSE UNCHANGED <<basket, screen>>
    /\ UNCHANGED <<editions, catalog, branding, builder>>

-----------------------------------------------------------------------------
CartNext ==
    \/ \E p \in Goods :
        \/ \E size \in PizzaSizes, price \in PricesOf(p) \cup {NoPrice} : PriceProduct(p, size, price)
        \/ Unlist(p) \/ TakeOffMenu(p)
    \/ \E fee \in Prices : SetFee(fee)
    \/ SwitchStore
    \/ \E c, b \in 1 .. Now : Refresh(c, b)
    \/ \E p \in Pizzas, size \in PizzaSizes : AddSingleFlavor(p, size) \/ StartHalfHalf(p, size)
    \/ \E d \in Drinks : AddDrink(d)
    \/ \E size \in PizzaSizes : PickSize(size)
    \/ \E p \in Pizzas : AddFlavor(p) \/ RemoveFlavor(p)
    \/ AddToCart
    \/ \E to \in {"menu", "cart", "checkout"} : Go(to)
    \/ \E l \in basket : RemoveLine(l) \/ \E q \in 1 .. MaxUnits : ChangeQuantity(l, q)
    \/ SendOrder \/ ReadTenant \/ InsertOrder \/ Answered

CartSpec == CartInit /\ [][CartNext]_cartVars

-----------------------------------------------------------------------------
CartTypeOK ==
    /\ editions \in Seq(Editions) /\ editions # <<>>
    /\ catalog \in 1 .. Now /\ branding \in 1 .. Now
    /\ screen \in {"menu", "builder", "cart", "checkout"}
    /\ builder \in Builders \cup {Idle} /\ (screen = "builder" => builder # Idle)
    /\ basket \subseteq Lines
    /\ placing.at \in {"idle", "sent", "met", "placed", "refused"}
    /\ placing.at \in {"met", "placed", "refused"} => placing.tenant \in 1 .. Now /\ placing.edition \in 1 .. Now

\* Every object of the cart cost in edition n what it cost when the app read it.
PricesStood(n) ==
    \A l \in basket : \A i \in l.items : Price(i, l.size) = Price([i EXCEPT !.of = n], l.size)

\* The customer pays what he was shown: an order whose products cost what they cost when
\* they were put into the cart is charged for them what the screen said, and the fee of the
\* pizzeria as insertOrder read it; and such an order is refused only by a store that was
\* closed then, for a product that is gone, or for a drink that had no price in the cart.
ChargedAsShown ==
    placing.at \in {"placed", "refused"} /\ PricesStood(placing.edition) =>
        IF placing.at = "placed"
        THEN placing.charged.goods = placing.shown.goods /\ placing.charged.fee = editions[placing.tenant].fee
        ELSE \/ ~editions[placing.tenant].open
             \/ \E l \in basket :
                    \/ ~(Ids(l.items) \subseteq editions[placing.edition].sold)
                    \/ Ids(l.items) \subseteq Drinks /\ ~Priced(l.items, l.size)

=============================================================================
