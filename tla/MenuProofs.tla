------------------------------ MODULE MenuProofs ------------------------------
(***************************************************************************)
(* Proofs about the menu: the rules of the API (Catalog), the form and the *)
(* list of the panel (ProductForm) and the cart (CartPrices), for any      *)
(* products, categories, sizes, prices, calls and bounds.                  *)
(***************************************************************************)
EXTENDS Menu, TLAPS

(* The catalog. *)

\* A pizza of the menu has a price, where no two writes crossed.
PizzasPriced == \A p \in Products \ torn : Known(p) /\ stored[p].type = "pizza" => stored[p].prices # {}

\* What a write saw when it looked still holds of the row it is to write over.
LooksHold ==
    \A k \in Writes : writes[k] # Nothing =>
        /\ writes[k].new => /\ writes[k].dto.category \in CategoryKeys
                            /\ SellsASize(Column(writes[k].dto.category), writes[k].dto)
        /\ ~ writes[k].new /\ ~ writes[k].past /\ Known(writes[k].id) =>
                SellsASize(stored[writes[k].id], writes[k].dto)

\* The foreign key.
KeysHold == \A p \in Products : Known(p) => stored[p].category \in sections

\* A GET between its two reads holds every category there is, or one came since.
ReadsCover == reading # Nothing => reading.crossed \/ sections \subseteq reading.categories

PagesCover == page # Nothing => page.crossed \/ page.used \subseteq page.categories

CatalogInv == CatalogTypeOK /\ PizzasPriced /\ LooksHold /\ KeysHold /\ ReadsCover /\ PagesCover

\* A body makes a row out of a row.
LEMMA UpdateType ==
    ASSUME NEW row \in Row, NEW dto \in Body PROVE Update(row, dto) \in Row
<1>1. /\ dto.type \in Kinds \cup {Nothing} /\ dto.category \in CategoryKeys \cup {Nothing}
      /\ row.type \in Kinds /\ row.prices \subseteq Sizes /\ row.category \in CategoryKeys
  BY DEF Body, Row
<1>2. {s \in Sizes : dto.prices[s] = "priced"} \cup {s \in row.prices : dto.prices[s] = "kept"} \in SUBSET Sizes
  BY <1>1
<1> QED
  BY <1>1, <1>2 DEF Update, Row

LEMMA CatalogInitial == CatalogInit => CatalogInv
<1> SUFFICES ASSUME CatalogInit PROVE CatalogInv
  OBVIOUS
<1>1. CatalogTypeOK
  BY DEF CatalogInit, CatalogTypeOK
<1>2. PizzasPriced /\ LooksHold /\ KeysHold /\ ReadsCover /\ PagesCover
  BY DEF CatalogInit, PizzasPriced, LooksHold, KeysHold, ReadsCover, PagesCover, Known
<1> QED
  BY <1>1, <1>2 DEF CatalogInv

-----------------------------------------------------------------------------
\* A look that passes is right at that moment.
LEMMA LookStep ==
    ASSUME CatalogInv, NEW k \in Writes, NEW p \in Products, NEW dto \in Body,
           LookAndCreate(k, p, dto) \/ LookAndUpdate(k, p, dto)
    PROVE  CatalogInv'
<1> USE DEF CatalogInv
<1>1. PICK w \in Pending :
        /\ writes' = [writes EXCEPT ![k] = w]
        /\ w.id = p /\ w.dto = dto
        /\ w.new => dto.category \in CategoryKeys /\ SellsASize(Column(dto.category), dto)
        /\ ~ w.new => SellsASize(stored[p], dto)
  <2>1. CASE LookAndCreate(k, p, dto)
    <3> DEFINE w == [id |-> p, dto |-> dto, new |-> TRUE, past |-> FALSE]
    <3>1. w \in Pending /\ w.id = p /\ w.dto = dto /\ w.new
      BY DEF Pending
    <3> HIDE DEF w
    <3>2. /\ writes' = [writes EXCEPT ![k] = w] /\ dto.category \in CategoryKeys
          /\ SellsASize(Column(dto.category), dto)
      BY <2>1 DEF LookAndCreate, CatalogTypeOK, w
    <3> QED
      BY <3>1, <3>2
  <2>2. CASE LookAndUpdate(k, p, dto)
    <3> DEFINE w == [id |-> p, dto |-> dto, new |-> FALSE, past |-> FALSE]
    <3>1. w \in Pending /\ w.id = p /\ w.dto = dto /\ ~ w.new
      BY DEF Pending
    <3> HIDE DEF w
    <3>2. writes' = [writes EXCEPT ![k] = w] /\ SellsASize(stored[p], dto)
      BY <2>2 DEF LookAndUpdate, w
    <3> QED
      BY <3>1, <3>2
  <2> QED
    BY <2>1, <2>2
<1>2. UNCHANGED <<stored, sections, page, reading, torn>>
  BY DEF LookAndCreate, LookAndUpdate
<1>3. CatalogTypeOK'
  BY <1>1, <1>2 DEF CatalogTypeOK
<1>4. PizzasPriced' /\ KeysHold' /\ ReadsCover' /\ PagesCover'
  BY <1>2 DEF PizzasPriced, KeysHold, ReadsCover, PagesCover, Known
<1>5. LooksHold'
  <2> SUFFICES ASSUME NEW q \in Writes, writes'[q] # Nothing
               PROVE  /\ writes'[q].new => /\ writes'[q].dto.category \in CategoryKeys
                                           /\ SellsASize(Column(writes'[q].dto.category), writes'[q].dto)
                      /\ ~ writes'[q].new /\ ~ writes'[q].past /\ Known(writes'[q].id) =>
                              SellsASize(stored[writes'[q].id], writes'[q].dto)
    BY <1>2 DEF LooksHold, SellsASize, Update, Column, Known
  <2>1. CASE q = k
    BY <1>1, <2>1 DEF CatalogTypeOK
  <2>2. CASE q # k
    <3>1. writes'[q] = writes[q]
      BY <1>1, <2>2 DEF CatalogTypeOK
    <3> QED
      BY <3>1 DEF LooksHold
  <2> QED
    BY <2>1, <2>2
<1> QED
  BY <1>3, <1>4, <1>5

\* Whoever is overtaken keeps all but its looks.
LEMMA OvertakeShape ==
    ASSUME CatalogTypeOK, NEW p \in Products, NEW slots \in SUBSET Writes
    PROVE  /\ Overtake(p, slots) \in [Writes -> Pending \cup {Nothing}]
           /\ \A q \in Writes :
                IF q \in slots /\ writes[q] # Nothing /\ writes[q].id = p
                THEN /\ Overtake(p, slots)[q].id = p /\ Overtake(p, slots)[q].dto = writes[q].dto
                     /\ Overtake(p, slots)[q].new = writes[q].new /\ Overtake(p, slots)[q].past
                ELSE Overtake(p, slots)[q] = writes[q]
<1>1. \A q \in Writes :
        Overtake(p, slots)[q] = IF q \in slots /\ writes[q] # Nothing /\ writes[q].id = p
                                THEN [writes[q] EXCEPT !.past = TRUE] ELSE writes[q]
  BY DEF Overtake
<1>2. \A q \in Writes : writes[q] # Nothing =>
        /\ [writes[q] EXCEPT !.past = TRUE] \in Pending
        /\ [writes[q] EXCEPT !.past = TRUE].id = writes[q].id
        /\ [writes[q] EXCEPT !.past = TRUE].dto = writes[q].dto
        /\ [writes[q] EXCEPT !.past = TRUE].new = writes[q].new
        /\ [writes[q] EXCEPT !.past = TRUE].past = TRUE
  <2> TAKE q \in Writes
  <2> HAVE writes[q] # Nothing
  <2>1. writes[q] \in [id : Products, dto : Body, new : BOOLEAN, past : BOOLEAN]
    BY DEF CatalogTypeOK, Pending
  <2> QED
    BY <2>1 DEF Pending
<1>3. Overtake(p, slots) \in [Writes -> Pending \cup {Nothing}]
  <2>1. \A q \in Writes : Overtake(p, slots)[q] \in Pending \cup {Nothing}
    BY <1>1, <1>2 DEF CatalogTypeOK
  <2> QED
    BY <2>1 DEF Overtake
<1> QED
  BY <1>1, <1>2, <1>3

\* A write over the row it has looked at keeps the rule; over another row it may not,
\* and the product is torn.
LEMMA SaveStep == ASSUME CatalogInv, NEW k \in Writes, Save(k) PROVE CatalogInv'
<1> USE DEF CatalogInv
<1> DEFINE w == writes[k]
           was == IF w.new THEN Column(w.dto.category) ELSE stored[w.id]
           row == Update(was, w.dto)
           slots == IF stored[w.id] = row THEN {} ELSE Writes \ {k}
<1>1. w \in Pending /\ w.id \in Products /\ w.dto \in Body
  BY DEF Save, CatalogTypeOK, Pending
<1>2. UNCHANGED <<sections, page, reading>>
  BY DEF Save
<1>3. CASE Refused(k)
  <2>1. writes' = [writes EXCEPT ![k] = Nothing] /\ UNCHANGED <<stored, torn>>
    BY <1>3 DEF Save
  <2>2. CatalogTypeOK'
    BY <1>2, <2>1 DEF CatalogTypeOK
  <2>3. \A q \in Writes : writes'[q] # Nothing => writes'[q] = writes[q]
    BY <2>1 DEF CatalogTypeOK
  <2>4. LooksHold'
    BY <2>1, <2>3 DEF LooksHold, SellsASize, Update, Column, Known
  <2>5. PizzasPriced' /\ KeysHold' /\ ReadsCover' /\ PagesCover'
    BY <1>2, <2>1 DEF PizzasPriced, KeysHold, ReadsCover, PagesCover, Known
  <2> QED
    BY <2>2, <2>4, <2>5
<1>4. CASE ~ Refused(k)
  <2>1. /\ stored' = [stored EXCEPT ![w.id] = row]
        /\ torn' = IF w.past THEN torn \cup {w.id} ELSE torn \ {w.id}
        /\ writes' = [Overtake(w.id, slots) EXCEPT ![k] = Nothing]
    BY <1>4 DEF Save
  <2>2. /\ w.dto.category \in sections \cup {Nothing}
        /\ ~ w.new => Known(w.id)
        /\ w.new => w.dto.category \in CategoryKeys
    BY <1>1, <1>4 DEF Refused, Save, LooksHold
  <2>3. was \in Row
    BY <1>1, <2>2 DEF Column, Row, Kinds, Known, CatalogTypeOK
  <2>4. row \in Row
    BY <1>1, <2>3, UpdateType
  <2>5. row # Nothing
    BY <2>4, NothingAssumption
  <2>6. row.category \in sections
    <3>1. row.category = IF w.dto.category = Nothing THEN was.category ELSE w.dto.category
      BY DEF Update
    <3>2. w.dto.category = Nothing => ~ w.new
      BY <2>2, NothingAssumption
    <3>3. ~ w.new => was.category \in sections
      BY <1>1, <2>2 DEF KeysHold
    <3> QED
      BY <2>2, <3>1, <3>2, <3>3
  <2>7. w.past \/ (row.type = "pizza" => row.prices # {})
    <3>1. CASE w.new
      BY <3>1 DEF Save, LooksHold, SellsASize
    <3>2. CASE ~ w.new
      BY <2>2, <3>2 DEF Save, LooksHold, SellsASize
    <3> QED
      BY <3>1, <3>2
  <2> HIDE DEF row, was
  <2>8. /\ stored'[w.id] = row
        /\ \A p \in Products : p # w.id => stored'[p] = stored[p]
    BY <1>1, <2>1 DEF CatalogTypeOK
  <2>9. slots \in SUBSET Writes
    OBVIOUS
  <2>10. CatalogTypeOK'
    BY <1>1, <1>2, <2>1, <2>4, <2>9, OvertakeShape DEF CatalogTypeOK
  <2>11. PizzasPriced'
    BY <2>1, <2>7, <2>8 DEF PizzasPriced, Known
  <2>12. KeysHold'
    BY <1>2, <2>6, <2>8 DEF KeysHold, Known
  <2>13. ReadsCover' /\ PagesCover'
    BY <1>2 DEF ReadsCover, PagesCover
  <2>14. LooksHold'
    <3> SUFFICES ASSUME NEW q \in Writes, writes'[q] # Nothing
                 PROVE  /\ writes'[q].new => /\ writes'[q].dto.category \in CategoryKeys
                                             /\ SellsASize(Column(writes'[q].dto.category), writes'[q].dto)
                        /\ ~ writes'[q].new /\ ~ writes'[q].past /\ stored'[writes'[q].id] # Nothing =>
                                SellsASize(stored'[writes'[q].id], writes'[q].dto)
      BY DEF LooksHold, SellsASize, Update, Column, Known
    <3>1. q # k /\ writes'[q] = Overtake(w.id, slots)[q]
      BY <1>1, <2>1, <2>9, OvertakeShape
    <3>2. CASE q \in slots /\ writes[q] # Nothing /\ writes[q].id = w.id
      BY <1>1, <2>9, <3>1, <3>2, OvertakeShape DEF LooksHold
    <3>3. CASE ~ (q \in slots /\ writes[q] # Nothing /\ writes[q].id = w.id)
      <4>1. writes'[q] = writes[q]
        BY <1>1, <2>9, <3>1, <3>3, OvertakeShape
      <4>2. stored'[writes[q].id] = stored[writes[q].id]
        <5>1. CASE writes[q].id = w.id
          BY <2>8, <3>1, <3>3, <4>1, <5>1
        <5>2. CASE writes[q].id # w.id
          BY <2>8, <4>1, <5>2 DEF CatalogTypeOK, Pending
        <5> QED
          BY <5>1, <5>2
      <4> QED
        BY <4>1, <4>2 DEF LooksHold, Known
    <3> QED
      BY <3>2, <3>3
  <2> QED
    BY <2>10, <2>11, <2>12, <2>13, <2>14
<1> QED
  BY <1>3, <1>4

LEMMA RemoveProductStep ==
    ASSUME CatalogInv, NEW p \in Products, RemoveProduct(p) PROVE CatalogInv'
<1> USE DEF CatalogInv
<1>1. /\ stored' = [stored EXCEPT ![p] = Nothing] /\ writes' = Overtake(p, Writes) /\ torn' = torn \ {p}
      /\ UNCHANGED <<sections, page, reading>>
  BY DEF RemoveProduct
<1>2. Writes \in SUBSET Writes
  OBVIOUS
<1>3. stored'[p] = Nothing /\ \A q \in Products : q # p => stored'[q] = stored[q]
  BY <1>1 DEF CatalogTypeOK
<1>4. CatalogTypeOK'
  BY <1>1, <1>2, OvertakeShape DEF CatalogTypeOK
<1>5. PizzasPriced' /\ KeysHold' /\ ReadsCover' /\ PagesCover'
  BY <1>1, <1>3 DEF PizzasPriced, KeysHold, ReadsCover, PagesCover, Known
<1>6. LooksHold'
  <2> SUFFICES ASSUME NEW q \in Writes, writes'[q] # Nothing
               PROVE  /\ writes'[q].new => /\ writes'[q].dto.category \in CategoryKeys
                                           /\ SellsASize(Column(writes'[q].dto.category), writes'[q].dto)
                      /\ ~ writes'[q].new /\ ~ writes'[q].past /\ stored'[writes'[q].id] # Nothing =>
                              SellsASize(stored'[writes'[q].id], writes'[q].dto)
    BY DEF LooksHold, SellsASize, Update, Column, Known
  <2>1. CASE writes[q] # Nothing /\ writes[q].id = p
    BY <1>1, <1>2, <2>1, OvertakeShape DEF LooksHold
  <2>2. CASE ~ (writes[q] # Nothing /\ writes[q].id = p)
    <3>1. writes'[q] = writes[q]
      BY <1>1, <1>2, <2>2, OvertakeShape
    <3>2. stored'[writes[q].id] = stored[writes[q].id]
      BY <1>3, <2>2, <3>1 DEF CatalogTypeOK, Pending
    <3> QED
      BY <3>1, <3>2 DEF LooksHold, Known
  <2> QED
    BY <2>1, <2>2
<1> QED
  BY <1>4, <1>5, <1>6

\* Categories and the public page.
LEMMA PageStep ==
    ASSUME CatalogInv,
           \/ \E c \in CategoryKeys : AddCategory(c) \/ RemoveCategory(c)
           \/ ReadCategories \/ ReadProducts \/ PageExpires
    PROVE  CatalogInv'
<1> USE DEF CatalogInv
<1>1. UNCHANGED <<stored, writes, torn>>
  BY DEF AddCategory, RemoveCategory, ReadCategories, ReadProducts, PageExpires
<1>2. PizzasPriced' /\ LooksHold'
  BY <1>1 DEF PizzasPriced, LooksHold, SellsASize, Update, Column, Known
<1>3. ASSUME NEW c \in CategoryKeys, AddCategory(c) PROVE CatalogInv'
  <2>1. /\ sections' = sections \cup {c} /\ UNCHANGED page
        /\ reading' = IF reading = Nothing THEN Nothing ELSE [reading EXCEPT !.crossed = TRUE]
    BY <1>3 DEF AddCategory
  <2>2. reading # Nothing => [reading EXCEPT !.crossed = TRUE] \in Reading
                             /\ [reading EXCEPT !.crossed = TRUE].crossed = TRUE
    <3> HAVE reading # Nothing
    <3>1. reading \in [categories : SUBSET CategoryKeys, crossed : BOOLEAN]
      BY DEF CatalogTypeOK, Reading
    <3> QED
      BY <3>1 DEF Reading
  <2>3. CatalogTypeOK'
    BY <1>1, <2>1, <2>2 DEF CatalogTypeOK
  <2>4. KeysHold' /\ PagesCover'
    BY <1>1, <2>1 DEF KeysHold, PagesCover, Known
  <2>5. ReadsCover'
    BY <2>1, <2>2 DEF ReadsCover
  <2> QED
    BY <1>2, <2>3, <2>4, <2>5
<1>4. ASSUME NEW c \in CategoryKeys, RemoveCategory(c) PROVE CatalogInv'
  <2>1. sections' = sections \ {c} /\ ~ Linked(c) /\ UNCHANGED <<page, reading>>
    BY <1>4 DEF RemoveCategory
  <2>2. CatalogTypeOK' /\ PagesCover' /\ ReadsCover'
    BY <1>1, <2>1 DEF CatalogTypeOK, PagesCover, ReadsCover
  <2>3. KeysHold'
    BY <1>1, <2>1 DEF KeysHold, Linked, Known
  <2> QED
    BY <1>2, <2>2, <2>3
<1>5. ASSUME ReadCategories PROVE CatalogInv'
  <2>1. reading' = [categories |-> sections, crossed |-> FALSE] /\ UNCHANGED <<sections, page>>
    BY <1>5 DEF ReadCategories
  <2>2. reading' \in Reading /\ reading'.categories = sections
    BY <2>1 DEF CatalogTypeOK, Reading
  <2> QED
    BY <1>1, <1>2, <2>1, <2>2 DEF CatalogTypeOK, KeysHold, ReadsCover, PagesCover, Known
<1>6. ASSUME ReadProducts PROVE CatalogInv'
  <2> DEFINE used == {stored[p].category : p \in {q \in Products : Known(q)}}
  <2>1. /\ page' = [categories |-> reading.categories, crossed |-> reading.crossed, used |-> used]
        /\ reading # Nothing /\ reading' = Nothing /\ UNCHANGED sections
    BY <1>6 DEF ReadProducts
  <2>2. used \subseteq sections
    BY DEF KeysHold
  <2>3. reading \in Reading
    BY <2>1 DEF CatalogTypeOK
  <2> HIDE DEF used
  <2>4. page' \in Page /\ page'.used = used /\ page'.categories = reading.categories
        /\ page'.crossed = reading.crossed
    BY <2>1, <2>2, <2>3 DEF CatalogTypeOK, Reading, Page
  <2>5. CatalogTypeOK'
    BY <1>1, <2>1, <2>4 DEF CatalogTypeOK
  <2>6. PagesCover'
    BY <2>1, <2>2, <2>4 DEF ReadsCover, PagesCover
  <2>7. KeysHold' /\ ReadsCover'
    BY <1>1, <2>1 DEF KeysHold, ReadsCover, Known
  <2> QED
    BY <1>2, <2>5, <2>6, <2>7
<1>7. ASSUME PageExpires PROVE CatalogInv'
  <2>1. page' = Nothing /\ UNCHANGED <<sections, reading>>
    BY <1>7 DEF PageExpires
  <2> QED
    BY <1>1, <1>2, <2>1 DEF CatalogTypeOK, KeysHold, ReadsCover, PagesCover, Known
<1> QED
  BY <1>3, <1>4, <1>5, <1>6, <1>7

LEMMA CatalogStep == CatalogInv /\ [CatalogNext]_catalogVars => CatalogInv'
<1> SUFFICES ASSUME CatalogInv, [CatalogNext]_catalogVars PROVE CatalogInv'
  OBVIOUS
<1>1. CASE UNCHANGED catalogVars
  <2>1. UNCHANGED <<stored, sections, writes, page, reading, torn>>
    BY <1>1 DEF catalogVars
  <2> QED
    BY <2>1 DEF CatalogInv, CatalogTypeOK, PizzasPriced, LooksHold, KeysHold, ReadsCover, PagesCover,
                SellsASize, Update, Column, Known
<1>2. CASE CatalogNext
  BY <1>2, LookStep, SaveStep, RemoveProductStep, PageStep DEF CatalogNext
<1> QED
  BY <1>1, <1>2

LEMMA CatalogAlways == CatalogSpec => []CatalogInv
BY CatalogInitial, CatalogStep, PTL DEF CatalogSpec

-----------------------------------------------------------------------------
\* Every row, write and page has its type, whatever is written over whatever
\* (CatalogTypeOK).
THEOREM CatalogTypes == CatalogSpec => []CatalogTypeOK
<1>1. CatalogInv => CatalogTypeOK
  BY DEF CatalogInv
<1> QED
  BY <1>1, CatalogAlways, PTL

\* What is sold can be ordered: a pizza has a price unless two PATCHes of it crossed
\* (assertPizzaHasAtLeastOnePrice looks at the row before it is written), and what
\* the public page lists stands under a category of it unless one was created
\* between its two reads (findCatalog).
THEOREM WhatIsSoldCanBeOrdered == CatalogSpec => []MenuCanBeOrdered
<1>1. CatalogInv => MenuCanBeOrdered
  BY DEF CatalogInv, PizzasPriced, PagesCover, MenuCanBeOrdered
<1> QED
  BY <1>1, CatalogAlways, PTL

-----------------------------------------------------------------------------
(* The form and the list of the panel. *)

AnyCall == FormCalls \cup RowCalls

\* A category, if there is one, is of the type.
Fits(data) == data.category # Absent => categories[data.category] = data.type
FormFits == productForm.open => Fits(productForm.data)
RowsFit(rows) == \A p \in ProductIds : rows[p] # Absent => categories[rows[p].category] = rows[p].type

\* What a call carries can be written where it will be.
CallFits(call) ==
    /\ call.kind = "upload" => call.live
    /\ call.kind # "delete" => Fits(call.data)
    /\ call.kind = "category" /\ call.at = "applied" =>
            call.category # Absent /\ categories[call.category] = call.data.type
    /\ call.kind = "save" =>
            /\ call.data.content # Absent /\ call.data.category # Absent
            /\ call.at = "sent" => (call.new <=> call.product = Absent)
            /\ call.at = "applied" => call.product # Absent
CallsFit == \A k \in Calls : calls[k] # NoCall => CallFits(calls[k])

FitInv == MenuTypeOK /\ FormFits /\ RowsFit(products) /\ RowsFit(shown) /\ CallsFit

\* What the kinds of calls have in common.
LEMMA CallShape ==
    ASSUME NEW call \in AnyCall
    PROVE  /\ call.at \in Stages /\ call.live \in BOOLEAN /\ call # NoCall
           /\ call.kind \in {"upload", "category", "save", "delete"}
           /\ call.kind # "delete" => call.data \in FormData
           /\ call.kind = "category" => call.category \in CategoryIds \cup {Absent}
           /\ call.kind = "save" => call.product \in ProductIds \cup {Absent} /\ call.new \in BOOLEAN
           /\ call.kind = "delete" => call.product \in ProductIds
BY DEF AnyCall, FormCalls, RowCalls, Stages, NoCall

LEMMA CallOrNone ==
    ASSUME MenuTypeOK, NEW k \in Calls PROVE calls[k] # NoCall => calls[k] \in AnyCall
BY DEF MenuTypeOK, AnyCall

LEMMA AppliedShape ==
    ASSUME NEW call \in AnyCall
    PROVE  LET done == [call EXCEPT !.at = "applied"] IN
           /\ done \in AnyCall /\ done.at = "applied" /\ done.kind = call.kind /\ done.live = call.live
           /\ call.kind # "delete" => done.data = call.data
           /\ call.kind = "save" => done.product = call.product /\ done.new = call.new
           /\ call.kind = "delete" => done.product = call.product
           /\ call.kind = "category" => done.category = call.category
BY DEF AnyCall, FormCalls, RowCalls, Stages

LEMMA OrphanShape ==
    ASSUME NEW call \in AnyCall
    PROVE  LET left == [call EXCEPT !.live = FALSE] IN
           /\ left \in AnyCall /\ left.live = FALSE /\ left.kind = call.kind /\ left.at = call.at
           /\ call.kind # "delete" => left.data = call.data
           /\ call.kind = "save" => left.product = call.product /\ left.new = call.new
           /\ call.kind = "delete" => left.product = call.product
           /\ call.kind = "category" => left.category = call.category
BY DEF AnyCall, FormCalls, RowCalls, Stages

LEMMA CreatedShape ==
    ASSUME NEW call \in AnyCall, call.kind = "save", NEW p \in ProductIds
    PROVE  LET done == [call EXCEPT !.at = "applied", !.product = p] IN
           /\ done \in AnyCall /\ done.at = "applied" /\ done.kind = "save" /\ done.live = call.live
           /\ done.data = call.data /\ done.product = p /\ done.new = call.new
BY DEF AnyCall, FormCalls, RowCalls, Stages

LEMMA CategoryShape ==
    ASSUME NEW call \in AnyCall, call.kind = "category", NEW c \in CategoryIds
    PROVE  LET done == [call EXCEPT !.at = "applied", !.category = c] IN
           /\ done \in AnyCall /\ done.at = "applied" /\ done.kind = "category" /\ done.live = call.live
           /\ done.data = call.data /\ done.category = c
BY DEF AnyCall, FormCalls, RowCalls, Stages

-----------------------------------------------------------------------------
LEMMA FitInitial == MenuInit => FitInv
<1> SUFFICES ASSUME MenuInit PROVE FitInv
  OBVIOUS
<1>1. MenuTypeOK
  BY DEF MenuInit, MenuTypeOK, Closed
<1>2. FormFits /\ RowsFit(products) /\ RowsFit(shown) /\ CallsFit
  BY DEF MenuInit, FormFits, RowsFit, CallsFit, Closed
<1> QED
  BY <1>1, <1>2 DEF FitInv

\* A step of the form alone.
LEMMA FormStep ==
    ASSUME FitInv, UNCHANGED <<serverRows, shown, offered, calls, outdated>>,
           productForm' \in OpenForms, Fits(productForm'.data)
    PROVE  FitInv'
<1>1. UNCHANGED <<products, categories>>
  BY DEF serverRows
<1>2. productForm'.open
  BY DEF OpenForms
<1>3. MenuTypeOK'
  BY <1>1, <1>2 DEF FitInv, MenuTypeOK
<1>4. FormFits'
  BY <1>1 DEF FormFits, Fits
<1>5. RowsFit(products)' /\ RowsFit(shown)' /\ CallsFit'
  BY <1>1 DEF FitInv, RowsFit, CallsFit, CallFits, Fits
<1> QED
  BY <1>3, <1>4, <1>5 DEF FitInv

\* The category a form starts with.
LEMMA DefaultFits ==
    ASSUME MenuTypeOK, NEW type \in Types, NEW c \in Defaults(type)
    PROVE  Empty(type, c) \in FormData /\ Fits(Empty(type, c))
BY DEF MenuTypeOK, Defaults, CategoriesOf, Empty, FormData, Fits

LEMMA FieldStep ==
    ASSUME FitInv,
           \/ \E p \in ProductIds : OpenProduct(p)
           \/ OpenNew \/ ToggleImage
           \/ \E x \in Contents \cup {Absent} : Type(x)
           \/ \E c \in CategoryIds : SelectCategory(c)
           \/ \E type \in Types : ChangeTab(type)
    PROVE  FitInv'
<1>1. MenuTypeOK
  BY DEF FitInv
<1>2. ASSUME NEW p \in ProductIds, OpenProduct(p) PROVE FitInv'
  <2>1. shown[p] \in ProductRows /\ categories[shown[p].category] = shown[p].type
    BY <1>2 DEF OpenProduct, FitInv, MenuTypeOK, RowsFit
  <2>2. PICK image \in BOOLEAN :
            productForm' = Open(p, [type |-> shown[p].type, content |-> shown[p].content,
                                    category |-> shown[p].category, image |-> image])
    BY <1>2 DEF OpenProduct
  <2>3. productForm' \in OpenForms /\ Fits(productForm'.data)
    BY <2>1, <2>2 DEF Open, OpenForms, FormData, ProductRows, Fits
  <2> QED
    BY <1>2, <2>3, FormStep DEF OpenProduct
<1>3. ASSUME OpenNew PROVE FitInv'
  <2>1. PICK c \in Defaults("pizza") : productForm' = Open(Absent, Empty("pizza", c))
    BY <1>3 DEF OpenNew
  <2>2. Empty("pizza", c) \in FormData /\ Fits(Empty("pizza", c))
    BY <1>1, DefaultFits DEF Types
  <2>3. productForm' \in OpenForms /\ productForm'.data = Empty("pizza", c)
    BY <2>1, <2>2 DEF Open, OpenForms
  <2> QED
    BY <1>3, <2>2, <2>3, FormStep DEF OpenNew
<1>4. ASSUME NEW data \in FormData, Fits(data), Fill(data) PROVE FitInv'
  <2>1. productForm \in OpenForms
    BY <1>1, <1>4 DEF Fill, MenuTypeOK, Closed
  <2>2. productForm' \in OpenForms /\ productForm'.data = data
    BY <1>4, <2>1 DEF Fill, OpenForms
  <2> QED
    BY <1>4, <2>2, FormStep DEF Fill
<1>5. productForm.open => productForm.data \in FormData /\ Fits(productForm.data)
  <2>1. productForm.open => productForm \in OpenForms
    BY <1>1 DEF MenuTypeOK, Closed
  <2>2. \A form \in OpenForms : form.data \in FormData
    BY DEF OpenForms
  <2> QED
    BY <2>1, <2>2 DEF FitInv, FormFits
<1>6. ASSUME ToggleImage PROVE FitInv'
  <2> DEFINE data == [productForm.data EXCEPT !.image = ~@]
  <2>1. data \in FormData /\ Fits(data)
    BY <1>5, <1>6 DEF ToggleImage, FormData, Fits
  <2>2. Fill(data)
    BY <1>6 DEF ToggleImage
  <2> QED
    BY <1>4, <2>1, <2>2
<1>7. ASSUME NEW x \in Contents \cup {Absent}, Type(x) PROVE FitInv'
  <2> DEFINE data == [productForm.data EXCEPT !.content = x]
  <2>1. data \in FormData /\ Fits(data)
    BY <1>5, <1>7 DEF Type, FormData, Fits
  <2>2. Fill(data)
    BY <1>7 DEF Type
  <2> QED
    BY <1>4, <2>1, <2>2
<1>8. ASSUME NEW c \in CategoryIds, SelectCategory(c) PROVE FitInv'
  <2> DEFINE data == [productForm.data EXCEPT !.category = c]
  <2>1. data \in FormData /\ Fits(data)
    BY <1>5, <1>8 DEF SelectCategory, CategoriesOf, FormData, Fits
  <2>2. Fill(data)
    BY <1>8 DEF SelectCategory
  <2> QED
    BY <1>4, <2>1, <2>2
<1>9. ASSUME NEW type \in Types, ChangeTab(type) PROVE FitInv'
  <2>1. PICK c \in Defaults(type) : Fill(Empty(type, c))
    BY <1>9 DEF ChangeTab
  <2> QED
    BY <1>1, <1>4, <2>1, DefaultFits
<1> QED
  BY <1>2, <1>3, <1>6, <1>7, <1>8, <1>9

\* A step that leaves the categories alone.
LEMMA FitFrom ==
    ASSUME FitInv, UNCHANGED categories,
           products' \in [ProductIds -> ProductRows \cup {Absent}], RowsFit(products'),
           shown' \in [ProductIds -> ProductRows \cup {Absent}], RowsFit(shown'),
           offered' \subseteq {c \in CategoryIds : categories[c] # Absent},
           outdated' \subseteq ProductIds,
           productForm' \in OpenForms \cup {Closed}, productForm'.open => Fits(productForm'.data),
           calls' \in [Calls -> AnyCall \cup {NoCall}],
           \A k \in Calls : calls'[k] # NoCall =>
                CallFits(calls'[k]) /\ (calls'[k].live => productForm'.open)
    PROVE  FitInv'
<1>1. MenuTypeOK'
  BY DEF FitInv, MenuTypeOK, AnyCall
<1>2. FormFits' /\ RowsFit(products)' /\ RowsFit(shown)'
  BY DEF FormFits, RowsFit, Fits
<1>3. CallsFit'
  BY DEF CallsFit, CallFits, Fits
<1> QED
  BY <1>1, <1>2, <1>3 DEF FitInv

\* What FitInv says of one call.
LEMMA CallNow ==
    ASSUME FitInv, NEW k \in Calls, calls[k] # NoCall
    PROVE  calls[k] \in AnyCall /\ CallFits(calls[k]) /\ (calls[k].live => productForm.open)
BY CallOrNone DEF FitInv, MenuTypeOK, CallsFit

\* One call is made, goes on or is over.
LEMMA OneCall ==
    ASSUME FitInv, UNCHANGED categories,
           products' \in [ProductIds -> ProductRows \cup {Absent}], RowsFit(products'),
           shown' \in [ProductIds -> ProductRows \cup {Absent}], RowsFit(shown'),
           offered' \subseteq {c \in CategoryIds : categories[c] # Absent},
           outdated' \subseteq ProductIds,
           productForm' \in OpenForms \cup {Closed}, productForm'.open => Fits(productForm'.data),
           productForm.open => productForm'.open,
           NEW k \in Calls, NEW call \in AnyCall \cup {NoCall}, calls' = [calls EXCEPT ![k] = call],
           call # NoCall => CallFits(call) /\ (call.live => productForm'.open)
    PROVE  FitInv'
<1>1. calls \in [Calls -> AnyCall \cup {NoCall}]
  BY DEF FitInv, MenuTypeOK, AnyCall
<1>2. calls' \in [Calls -> AnyCall \cup {NoCall}]
  BY <1>1
<1>3. ASSUME NEW j \in Calls, calls'[j] # NoCall
      PROVE  CallFits(calls'[j]) /\ (calls'[j].live => productForm'.open)
  <2>1. CASE j = k
    <3>1. calls'[j] = call
      BY <1>1, <2>1
    <3> QED
      BY <1>3, <3>1
  <2>2. CASE j # k
    <3>1. calls'[j] = calls[j]
      BY <1>1, <2>2
    <3>2. CallFits(calls[j]) /\ (calls[j].live => productForm.open)
      BY <1>3, <3>1, CallNow
    <3>3. calls'[j].live <=> calls[j].live
      BY <3>1
    <3> QED
      BY <3>1, <3>2, <3>3
  <2> QED
    BY <2>1, <2>2
<1> QED
  BY <1>2, <1>3, FitFrom

\* The same, where the panel sees nothing of it.
LEMMA OneCallUnseen ==
    ASSUME FitInv, UNCHANGED <<categories, shown, offered>>,
           products' \in [ProductIds -> ProductRows \cup {Absent}], RowsFit(products'),
           outdated' \subseteq ProductIds,
           productForm' \in OpenForms \cup {Closed}, productForm'.open => Fits(productForm'.data),
           productForm.open => productForm'.open,
           NEW k \in Calls, NEW call \in AnyCall \cup {NoCall}, calls' = [calls EXCEPT ![k] = call],
           call # NoCall => CallFits(call) /\ (call.live => productForm'.open)
    PROVE  FitInv'
<1>1. /\ shown' \in [ProductIds -> ProductRows \cup {Absent}] /\ RowsFit(shown')
      /\ offered' \subseteq {c \in CategoryIds : categories[c] # Absent}
  BY DEF MenuTypeOK, FitInv, RowsFit
<1> QED
  BY <1>1, OneCall

\* The form, as FitInv has it.
LEMMA FormNow ==
    ASSUME FitInv, productForm.open
    PROVE  productForm \in OpenForms /\ productForm.data \in FormData /\ Fits(productForm.data)
<1>1. productForm \in OpenForms
  BY DEF FitInv, MenuTypeOK, Closed
<1>2. \A form \in OpenForms : form.data \in FormData
  BY DEF OpenForms
<1> QED
  BY <1>1, <1>2 DEF FitInv, FormFits

LEMMA RowsNow ==
    ASSUME FitInv
    PROVE  /\ products \in [ProductIds -> ProductRows \cup {Absent}] /\ RowsFit(products)
           /\ outdated \subseteq ProductIds
           /\ productForm \in OpenForms \cup {Closed} /\ (productForm.open => Fits(productForm.data))
BY DEF FitInv, MenuTypeOK, FormFits

LEMMA CallMade ==
    ASSUME FitInv, NEW k \in Calls,
           Upload(k) \/ NewCategory(k) \/ Submit(k) \/ \E p \in ProductIds : Remove(k, p)
    PROVE  FitInv'
<1>1. UNCHANGED <<products, categories, shown, offered, outdated>>
  BY DEF Upload, NewCategory, Submit, Remove, serverRows
<1>2. RowsFit(products')
  BY <1>1, RowsNow DEF RowsFit
<1>3. ASSUME Upload(k) PROVE FitInv'
  <2> DEFINE call == [at |-> "sent", kind |-> "upload", live |-> TRUE, data |-> productForm.data]
  <2>1. productForm.open
    BY <1>3 DEF Upload
  <2>2. call \in AnyCall /\ CallFits(call)
    BY <2>1, FormNow DEF AnyCall, FormCalls, Stages, CallFits
  <2>3. calls' = [calls EXCEPT ![k] = call] /\ productForm' = [productForm EXCEPT !.uploading = TRUE]
    BY <1>3 DEF Upload, Call
  <2>4. productForm' \in OpenForms /\ productForm'.data = productForm.data /\ productForm'.open
    BY <2>1, <2>3, FormNow DEF OpenForms
  <2> HIDE DEF call
  <2> QED
    BY <1>1, <1>2, <2>1, <2>2, <2>3, <2>4, FormNow, RowsNow, OneCallUnseen
<1>4. ASSUME NewCategory(k) PROVE FitInv'
  <2> DEFINE call == [at |-> "sent", kind |-> "category", live |-> TRUE, data |-> productForm.data,
                      category |-> Absent]
  <2>1. productForm.open
    BY <1>4 DEF NewCategory
  <2>2. call \in AnyCall /\ CallFits(call)
    BY <2>1, FormNow DEF AnyCall, FormCalls, Stages, CallFits
  <2>3. calls' = [calls EXCEPT ![k] = call] /\ productForm' = productForm
    BY <1>4 DEF NewCategory, Call
  <2> HIDE DEF call
  <2> QED
    BY <1>1, <1>2, <2>1, <2>2, <2>3, FormNow, RowsNow, OneCallUnseen
<1>5. ASSUME Submit(k) PROVE FitInv'
  <2> DEFINE call == [at |-> "sent", kind |-> "save", live |-> TRUE, data |-> productForm.data,
                      product |-> productForm.product, new |-> productForm.product = Absent]
  <2>1. /\ productForm.open /\ productForm.data.content # Absent /\ productForm.data.category # Absent
        /\ calls' = [calls EXCEPT ![k] = call] /\ productForm' = [productForm EXCEPT !.submitting = TRUE]
    BY <1>5 DEF Submit, Call
  <2>2. productForm.product \in ProductIds \cup {Absent}
    BY <2>1, FormNow DEF OpenForms
  <2>3. call \in AnyCall /\ CallFits(call)
    BY <2>1, <2>2, FormNow DEF AnyCall, RowCalls, Stages, CallFits
  <2>4. productForm' \in OpenForms /\ productForm'.data = productForm.data /\ productForm'.open
    BY <2>1, FormNow DEF OpenForms
  <2> HIDE DEF call
  <2> QED
    BY <1>1, <1>2, <2>1, <2>3, <2>4, FormNow, RowsNow, OneCallUnseen
<1>6. ASSUME NEW p \in ProductIds, Remove(k, p) PROVE FitInv'
  <2> DEFINE call == [at |-> "sent", kind |-> "delete", live |-> FALSE, product |-> p]
  <2>1. call \in AnyCall /\ CallFits(call) /\ ~ call.live
    BY DEF AnyCall, RowCalls, Stages, CallFits
  <2>2. calls' = [calls EXCEPT ![k] = call] /\ productForm' = productForm
    BY <1>6 DEF Remove, Call
  <2> HIDE DEF call
  <2> QED
    BY <1>1, <1>2, <2>1, <2>2, RowsNow, OneCallUnseen
<1> QED
  BY <1>3, <1>4, <1>5, <1>6

\* The API does what a call asks for.
LEMMA CallApplied ==
    ASSUME FitInv, NEW k \in Calls,
           \/ StoreImage(k) \/ UpdateProduct(k) \/ DeleteProduct(k)
           \/ \E p \in ProductIds : CreateProduct(k, p)
    PROVE  FitInv'
<1>1. UNCHANGED <<categories, shown, offered, productForm, outdated>>
  BY DEF StoreImage, UpdateProduct, DeleteProduct, CreateProduct, serverRows
<1>2. calls[k] # NoCall /\ calls[k].at = "sent"
  BY DEF StoreImage, UpdateProduct, DeleteProduct, CreateProduct, NoCall
<1>3. calls[k] \in AnyCall /\ CallFits(calls[k]) /\ (calls[k].live => productForm.open)
  BY <1>2, CallNow
<1> DEFINE done == [calls[k] EXCEPT !.at = "applied"]
<1>4. done \in AnyCall /\ (done.live => productForm'.open)
  BY <1>1, <1>3, AppliedShape
<1>5. calls[k].kind = "save" => RowOf(calls[k].data) \in ProductRows
                                /\ categories[RowOf(calls[k].data).category] = RowOf(calls[k].data).type
  <2> HAVE calls[k].kind = "save"
  <2>1. calls[k].data \in FormData /\ calls[k].data.content # Absent /\ calls[k].data.category # Absent
        /\ Fits(calls[k].data)
    BY <1>3, CallShape DEF CallFits
  <2> QED
    BY <2>1 DEF RowOf, ProductRows, FormData, Fits
<1>6. ASSUME StoreImage(k) PROVE FitInv'
  <2>1. calls' = [calls EXCEPT ![k] = done] /\ UNCHANGED products
    BY <1>3, <1>6 DEF StoreImage, Applied, serverRows
  <2>2. CallFits(done)
    BY <1>3, <1>6, AppliedShape DEF StoreImage, CallFits
  <2>3. RowsFit(products')
    BY <2>1, RowsNow DEF RowsFit
  <2> HIDE DEF done
  <2> QED
    BY <1>1, <1>4, <2>1, <2>2, <2>3, RowsNow, OneCallUnseen
<1>7. ASSUME UpdateProduct(k) PROVE FitInv'
  <2>1. calls' = [calls EXCEPT ![k] = done] /\ calls[k].kind = "save" /\ calls[k].product # Absent
        /\ products' = [products EXCEPT ![calls[k].product] = RowOf(calls[k].data)]
    BY <1>3, <1>7 DEF UpdateProduct, Applied
  <2>2. CallFits(done)
    BY <1>3, <2>1, AppliedShape DEF CallFits
  <2>3. products' \in [ProductIds -> ProductRows \cup {Absent}] /\ RowsFit(products')
    BY <1>5, <2>1, RowsNow DEF RowsFit
  <2> HIDE DEF done
  <2> QED
    BY <1>1, <1>4, <2>1, <2>2, <2>3, RowsNow, OneCallUnseen
<1>8. ASSUME DeleteProduct(k) PROVE FitInv'
  <2>1. calls' = [calls EXCEPT ![k] = done] /\ calls[k].kind = "delete"
        /\ products' = [products EXCEPT ![calls[k].product] = Absent]
    BY <1>3, <1>8 DEF DeleteProduct, Applied
  <2>2. CallFits(done)
    BY <1>3, <2>1, AppliedShape DEF CallFits
  <2>3. products' \in [ProductIds -> ProductRows \cup {Absent}] /\ RowsFit(products')
    BY <2>1, RowsNow DEF RowsFit
  <2> HIDE DEF done
  <2> QED
    BY <1>1, <1>4, <2>1, <2>2, <2>3, RowsNow, OneCallUnseen
<1>9. ASSUME NEW p \in ProductIds, CreateProduct(k, p) PROVE FitInv'
  <2> DEFINE made == [calls[k] EXCEPT !.at = "applied", !.product = p]
  <2>1. calls' = [calls EXCEPT ![k] = made] /\ calls[k].kind = "save"
        /\ products' = [products EXCEPT ![p] = RowOf(calls[k].data)]
    BY <1>3, <1>9 DEF CreateProduct
  <2>2. made \in AnyCall /\ CallFits(made) /\ (made.live => productForm'.open)
    <3>1. /\ made \in AnyCall /\ made.at = "applied" /\ made.kind = "save" /\ made.live = calls[k].live
          /\ made.data = calls[k].data /\ made.product = p
      BY <1>3, <2>1, CreatedShape
    <3> HIDE DEF made
    <3>2. p # Absent
      BY AbsentAssumption
    <3> QED
      BY <1>1, <1>3, <2>1, <3>1, <3>2 DEF CallFits
  <2>3. products' \in [ProductIds -> ProductRows \cup {Absent}] /\ RowsFit(products')
    BY <1>5, <2>1, RowsNow DEF RowsFit
  <2> HIDE DEF made
  <2> QED
    BY <1>1, <2>1, <2>2, <2>3, RowsNow, OneCallUnseen
<1> QED
  BY <1>6, <1>7, <1>8, <1>9

\* A category that is created had no products.
LEMMA CategoryStep ==
    ASSUME FitInv, NEW k \in Calls, NEW c \in CategoryIds, CreateCategory(k, c)
    PROVE  FitInv'
<1> DEFINE made == [calls[k] EXCEPT !.at = "applied", !.category = c]
<1>1. /\ UNCHANGED <<products, shown, offered, productForm, outdated>>
      /\ calls[k] # NoCall /\ calls[k].kind = "category" /\ categories[c] = Absent
      /\ categories' = [categories EXCEPT ![c] = calls[k].data.type]
  BY DEF CreateCategory, NoCall
<1>2. calls[k] \in AnyCall /\ CallFits(calls[k]) /\ (calls[k].live => productForm.open)
  BY <1>1, CallNow
<1>3. calls[k].data \in FormData /\ calls[k].data.type \in Types
  BY <1>1, <1>2, CallShape DEF FormData
<1>4. MenuTypeOK
  BY DEF FitInv
<1>5. calls' = [calls EXCEPT ![k] = made]
  BY <1>1, <1>2, <1>4 DEF CreateCategory, MenuTypeOK
<1>6. \A d \in CategoryIds : categories[d] # Absent => categories'[d] = categories[d]
  BY <1>1, <1>4 DEF MenuTypeOK
<1>7. categories'[c] = calls[k].data.type
  BY <1>1, <1>4 DEF MenuTypeOK
<1>8. ASSUME NEW data \in FormData, Fits(data)
      PROVE  data.category # Absent => categories'[data.category] = data.type
  BY <1>6, <1>8, AbsentAssumption DEF Fits, FormData
<1>9. /\ made \in AnyCall /\ made.kind = "category" /\ made.live = calls[k].live
      /\ made.data = calls[k].data /\ made.category = c
  BY <1>1, <1>2, CategoryShape
<1> HIDE DEF made
<1>10. MenuTypeOK'
  <2>1. calls' \in [Calls -> FormCalls \cup RowCalls \cup {NoCall}]
    BY <1>4, <1>9, <1>5 DEF MenuTypeOK, AnyCall
  <2>2. \A j \in Calls : calls'[j] # NoCall /\ calls'[j].live => productForm'.open
    BY <1>1, <1>2, <1>4, <1>9, <1>5 DEF MenuTypeOK
  <2>3. categories' \in [CategoryIds -> Types \cup {Absent}]
    BY <1>1, <1>3, <1>4 DEF MenuTypeOK
  <2>4. offered' \subseteq {d \in CategoryIds : categories'[d] # Absent}
    BY <1>1, <1>4, <1>6 DEF MenuTypeOK
  <2> QED
    BY <1>1, <1>4, <2>1, <2>2, <2>3, <2>4 DEF MenuTypeOK
<1>11. FormFits'
  BY <1>1, <1>8, FormNow DEF FormFits, Fits
<1>12. RowsFit(products)' /\ RowsFit(shown)'
  <2>1. \A row \in ProductRows : categories[row.category] = row.type => categories'[row.category] = row.type
    BY <1>6, AbsentAssumption DEF ProductRows
  <2> QED
    BY <1>1, <1>4, <2>1 DEF FitInv, RowsFit, MenuTypeOK
<1>13. CallsFit'
  <2> SUFFICES ASSUME NEW j \in Calls, calls'[j] # NoCall PROVE CallFits(calls[j])'
    BY DEF CallsFit
  <2>1. CASE j = k
    <3>1. calls'[j] = made
      BY <1>4, <1>5, <2>1 DEF MenuTypeOK
    <3>2. c # Absent /\ made.data \in FormData /\ Fits(made.data)
      BY <1>1, <1>2, <1>3, <1>9, AbsentAssumption DEF CallFits
    <3> QED
      BY <1>7, <1>8, <1>9, <3>1, <3>2 DEF CallFits, Fits
  <2>2. CASE j # k
    <3>1. calls'[j] = calls[j]
      BY <1>4, <1>5, <2>2 DEF MenuTypeOK
    <3>2. calls[j] \in AnyCall /\ CallFits(calls[j])
      BY <3>1, CallNow
    <3>3. calls[j].kind # "delete" => calls[j].data \in FormData
      BY <3>2, CallShape
    <3>4. calls[j].kind = "category" => calls[j].category \in CategoryIds \cup {Absent}
      BY <3>2, CallShape
    <3>5. calls[j].kind # "delete" =>
            (calls[j].data.category # Absent => categories'[calls[j].data.category] = calls[j].data.type)
      BY <1>8, <3>2, <3>3 DEF CallFits
    <3>6. calls[j].kind = "category" /\ calls[j].at = "applied" =>
            calls[j].category # Absent /\ categories'[calls[j].category] = calls[j].data.type
      BY <1>6, <3>2, <3>3, <3>4, AbsentAssumption DEF CallFits, FormData
    <3> QED
      BY <3>1, <3>2, <3>5, <3>6 DEF CallFits, Fits
  <2> QED
    BY <2>1, <2>2
<1> QED
  BY <1>10, <1>11, <1>12, <1>13 DEF FitInv

LEMMA OtherPanelStep ==
    ASSUME FitInv, NEW p \in ProductIds, NEW row \in ProductRows \cup {Absent}, OtherPanel(p, row)
    PROVE  FitInv'
<1>1. /\ UNCHANGED <<categories, shown, offered, productForm, calls>>
      /\ products' = [products EXCEPT ![p] = row] /\ outdated' = outdated \cup {p}
      /\ row # Absent => categories[row.category] = row.type
  BY DEF OtherPanel
<1>2. products' \in [ProductIds -> ProductRows \cup {Absent}] /\ RowsFit(products')
  BY <1>1, RowsNow DEF RowsFit
<1>3. MenuTypeOK' /\ FormFits' /\ RowsFit(shown)' /\ CallsFit'
  BY <1>1, <1>2 DEF FitInv, MenuTypeOK, FormFits, RowsFit, CallsFit, CallFits, Fits
<1>4. RowsFit(products)'
  BY <1>1, <1>2 DEF RowsFit
<1> QED
  BY <1>3, <1>4 DEF FitInv

-----------------------------------------------------------------------------
\* The calls of a form that is unmounted.
LEMMA OrphansFit ==
    ASSUME FitInv
    PROVE  /\ Orphans \in [Calls -> AnyCall \cup {NoCall}]
           /\ \A k \in Calls :
                /\ Orphans[k] # NoCall => /\ calls[k] # NoCall /\ calls[k].kind # "upload"
                                          /\ Orphans[k] = [calls[k] EXCEPT !.live = FALSE]
                                          /\ CallFits(Orphans[k]) /\ Orphans[k].live = FALSE
                /\ calls[k] # NoCall /\ calls[k].kind # "upload" => Orphans[k] # NoCall
<1>1. ASSUME NEW k \in Calls
      PROVE  /\ Orphans[k] \in AnyCall \cup {NoCall}
             /\ Orphans[k] # NoCall => /\ calls[k] # NoCall /\ calls[k].kind # "upload"
                                       /\ Orphans[k] = [calls[k] EXCEPT !.live = FALSE]
                                       /\ CallFits(Orphans[k]) /\ Orphans[k].live = FALSE
             /\ calls[k] # NoCall /\ calls[k].kind # "upload" => Orphans[k] # NoCall
  <2> DEFINE left == [calls[k] EXCEPT !.live = FALSE]
  <2>1. Orphans[k] = IF calls[k] = NoCall \/ calls[k].kind = "upload" THEN NoCall ELSE left
    BY DEF Orphans
  <2>2. CASE calls[k] = NoCall \/ calls[k].kind = "upload"
    BY <2>1, <2>2
  <2>3. CASE ~ (calls[k] = NoCall \/ calls[k].kind = "upload")
    <3>1. Orphans[k] = left
      BY <2>1, <2>3
    <3>2. calls[k] \in AnyCall /\ CallFits(calls[k])
      BY <2>3, CallNow
    <3>3. /\ left \in AnyCall /\ left.live = FALSE /\ left.kind = calls[k].kind /\ left.at = calls[k].at
          /\ calls[k].kind # "delete" => left.data = calls[k].data
          /\ calls[k].kind = "save" => left.product = calls[k].product /\ left.new = calls[k].new
          /\ calls[k].kind = "category" => left.category = calls[k].category
      BY <3>2, OrphanShape
    <3> HIDE DEF left
    <3>4. left # NoCall
      BY <3>3, CallShape
    <3>5. CallFits(left)
      BY <2>3, <3>2, <3>3 DEF CallFits
    <3> QED
      BY <2>3, <3>1, <3>3, <3>4, <3>5 DEF left
  <2> QED
    BY <2>2, <2>3
<1>2. Orphans \in [Calls -> AnyCall \cup {NoCall}]
  <2>1. \A k \in Calls : Orphans[k] \in AnyCall \cup {NoCall}
    BY <1>1
  <2> QED
    BY <2>1 DEF Orphans
<1> QED
  BY <1>1, <1>2

LEMMA LeaveStep == ASSUME FitInv, LeaveForm PROVE FitInv'
<1>1. UNCHANGED <<products, categories, shown, offered, outdated>> /\ productForm' = Closed /\ calls' = Orphans
  BY DEF LeaveForm, serverRows
<1>2. /\ shown \in [ProductIds -> ProductRows \cup {Absent}]
      /\ offered \subseteq {c \in CategoryIds : categories[c] # Absent}
      /\ RowsFit(products') /\ RowsFit(shown')
  BY <1>1 DEF FitInv, MenuTypeOK, RowsFit
<1>3. productForm'.open = FALSE
  BY <1>1 DEF Closed
<1>4. \A k \in Calls : calls'[k] # NoCall => CallFits(calls'[k]) /\ (calls'[k].live => productForm'.open)
  BY <1>1, OrphansFit
<1> QED
  BY <1>1, <1>2, <1>3, <1>4, RowsNow, OrphansFit, FitFrom

\* The image is put into the form its call was made from.
LEMMA ImageStep == ASSUME FitInv, NEW k \in Calls, ImageStored(k) PROVE FitInv'
<1>1. /\ UNCHANGED <<products, categories, shown, offered, outdated>>
      /\ calls[k] # NoCall /\ calls[k].kind = "upload"
      /\ productForm' = [productForm EXCEPT !.data = [calls[k].data EXCEPT !.image = TRUE], !.uploading = FALSE]
      /\ calls' = [calls EXCEPT ![k] = NoCall]
  BY DEF ImageStored, serverRows, Over, NoCall
<1>2. calls[k] \in AnyCall /\ CallFits(calls[k]) /\ productForm.open
  BY <1>1, CallNow DEF CallFits
<1>3. calls[k].data \in FormData /\ Fits(calls[k].data)
  BY <1>1, <1>2, CallShape DEF CallFits
<1>4. [calls[k].data EXCEPT !.image = TRUE] \in FormData /\ Fits([calls[k].data EXCEPT !.image = TRUE])
  BY <1>3 DEF FormData, Fits
<1>5. productForm' \in OpenForms /\ productForm'.data = [calls[k].data EXCEPT !.image = TRUE] /\ productForm'.open
  BY <1>1, <1>2, <1>4, FormNow DEF OpenForms
<1>6. RowsFit(products')
  BY <1>1, RowsNow DEF RowsFit
<1> QED
  BY <1>1, <1>4, <1>5, <1>6, RowsNow, OneCallUnseen

LEMMA CategoryAnswerStep == ASSUME FitInv, NEW k \in Calls, CategoryCreated(k) PROVE FitInv'
<1>1. /\ UNCHANGED <<products, categories, shown, outdated>>
      /\ calls[k] # NoCall /\ calls[k].kind = "category" /\ calls[k].at = "applied"
      /\ calls' = [calls EXCEPT ![k] = NoCall] /\ offered' = offered \cup {calls[k].category}
      /\ productForm' = IF calls[k].live
                        THEN [productForm EXCEPT !.data = [calls[k].data EXCEPT !.category = calls[k].category]]
                        ELSE productForm
  BY DEF CategoryCreated, serverRows, Over, NoCall
<1>2. calls[k] \in AnyCall /\ CallFits(calls[k]) /\ (calls[k].live => productForm.open)
  BY <1>1, CallNow
<1>3. /\ calls[k].data \in FormData /\ calls[k].category \in CategoryIds
      /\ categories[calls[k].category] = calls[k].data.type
  BY <1>1, <1>2, CallShape DEF CallFits
<1>4. offered' \subseteq {c \in CategoryIds : categories[c] # Absent}
  BY <1>1, <1>3, AbsentAssumption DEF FitInv, MenuTypeOK, FormData
<1>5. /\ [calls[k].data EXCEPT !.category = calls[k].category] \in FormData
      /\ Fits([calls[k].data EXCEPT !.category = calls[k].category])
  BY <1>3 DEF FormData, Fits
<1>6. /\ productForm' \in OpenForms \cup {Closed} /\ (productForm'.open => Fits(productForm'.data))
      /\ (productForm.open => productForm'.open)
  <2>1. CASE calls[k].live
    <3>1. productForm \in OpenForms
      BY <1>2, <2>1, FormNow
    <3>2. /\ productForm' \in OpenForms
          /\ productForm'.data = [calls[k].data EXCEPT !.category = calls[k].category]
      BY <1>1, <1>5, <2>1, <3>1 DEF OpenForms
    <3> QED
      BY <1>5, <3>2 DEF OpenForms
  <2>2. CASE ~ calls[k].live
    BY <1>1, <2>2, RowsNow
  <2> QED
    BY <2>1, <2>2
<1>7. RowsFit(products') /\ RowsFit(shown') /\ shown' \in [ProductIds -> ProductRows \cup {Absent}]
  BY <1>1 DEF FitInv, MenuTypeOK, RowsFit
<1> QED
  BY <1>1, <1>4, <1>6, <1>7, RowsNow, OneCall

\* Where the list takes an answer, it stays a list of fitting rows.
LEMMA JudgeType ==
    ASSUME FitInv, NEW p \in ProductIds, NEW row PROVE Judge(p, row) \subseteq ProductIds
BY RowsNow DEF Judge

LEMMA SavedStep == ASSUME FitInv, NEW k \in Calls, Saved(k) PROVE FitInv'
<1> DEFINE p == calls[k].product
           row == RowOf(calls[k].data)
<1>1. /\ UNCHANGED <<products, categories, offered>>
      /\ calls[k] # NoCall /\ calls[k].kind = "save" /\ calls[k].at = "applied"
      /\ calls' = [Orphans EXCEPT ![k] = NoCall] /\ productForm' = Closed
      /\ outdated' = Judge(p, row)
      /\ shown' = IF calls[k].new \/ shown[p] # Absent THEN [shown EXCEPT ![p] = row] ELSE shown
  BY DEF Saved, serverRows, NoCall
<1>2. calls[k] \in AnyCall /\ CallFits(calls[k])
  BY <1>1, CallNow
<1>3. p \in ProductIds /\ row \in ProductRows /\ categories[row.category] = row.type
  <2>1. /\ calls[k].data \in FormData /\ calls[k].data.content # Absent
        /\ calls[k].data.category # Absent /\ Fits(calls[k].data)
    BY <1>1, <1>2, CallShape DEF CallFits
  <2>2. p \in ProductIds
    BY <1>1, <1>2, CallShape DEF CallFits
  <2> QED
    BY <2>1, <2>2 DEF RowOf, ProductRows, FormData, Fits
<1> HIDE DEF p, row
<1>4. shown \in [ProductIds -> ProductRows \cup {Absent}] /\ RowsFit(shown)
  BY DEF FitInv, MenuTypeOK
<1>5. shown' \in [ProductIds -> ProductRows \cup {Absent}] /\ RowsFit(shown')
  BY <1>1, <1>3, <1>4 DEF RowsFit
<1>6. RowsFit(products') /\ offered' \subseteq {c \in CategoryIds : categories[c] # Absent}
  BY <1>1 DEF FitInv, MenuTypeOK, RowsFit
<1>7. calls' \in [Calls -> AnyCall \cup {NoCall}]
  BY <1>1, OrphansFit
<1>8. ASSUME NEW j \in Calls, calls'[j] # NoCall
      PROVE  CallFits(calls'[j]) /\ (calls'[j].live => productForm'.open)
  <2>1. calls'[j] = Orphans[j] /\ Orphans[j] # NoCall
    BY <1>1, <1>8, OrphansFit
  <2> QED
    BY <2>1, OrphansFit
<1>9. outdated' \subseteq ProductIds
  BY <1>1, <1>3, JudgeType
<1>10. productForm' \in OpenForms \cup {Closed} /\ (productForm'.open => Fits(productForm'.data))
  BY <1>1 DEF Closed
<1> QED
  BY <1>1, <1>5, <1>6, <1>7, <1>8, <1>9, <1>10, RowsNow, FitFrom

LEMMA RemovedStep == ASSUME FitInv, NEW k \in Calls, Removed(k) PROVE FitInv'
<1> DEFINE p == calls[k].product
<1>1. /\ UNCHANGED <<products, categories, offered, productForm>>
      /\ calls[k] # NoCall /\ calls[k].kind = "delete"
      /\ calls' = [calls EXCEPT ![k] = NoCall] /\ outdated' = Judge(p, Absent)
      /\ shown' = [shown EXCEPT ![p] = Absent]
  BY DEF Removed, serverRows, NoCall, Over
<1>2. p \in ProductIds
  BY <1>1, CallNow, CallShape
<1> HIDE DEF p
<1>3. shown' \in [ProductIds -> ProductRows \cup {Absent}] /\ RowsFit(shown')
  BY <1>1, <1>2 DEF FitInv, MenuTypeOK, RowsFit
<1>4. /\ RowsFit(products') /\ outdated' \subseteq ProductIds
      /\ offered' \subseteq {c \in CategoryIds : categories[c] # Absent}
  BY <1>1, <1>2, JudgeType DEF FitInv, MenuTypeOK, RowsFit
<1> QED
  BY <1>1, <1>3, <1>4, RowsNow, OneCall

LEMMA FailStep == ASSUME FitInv, NEW k \in Calls, CallFails(k) PROVE FitInv'
<1>1. /\ UNCHANGED <<products, categories, shown, offered>>
      /\ calls[k] # NoCall /\ calls' = [calls EXCEPT ![k] = NoCall]
      /\ outdated' = IF calls[k].at = "applied" /\ calls[k].kind \in {"save", "delete"}
                     THEN outdated \cup {calls[k].product} ELSE outdated
      /\ \/ productForm' = productForm
         \/ calls[k].live /\ productForm' = [productForm EXCEPT !.uploading = FALSE]
         \/ calls[k].live /\ productForm' = [productForm EXCEPT !.submitting = FALSE]
  BY DEF CallFails, serverRows, Over
<1>2. calls[k] \in AnyCall /\ CallFits(calls[k]) /\ (calls[k].live => productForm.open)
  BY <1>1, CallNow
<1>3. outdated' \subseteq ProductIds
  BY <1>1, <1>2, RowsNow, CallShape DEF CallFits
<1>4. /\ productForm' \in OpenForms \cup {Closed} /\ (productForm'.open => Fits(productForm'.data))
      /\ (productForm.open => productForm'.open)
  <2>1. CASE productForm' = productForm
    BY <2>1, RowsNow
  <2>2. CASE productForm' # productForm
    <3>1. productForm \in OpenForms /\ Fits(productForm.data)
      BY <1>1, <1>2, <2>2, FormNow
    <3>2. productForm' \in OpenForms /\ productForm'.data = productForm.data
      BY <1>1, <2>2, <3>1 DEF OpenForms
    <3> QED
      BY <3>1, <3>2 DEF OpenForms
  <2> QED
    BY <2>1, <2>2
<1>5. RowsFit(products')
  BY <1>1, RowsNow DEF RowsFit
<1> QED
  BY <1>1, <1>3, <1>4, <1>5, RowsNow, OneCallUnseen

LEMMA FitStep == FitInv /\ [MenuNext]_menuVars => FitInv'
<1> SUFFICES ASSUME FitInv, [MenuNext]_menuVars PROVE FitInv'
  OBVIOUS
<1>1. CASE UNCHANGED menuVars
  BY <1>1 DEF menuVars, serverRows, FitInv, MenuTypeOK, FormFits, RowsFit, CallsFit, CallFits, Fits
<1>2. CASE MenuNext
  BY <1>2, FieldStep, LeaveStep, OtherPanelStep, CallMade, CallApplied, CategoryStep, ImageStep,
     CategoryAnswerStep, SavedStep, RemovedStep, FailStep DEF MenuNext
<1> QED
  BY <1>1, <1>2

LEMMA FitAlways == MenuSpec => []FitInv
BY FitInitial, FitStep, PTL DEF MenuSpec

\* Nothing is written under a category of another type, whatever uploads and creations of
\* categories answer to whatever form (CategoriesFitTheirType).
THEOREM ProductsFitTheirCategory == MenuSpec => []CategoriesFitTheirType
<1>1. FitInv => CategoriesFitTheirType
  BY DEF FitInv, FormFits, RowsFit, Fits, CategoriesFitTheirType
<1> QED
  BY <1>1, FitAlways, PTL

-----------------------------------------------------------------------------
\* A submission or a deletion of p; one that the server has done.
On(call, p) == call # NoCall /\ call.kind \in {"save", "delete"} /\ call.product = p
Answers(call, p) == On(call, p) /\ call.at = "applied"
Deletes(call, p) == Answers(call, p) /\ call.kind = "delete"
Creates(call, p) == Answers(call, p) /\ call.kind = "save" /\ call.new
FormOn(p) == productForm.open /\ productForm.product = p

\* The list has what the server has, or an answer is on its way; and a deletion, where
\* it is one that the list does not know of.
ListTells(p) == p \notin outdated => shown[p] = products[p] \/ \E k \in Calls : Answers(calls[k], p)
GoneIsTold(p) ==
    p \notin outdated /\ products[p] = Absent /\ shown[p] # Absent => \E k \in Calls : Deletes(calls[k], p)

\* Before the answer of its creation nobody can touch a product from this list.
NewIsAlone(p) ==
    \A k \in Calls : Creates(calls[k], p) =>
        /\ shown[p] = Absent /\ ~ FormOn(p)
        /\ \A j \in Calls \ {k} : ~ On(calls[j], p)
        /\ products[p] = Absent => p \in outdated

\* Nor is one that the list does not have touched by anything but that answer.
UnlistedIsNew(p) ==
    products[p] # Absent /\ shown[p] = Absent =>
        ~ FormOn(p) /\ \A k \in Calls : On(calls[k], p) => calls[k].kind = "save" /\ calls[k].new

DeletedIsGone(p) == \A k \in Calls : Deletes(calls[k], p) => products[p] = Absent

SettlesAt(p) == ListTells(p) /\ GoneIsTold(p) /\ NewIsAlone(p) /\ UnlistedIsNew(p) /\ DeletedIsGone(p)
SettleInv == \A p \in ProductIds : SettlesAt(p)

LEMMA SettleInitial == MenuInit => SettleInv
BY DEF MenuInit, Closed, SettleInv, SettlesAt, ListTells, GoneIsTold, NewIsAlone, UnlistedIsNew, DeletedIsGone,
       On, Answers, Deletes, Creates, FormOn

\* The call is as it was, to the product.
Still(j) ==
    /\ calls'[j].kind = calls[j].kind /\ calls'[j].at = calls[j].at
    /\ calls[j].kind = "save" => calls'[j].new = calls[j].new

\* A step that passes p by, or loses an answer about it.
LEMMA PassedBy ==
    ASSUME NEW p \in ProductIds, SettlesAt(p),
           products'[p] = products[p], shown'[p] = shown[p], p \in outdated => p \in outdated',
           \A j \in Calls : On(calls'[j], p) => On(calls[j], p) /\ Still(j),
           p \notin outdated' => \A j \in Calls : Answers(calls[j], p) => On(calls'[j], p),
           FormOn(p)' => FormOn(p) \/ shown[p] # Absent
    PROVE  SettlesAt(p)'
<1> USE DEF SettlesAt
<1>1. ListTells(p)'
  BY DEF ListTells, Answers, Still
<1>2. GoneIsTold(p)'
  BY DEF GoneIsTold, Answers, Deletes, Still
<1>3. NewIsAlone(p)'
  <2> SUFFICES ASSUME NEW k \in Calls, Creates(calls'[k], p)
               PROVE  /\ shown'[p] = Absent /\ ~ FormOn(p)'
                      /\ \A j \in Calls \ {k} : ~ On(calls'[j], p)
                      /\ products'[p] = Absent => p \in outdated'
    BY DEF NewIsAlone, Creates, Answers, On
  <2>1. Creates(calls[k], p)
    BY DEF Creates, Answers, Still
  <2> QED
    BY <2>1 DEF NewIsAlone
<1>4. UnlistedIsNew(p)'
  BY DEF UnlistedIsNew, On, Still
<1>5. DeletedIsGone(p)'
  BY DEF DeletedIsGone, Deletes, Answers, Still
<1> QED
  BY <1>1, <1>2, <1>3, <1>4, <1>5

\* Steps of which no submission and no deletion is part.
LEMMA QuietStep ==
    ASSUME FitInv, SettleInv, UNCHANGED <<products, shown, outdated>>,
           \A j \in Calls : \/ calls'[j] = calls[j]
                            \/ /\ calls'[j] # NoCall => calls'[j].kind \notin {"save", "delete"}
                               /\ calls[j] # NoCall => calls[j].kind \notin {"save", "delete"}
                            \/ calls'[j] = Orphans[j],
           \A p \in ProductIds : FormOn(p)' => FormOn(p) \/ shown[p] # Absent
    PROVE  SettleInv'
<1> SUFFICES ASSUME NEW p \in ProductIds PROVE SettlesAt(p)'
  BY DEF SettleInv
<1>1. ASSUME NEW j \in Calls
      PROVE  /\ On(calls'[j], p) => On(calls[j], p) /\ Still(j)
             /\ On(calls[j], p) => On(calls'[j], p)
  <2>1. CASE calls'[j] = calls[j]
    BY <2>1 DEF Still
  <2>2. CASE /\ calls'[j] # NoCall => calls'[j].kind \notin {"save", "delete"}
             /\ calls[j] # NoCall => calls[j].kind \notin {"save", "delete"}
    BY <2>2 DEF On
  <2>3. CASE calls'[j] = Orphans[j]
    <3>1. CASE calls[j] = NoCall \/ calls[j].kind = "upload"
      <4>1. Orphans[j] = NoCall
        BY <3>1, OrphansFit
      <4> QED
        BY <2>3, <3>1, <4>1 DEF On
    <3>2. CASE calls[j] # NoCall /\ calls[j].kind # "upload"
      <4>1. calls'[j] # NoCall /\ calls'[j] = [calls[j] EXCEPT !.live = FALSE] /\ calls[j] \in AnyCall
        BY <2>3, <3>2, OrphansFit, CallNow
      <4>2. /\ calls'[j].kind = calls[j].kind /\ calls'[j].at = calls[j].at
            /\ calls[j].kind = "save" => calls'[j].product = calls[j].product /\ calls'[j].new = calls[j].new
            /\ calls[j].kind = "delete" => calls'[j].product = calls[j].product
        BY <4>1, OrphanShape
      <4> QED
        BY <3>2, <4>1, <4>2 DEF On, Still
    <3> QED
      BY <3>1, <3>2
  <2> QED
    BY <2>1, <2>2, <2>3
<1>2. SettlesAt(p)
  BY DEF SettleInv
<1> QED
  BY <1>1, <1>2, PassedBy DEF Answers

LEMMA QuietNext ==
    ASSUME FitInv, SettleInv,
           \/ OpenNew \/ LeaveForm \/ ToggleImage
           \/ \E p \in ProductIds : OpenProduct(p)
           \/ \E x \in Contents \cup {Absent} : Type(x)
           \/ \E c \in CategoryIds : SelectCategory(c)
           \/ \E type \in Types : ChangeTab(type)
           \/ \E k \in Calls : \/ Upload(k) \/ NewCategory(k) \/ StoreImage(k)
                               \/ ImageStored(k) \/ CategoryCreated(k)
                               \/ \E c \in CategoryIds : CreateCategory(k, c)
    PROVE  SettleInv'
<1> USE DEF serverRows
<1>1. calls \in [Calls -> AnyCall \cup {NoCall}]
  BY DEF FitInv, MenuTypeOK, AnyCall
<1>2. ASSUME UNCHANGED <<serverRows, shown, calls, outdated>>,
             \A p \in ProductIds : FormOn(p)' => FormOn(p) \/ shown[p] # Absent
      PROVE  SettleInv'
  BY <1>2, QuietStep
<1>3. ASSUME NEW data, Fill(data) PROVE SettleInv'
  <2>1. productForm \in OpenForms
    BY <1>3, FormNow DEF Fill
  <2>2. productForm'.open = productForm.open /\ productForm'.product = productForm.product
    BY <1>3, <2>1 DEF Fill, OpenForms
  <2> QED
    BY <1>2, <1>3, <2>2 DEF Fill, FormOn
<1>4. ASSUME NEW p \in ProductIds, OpenProduct(p) PROVE SettleInv'
  BY <1>2, <1>4 DEF OpenProduct, Open, FormOn
<1>5. ASSUME OpenNew PROVE SettleInv'
  BY <1>2, <1>5, AbsentAssumption DEF OpenNew, Open, FormOn
<1>6. ASSUME LeaveForm PROVE SettleInv'
  <2>1. \A p \in ProductIds : ~ FormOn(p)'
    BY <1>6 DEF LeaveForm, FormOn, Closed
  <2> QED
    BY <1>6, <2>1, QuietStep DEF LeaveForm
<1>7. ToggleImage => SettleInv'
  BY <1>3 DEF ToggleImage
<1>8. ASSUME NEW x \in Contents \cup {Absent}, Type(x) PROVE SettleInv'
  BY <1>3, <1>8 DEF Type
<1>9. ASSUME NEW c \in CategoryIds, SelectCategory(c) PROVE SettleInv'
  BY <1>3, <1>9 DEF SelectCategory
<1>10. ASSUME NEW type \in Types, ChangeTab(type) PROVE SettleInv'
  BY <1>3, <1>10 DEF ChangeTab
<1>11. ASSUME NEW k \in Calls, NEW call, calls' = [calls EXCEPT ![k] = call],
              call # NoCall => call.kind \notin {"save", "delete"},
              calls[k] # NoCall => calls[k].kind \notin {"save", "delete"},
              UNCHANGED <<serverRows, shown, outdated>> \/ UNCHANGED <<products, shown, outdated>>,
              productForm.open => productForm'.open = productForm.open /\ productForm'.product = productForm.product,
              ~ productForm.open => productForm' = productForm
       PROVE  SettleInv'
  <2>1. \A j \in Calls : \/ calls'[j] = calls[j]
                         \/ /\ calls'[j] # NoCall => calls'[j].kind \notin {"save", "delete"}
                            /\ calls[j] # NoCall => calls[j].kind \notin {"save", "delete"}
    BY <1>1, <1>11
  <2>2. \A p \in ProductIds : FormOn(p)' => FormOn(p)
    BY <1>11 DEF FormOn
  <2> QED
    BY <1>11, <2>1, <2>2, QuietStep
<1>12. ASSUME NEW k \in Calls, Upload(k) PROVE SettleInv'
  <2>1. productForm'.open = productForm.open /\ productForm'.product = productForm.product
    BY <1>12, FormNow DEF Upload, OpenForms
  <2> QED
    BY <1>11, <1>12, <2>1 DEF Upload, Call
<1>13. ASSUME NEW k \in Calls, NewCategory(k) PROVE SettleInv'
  BY <1>11, <1>13 DEF NewCategory, Call
<1>14. ASSUME NEW k \in Calls, StoreImage(k) PROVE SettleInv'
  <2>1. calls[k] \in AnyCall
    BY <1>14, CallNow DEF StoreImage, NoCall
  <2>2. [calls[k] EXCEPT !.at = "applied"].kind = "upload"
    BY <1>14, <2>1, AppliedShape DEF StoreImage
  <2>3. calls' = [calls EXCEPT ![k] = [calls[k] EXCEPT !.at = "applied"]]
    BY <1>14, <2>1 DEF StoreImage, Applied
  <2> QED
    BY <1>11, <1>14, <2>2, <2>3 DEF StoreImage
<1>15. ASSUME NEW k \in Calls, NEW c \in CategoryIds, CreateCategory(k, c) PROVE SettleInv'
  <2>1. calls[k] \in AnyCall /\ calls[k].kind = "category"
    BY <1>15, CallNow DEF CreateCategory, NoCall
  <2>2. [calls[k] EXCEPT !.at = "applied", !.category = c].kind = "category"
    BY <2>1, CategoryShape
  <2>3. calls' = [calls EXCEPT ![k] = [calls[k] EXCEPT !.at = "applied", !.category = c]]
    BY <1>1, <1>15, <2>1 DEF CreateCategory
  <2> QED
    BY <1>11, <1>15, <2>1, <2>2, <2>3 DEF CreateCategory
<1>16. ASSUME NEW k \in Calls, ImageStored(k) PROVE SettleInv'
  <2>1. calls[k] # NoCall /\ calls[k].kind = "upload"
    <3>1. calls[k].at = "applied" /\ calls[k].kind = "upload"
      BY <1>16 DEF ImageStored
    <3> QED
      BY <3>1 DEF NoCall
  <2>2. productForm \in OpenForms
    BY <2>1, CallNow, FormNow DEF CallFits
  <2>3. productForm'.open = productForm.open /\ productForm'.product = productForm.product
    BY <1>16, <2>2 DEF ImageStored, OpenForms
  <2> QED
    BY <1>11, <1>16, <2>1, <2>2, <2>3 DEF ImageStored, Over, OpenForms
<1>17. ASSUME NEW k \in Calls, CategoryCreated(k) PROVE SettleInv'
  <2>1. calls[k] # NoCall /\ calls[k].kind = "category"
    BY <1>17 DEF CategoryCreated, NoCall
  <2>2. calls[k].live => productForm \in OpenForms
    BY <2>1, CallNow, FormNow
  <2>3. productForm'.open = productForm.open /\ productForm'.product = productForm.product
    BY <1>17, <2>2 DEF CategoryCreated, OpenForms
  <2>4. ~ productForm.open => productForm' = productForm
    BY <1>17, <2>1, CallNow DEF CategoryCreated
  <2> QED
    BY <1>11, <1>17, <2>1, <2>3, <2>4 DEF CategoryCreated, Over
<1> QED
  BY <1>4, <1>5, <1>6, <1>7, <1>8, <1>9, <1>10, <1>12, <1>13, <1>14, <1>15, <1>16, <1>17

\* A step of the call k about the product q leaves the others alone.
LEMMA OnlyOf ==
    ASSUME FitInv, SettleInv, NEW q, NEW k \in Calls,
           \A p \in ProductIds \ {q} :
                /\ products'[p] = products[p] /\ shown'[p] = shown[p] /\ (p \in outdated <=> p \in outdated')
                /\ ~ On(calls[k], p) /\ ~ On(calls'[k], p) /\ (FormOn(p)' => FormOn(p)),
           \A j \in Calls \ {k} : calls'[j] = calls[j] \/ calls'[j] = Orphans[j]
    PROVE  /\ \A p \in ProductIds \ {q} : SettlesAt(p)'
           /\ \A p \in ProductIds, j \in Calls \ {k} : /\ On(calls'[j], p) <=> On(calls[j], p)
                                                       /\ On(calls[j], p) => Still(j)
<1>1. ASSUME NEW p \in ProductIds, NEW j \in Calls \ {k}
      PROVE  (On(calls'[j], p) <=> On(calls[j], p)) /\ (On(calls[j], p) => Still(j))
  <2>1. CASE calls'[j] = calls[j]
    BY <2>1 DEF Still
  <2>2. CASE calls'[j] = Orphans[j]
    <3>1. CASE calls[j] = NoCall \/ calls[j].kind = "upload"
      <4>1. Orphans[j] = NoCall
        BY <3>1, OrphansFit
      <4> QED
        BY <2>2, <3>1, <4>1 DEF On
    <3>2. CASE calls[j] # NoCall /\ calls[j].kind # "upload"
      <4>1. calls'[j] # NoCall /\ calls'[j] = [calls[j] EXCEPT !.live = FALSE] /\ calls[j] \in AnyCall
        BY <2>2, <3>2, OrphansFit, CallNow
      <4>2. /\ calls'[j].kind = calls[j].kind /\ calls'[j].at = calls[j].at
            /\ calls[j].kind = "save" => calls'[j].product = calls[j].product /\ calls'[j].new = calls[j].new
            /\ calls[j].kind = "delete" => calls'[j].product = calls[j].product
        BY <4>1, OrphanShape
      <4> QED
        BY <3>2, <4>1, <4>2 DEF On, Still
    <3> QED
      BY <3>1, <3>2
  <2> QED
    BY <2>1, <2>2
<1>2. ASSUME NEW p \in ProductIds \ {q} PROVE SettlesAt(p)'
  <2>1. \A j \in Calls : (On(calls'[j], p) <=> On(calls[j], p)) /\ (On(calls[j], p) => Still(j))
    BY <1>1
  <2>2. SettlesAt(p)
    BY DEF SettleInv
  <2> QED
    BY <2>1, <2>2, PassedBy DEF Answers
<1> QED
  BY <1>1, <1>2

LEMMA AskStep ==
    ASSUME FitInv, SettleInv, NEW k \in Calls, Submit(k) \/ \E p \in ProductIds : Remove(k, p)
    PROVE  SettleInv'
<1> USE DEF SettlesAt
<1>1. calls \in [Calls -> AnyCall \cup {NoCall}]
  BY DEF FitInv, MenuTypeOK, AnyCall
<1>2. ASSUME Submit(k) PROVE SettleInv'
  <2> DEFINE call == [at |-> "sent", kind |-> "save", live |-> TRUE, data |-> productForm.data,
                      product |-> productForm.product, new |-> productForm.product = Absent]
  <2>1. /\ productForm.open /\ UNCHANGED <<products, shown, outdated>>
        /\ calls[k] = NoCall /\ calls' = [calls EXCEPT ![k] = call]
        /\ productForm' = [productForm EXCEPT !.submitting = TRUE]
    BY <1>2 DEF Submit, Call, serverRows
  <2>2. productForm'.open = productForm.open /\ productForm'.product = productForm.product
    BY <2>1, FormNow DEF OpenForms
  <2>3. /\ calls'[k].kind = "save" /\ calls'[k].at = "sent" /\ calls'[k].product = productForm.product
    BY <1>1, <2>1
  <2> HIDE DEF call
  <2>4. \A j \in Calls \ {k} : calls'[j] = calls[j]
    BY <1>1, <2>1
  <2>5. \A p \in ProductIds : ~ On(calls[k], p) /\ ~ Answers(calls'[k], p) /\ (On(calls'[k], p) => FormOn(p))
    BY <2>1, <2>3 DEF On, Answers, FormOn
  <2> SUFFICES ASSUME NEW p \in ProductIds PROVE SettlesAt(p)'
    BY DEF SettleInv
  <2>6. SettlesAt(p)
    BY DEF SettleInv
  <2>7. CASE ~ On(calls'[k], p)
    <3>1. \A j \in Calls : On(calls'[j], p) => On(calls[j], p) /\ Still(j)
      BY <2>4, <2>7 DEF Still
    <3>2. \A j \in Calls : Answers(calls[j], p) => On(calls'[j], p)
      BY <2>4, <2>5 DEF Answers
    <3>3. FormOn(p)' => FormOn(p)
      BY <2>2 DEF FormOn
    <3> QED
      BY <2>1, <2>6, <3>1, <3>2, <3>3, PassedBy
  <2>8. CASE FormOn(p)
    <3>1. ListTells(p)' /\ GoneIsTold(p)'
      BY <2>1, <2>4, <2>5, <2>6 DEF ListTells, GoneIsTold, Answers, Deletes
    <3>2. NewIsAlone(p)'
      BY <2>1, <2>4, <2>5, <2>6, <2>8 DEF NewIsAlone, Creates
    <3>3. UnlistedIsNew(p)'
      BY <2>1, <2>6, <2>8 DEF UnlistedIsNew
    <3>4. DeletedIsGone(p)'
      BY <2>1, <2>4, <2>5, <2>6 DEF DeletedIsGone, Deletes
    <3> QED
      BY <3>1, <3>2, <3>3, <3>4
  <2> QED
    BY <2>5, <2>7, <2>8
<1>3. ASSUME NEW q \in ProductIds, Remove(k, q) PROVE SettleInv'
  <2> DEFINE call == [at |-> "sent", kind |-> "delete", live |-> FALSE, product |-> q]
  <2>1. /\ UNCHANGED <<products, shown, outdated, productForm>>
        /\ calls[k] = NoCall /\ calls' = [calls EXCEPT ![k] = call] /\ shown[q] # Absent
    BY <1>3 DEF Remove, Call, serverRows
  <2>2. calls'[k].kind = "delete" /\ calls'[k].at = "sent" /\ calls'[k].product = q
    BY <1>1, <2>1
  <2> HIDE DEF call
  <2>3. \A j \in Calls \ {k} : calls'[j] = calls[j]
    BY <1>1, <2>1
  <2>4. \A p \in ProductIds : ~ On(calls[k], p) /\ ~ Answers(calls'[k], p) /\ (On(calls'[k], p) => p = q)
    BY <2>1, <2>2 DEF On, Answers
  <2>5. \A p \in ProductIds \ {q} : SettlesAt(p)'
    BY <2>1, <2>3, <2>4, OnlyOf DEF FormOn
  <2>6. SettlesAt(q)
    BY DEF SettleInv
  <2>7. ListTells(q)' /\ GoneIsTold(q)'
    BY <2>1, <2>3, <2>4, <2>6 DEF ListTells, GoneIsTold, Answers, Deletes
  <2>8. NewIsAlone(q)'
    BY <2>1, <2>3, <2>4, <2>6 DEF NewIsAlone, Creates
  <2>9. UnlistedIsNew(q)'
    BY <2>1, <2>6 DEF UnlistedIsNew
  <2>10. DeletedIsGone(q)'
    BY <2>1, <2>3, <2>4, <2>6 DEF DeletedIsGone, Deletes
  <2> QED
    BY <2>5, <2>7, <2>8, <2>9, <2>10 DEF SettleInv
<1> QED
  BY <1>2, <1>3

LEMMA ServerStep ==
    ASSUME FitInv, SettleInv, NEW k \in Calls, UpdateProduct(k) \/ DeleteProduct(k)
    PROVE  SettleInv'
<1> USE DEF SettlesAt
<1> DEFINE done == [calls[k] EXCEPT !.at = "applied"]
<1>1. calls \in [Calls -> AnyCall \cup {NoCall}]
  BY DEF FitInv, MenuTypeOK, AnyCall
<1>2. calls[k] # NoCall /\ calls[k].kind \in {"save", "delete"}
  BY DEF UpdateProduct, DeleteProduct, NoCall
<1>3. calls[k] \in AnyCall /\ CallFits(calls[k])
  BY <1>2, CallNow
<1>4. PICK q \in ProductIds : q = calls[k].product
  BY <1>3, <1>2, CallShape DEF UpdateProduct, DeleteProduct
<1>5. /\ UNCHANGED <<shown, outdated, productForm>> /\ calls[k].at = "sent" /\ products[q] # Absent
  BY <1>4 DEF UpdateProduct, DeleteProduct
<1>6. q # Absent
  BY AbsentAssumption
<1>7. calls' = [calls EXCEPT ![k] = done]
  BY <1>1, <1>3 DEF UpdateProduct, DeleteProduct, Applied
<1>8. /\ calls'[k] # NoCall /\ calls'[k].at = "applied" /\ calls'[k].kind = calls[k].kind
      /\ calls'[k].product = q /\ (calls[k].kind = "save" => ~ calls'[k].new)
  <2>1. /\ done \in AnyCall /\ done.at = "applied" /\ done.kind = calls[k].kind /\ done.product = q
        /\ calls[k].kind = "save" => done.new = calls[k].new
    BY <1>5, <1>2, <1>4, <1>6, <1>3, AppliedShape
  <2>2. calls[k].kind = "save" => ~ calls[k].new
    BY <1>5, <1>2, <1>4, <1>6, <1>3 DEF CallFits
  <2> QED
    BY <1>1, <1>7, <2>1, <2>2, CallShape
<1>9. \A j \in Calls \ {k} : calls'[j] = calls[j]
  BY <1>1, <1>7
<1>10. /\ \A p \in ProductIds \ {q} : products'[p] = products[p]
      /\ IF calls[k].kind = "save" THEN products'[q] # Absent ELSE products'[q] = Absent
  <2>1. CASE UpdateProduct(k)
    <3>1. calls[k].kind = "save" /\ products' = [products EXCEPT ![q] = RowOf(calls[k].data)]
      BY <1>4, <2>1 DEF UpdateProduct
    <3>2. RowOf(calls[k].data) # Absent
      <4>1. /\ calls[k].data \in FormData /\ calls[k].data.content # Absent
            /\ calls[k].data.category # Absent
        BY <1>3, <3>1, CallShape DEF CallFits
      <4>2. RowOf(calls[k].data) \in ProductRows
        BY <4>1 DEF RowOf, ProductRows, FormData
      <4> QED
        BY <4>2, AbsentAssumption
    <3> QED
      BY <1>4, <3>1, <3>2, RowsNow
  <2>2. CASE DeleteProduct(k)
    <3>1. calls[k].kind = "delete" /\ products' = [products EXCEPT ![q] = Absent]
      BY <1>4, <2>2 DEF DeleteProduct
    <3> QED
      BY <1>4, <3>1, RowsNow
  <2> QED
    BY <2>1, <2>2
<1> HIDE DEF done
<1>11. \A p \in ProductIds \ {q} : ~ On(calls[k], p) /\ ~ On(calls'[k], p)
  BY <1>8, <1>4 DEF On
<1>12. \A p \in ProductIds \ {q} : SettlesAt(p)'
  BY <1>5, <1>2, <1>4, <1>6, <1>9, <1>10, <1>11, OnlyOf DEF FormOn
<1>13. On(calls[k], q) /\ Answers(calls'[k], q) /\ (calls[k].kind = "delete" => Deletes(calls'[k], q))
       /\ ~ Creates(calls'[k], q)
  BY <1>5, <1>2, <1>4, <1>6, <1>8 DEF On, Answers, Deletes, Creates
<1>14. SettlesAt(q)
  BY <1>4 DEF SettleInv
<1>15. ListTells(q)' /\ GoneIsTold(q)'
  BY <1>5, <1>2, <1>4, <1>6, <1>10, <1>13 DEF ListTells, GoneIsTold
<1>16. NewIsAlone(q)'
  <2>1. \A j \in Calls : ~ Creates(calls'[j], q)
    BY <1>9, <1>13, <1>14 DEF NewIsAlone
  <2> QED
    BY <2>1 DEF NewIsAlone
<1>17. UnlistedIsNew(q)'
  <2>1. calls[k].kind = "save" => ~ calls[k].new
    BY <1>5, <1>3, <1>4, <1>6 DEF CallFits
  <2>2. On(calls[k], q)
    BY <1>13
  <2>3. UnlistedIsNew(q)
    BY <1>14
  <2>4. shown[q] # Absent
    BY <1>5, <2>1, <2>2, <2>3 DEF UnlistedIsNew
  <2> QED
    BY <1>5, <2>4 DEF UnlistedIsNew
<1>18. DeletedIsGone(q)'
  <2>1. \A j \in Calls \ {k} : ~ Deletes(calls[j], q)
    BY <1>5, <1>2, <1>4, <1>6, <1>14 DEF DeletedIsGone
  <2> QED
    BY <1>8, <1>9, <1>10, <2>1 DEF DeletedIsGone, Deletes
<1> QED
  BY <1>12, <1>15, <1>16, <1>17, <1>18 DEF SettleInv

LEMMA CreateStep ==
    ASSUME FitInv, SettleInv, NEW k \in Calls, NEW q \in ProductIds, CreateProduct(k, q)
    PROVE  SettleInv'
<1> USE DEF SettlesAt
<1> DEFINE made == [calls[k] EXCEPT !.at = "applied", !.product = q]
<1>1. calls \in [Calls -> AnyCall \cup {NoCall}]
  BY DEF FitInv, MenuTypeOK, AnyCall
<1>2. /\ calls[k] # NoCall /\ calls[k].kind = "save" /\ calls[k].at = "sent" /\ calls[k].product = Absent
      /\ UNCHANGED <<shown, outdated, productForm>> /\ Fresh(q)
  BY DEF CreateProduct, NoCall
<1>3. calls[k] \in AnyCall /\ CallFits(calls[k])
  BY <1>2, CallNow
<1>4. calls' = [calls EXCEPT ![k] = made]
  BY <1>1, <1>3 DEF CreateProduct
<1>5. calls'[k].kind = "save" /\ calls'[k].at = "applied" /\ calls'[k].product = q /\ calls'[k].new
  <2>1. made.kind = "save" /\ made.at = "applied" /\ made.product = q /\ made.new = calls[k].new
    BY <1>2, <1>3, CreatedShape
  <2>2. calls[k].new
    BY <1>2, <1>3 DEF CallFits
  <2> QED
    BY <1>1, <1>4, <2>1, <2>2
<1> HIDE DEF made
<1>6. \A j \in Calls \ {k} : calls'[j] = calls[j] /\ ~ On(calls[j], q)
  BY <1>1, <1>2, <1>4 DEF Fresh, On
<1>7. products' = [products EXCEPT ![q] = RowOf(calls[k].data)] /\ RowOf(calls[k].data) # Absent
  <2>1. /\ calls[k].data \in FormData /\ calls[k].data.content # Absent
        /\ calls[k].data.category # Absent
    BY <1>2, <1>3, CallShape DEF CallFits
  <2>2. RowOf(calls[k].data) \in ProductRows
    BY <2>1 DEF RowOf, ProductRows, FormData
  <2> QED
    BY <2>2, AbsentAssumption DEF CreateProduct
<1>8. products'[q] # Absent /\ \A p \in ProductIds \ {q} : products'[p] = products[p]
  BY <1>7, RowsNow
<1>9. \A p \in ProductIds \ {q} : ~ On(calls[k], p) /\ ~ On(calls'[k], p)
  BY <1>2, <1>5, AbsentAssumption DEF On
<1>10. \A p \in ProductIds \ {q} : SettlesAt(p)'
  BY <1>2, <1>6, <1>8, <1>9, OnlyOf DEF FormOn
<1>11. Answers(calls'[k], q) /\ ~ Deletes(calls'[k], q)
  BY <1>5 DEF On, Answers, Deletes, NoCall
<1>12. \A j \in Calls \ {k} : ~ On(calls'[j], q)
  BY <1>6
<1>13. shown'[q] = Absent /\ ~ FormOn(q)'
  BY <1>2 DEF Fresh, FormOn
<1>14. ListTells(q)' /\ GoneIsTold(q)'
  BY <1>8, <1>11 DEF ListTells, GoneIsTold
<1>15. NewIsAlone(q)'
  BY <1>8, <1>12, <1>13 DEF NewIsAlone, Creates, Answers
<1>16. UnlistedIsNew(q)'
  BY <1>5, <1>12, <1>13 DEF UnlistedIsNew
<1>17. DeletedIsGone(q)'
  BY <1>11, <1>12 DEF DeletedIsGone, Deletes, Answers
<1> QED
  BY <1>10, <1>14, <1>15, <1>16, <1>17 DEF SettleInv

LEMMA ElsewhereStep ==
    ASSUME FitInv, SettleInv, NEW q \in ProductIds, NEW row \in ProductRows \cup {Absent}, OtherPanel(q, row)
    PROVE  SettleInv'
<1> USE DEF SettlesAt
<1>1. /\ products[q] # Absent /\ products' = [products EXCEPT ![q] = row] /\ outdated' = outdated \cup {q}
      /\ UNCHANGED <<shown, productForm, calls>>
  BY DEF OtherPanel
<1>2. \A p \in ProductIds \ {q} : products'[p] = products[p]
  BY <1>1, RowsNow
<1>3. ASSUME NEW p \in ProductIds \ {q} PROVE SettlesAt(p)'
  <2>1. SettlesAt(p)
    BY DEF SettleInv
  <2> QED
    BY <1>1, <1>2, <2>1, PassedBy DEF Still, FormOn, Answers
<1>4. SettlesAt(q)
  BY DEF SettleInv
<1>5. ListTells(q)' /\ GoneIsTold(q)'
  BY <1>1 DEF ListTells, GoneIsTold
<1>6. NewIsAlone(q)' /\ UnlistedIsNew(q)' /\ DeletedIsGone(q)'
  BY <1>1, <1>4 DEF NewIsAlone, UnlistedIsNew, DeletedIsGone, Creates, Deletes, Answers, On, FormOn
<1> QED
  BY <1>3, <1>5, <1>6 DEF SettleInv

\* The answer of a submission.
LEMMA SavedSettles == ASSUME FitInv, SettleInv, NEW k \in Calls, Saved(k) PROVE SettleInv'
<1> USE DEF SettlesAt
<1>1. /\ UNCHANGED products /\ productForm' = Closed /\ calls' = [Orphans EXCEPT ![k] = NoCall]
      /\ calls[k].kind = "save" /\ calls[k].at = "applied"
  BY DEF Saved, serverRows
<1>2. calls[k] # NoCall
  BY <1>1 DEF NoCall
<1>3. calls[k] \in AnyCall /\ CallFits(calls[k])
  BY <1>2, CallNow
<1>4. PICK q \in ProductIds : q = calls[k].product
  BY <1>1, <1>3, CallShape DEF CallFits
<1>5. PICK row \in ProductRows : row = RowOf(calls[k].data)
  <2>1. /\ calls[k].data \in FormData /\ calls[k].data.content # Absent
        /\ calls[k].data.category # Absent
    BY <1>1, <1>3, CallShape DEF CallFits
  <2> QED
    BY <2>1 DEF RowOf, ProductRows, FormData
<1>6. row # Absent
  BY AbsentAssumption
<1>7. /\ shown' = IF calls[k].new \/ shown[q] # Absent THEN [shown EXCEPT ![q] = row] ELSE shown
      /\ outdated' = Judge(q, row)
  BY <1>4, <1>5 DEF Saved
<1>8. /\ \A p \in ProductIds \ {q} : shown'[p] = shown[p] /\ (p \in outdated <=> p \in outdated')
      /\ shown'[q] = IF calls[k].new \/ shown[q] # Absent THEN row ELSE Absent
  <2>1. shown \in [ProductIds -> ProductRows \cup {Absent}]
    BY DEF FitInv, MenuTypeOK
  <2> QED
    BY <1>7, <2>1 DEF Judge
<1>9. \A p \in ProductIds : ~ On(calls'[k], p) /\ ~ FormOn(p)'
  BY <1>1, OrphansFit DEF On, FormOn, Closed
<1>10. \A j \in Calls \ {k} : calls'[j] = Orphans[j]
  BY <1>1, OrphansFit
<1>11. \A p \in ProductIds \ {q} : ~ On(calls[k], p)
  BY <1>4 DEF On
<1>12. \A p \in ProductIds \ {q} : SettlesAt(p)'
  BY <1>1, <1>8, <1>9, <1>10, <1>11, OnlyOf
<1>13. \A j \in Calls \ {k} : (On(calls'[j], q) <=> On(calls[j], q)) /\ (On(calls[j], q) => Still(j))
  BY <1>1, <1>8, <1>9, <1>10, <1>11, OnlyOf
<1>14. On(calls[k], q) /\ (calls[k].new => Creates(calls[k], q)) /\ ~ Deletes(calls[k], q)
  BY <1>1, <1>2, <1>4 DEF On, Answers, Creates, Deletes
<1>15. SettlesAt(q)
  BY DEF SettleInv
<1>16. calls[k].new /\ products[q] = Absent => q \in outdated
  BY <1>14, <1>15 DEF NewIsAlone
<1>17. products[q] # Absent => shown'[q] = row
  BY <1>8, <1>14, <1>15 DEF UnlistedIsNew
<1>18. products[q] = Absent => (q \in outdated' <=> q \in outdated)
  BY <1>6, <1>7 DEF Judge
<1>19. products[q] # Absent /\ q \notin outdated' => row = products[q]
  BY <1>7 DEF Judge
<1>20. q \notin outdated' /\ products[q] = Absent /\ shown[q] # Absent => \E j \in Calls : Deletes(calls'[j], q)
  BY <1>13, <1>14, <1>15, <1>18 DEF GoneIsTold, Deletes, Answers, Still
<1>21. ListTells(q)'
  <2>1. CASE products[q] = Absent
    BY <1>1, <1>8, <1>16, <1>18, <1>20, <2>1 DEF ListTells, Deletes
  <2>2. CASE products[q] # Absent
    BY <1>1, <1>17, <1>19, <2>2 DEF ListTells
  <2> QED
    BY <2>1, <2>2
<1>22. GoneIsTold(q)'
  BY <1>1, <1>8, <1>16, <1>18, <1>20 DEF GoneIsTold
<1>23. NewIsAlone(q)'
  <2>1. \A j \in Calls : ~ Creates(calls'[j], q)
    BY <1>9, <1>13, <1>14, <1>15 DEF NewIsAlone, Creates, Answers, Still
  <2> QED
    BY <2>1 DEF NewIsAlone
<1>24. UnlistedIsNew(q)'
  BY <1>1, <1>6, <1>17 DEF UnlistedIsNew
<1>25. DeletedIsGone(q)'
  BY <1>1, <1>9, <1>13, <1>15 DEF DeletedIsGone, Deletes, Answers, Still
<1> QED
  BY <1>12, <1>21, <1>22, <1>23, <1>24, <1>25 DEF SettleInv

\* The answer of a deletion: the product is gone.
LEMMA RemovedSettles == ASSUME FitInv, SettleInv, NEW k \in Calls, Removed(k) PROVE SettleInv'
<1> USE DEF SettlesAt
<1>1. /\ UNCHANGED <<products, productForm>> /\ calls' = [calls EXCEPT ![k] = NoCall]
      /\ calls[k].kind = "delete" /\ calls[k].at = "applied"
  BY DEF Removed, serverRows, Over
<1>2. calls[k] # NoCall
  BY <1>1 DEF NoCall
<1>3. calls[k] \in AnyCall
  BY <1>2, CallNow
<1>4. PICK q \in ProductIds : q = calls[k].product
  BY <1>1, <1>3, CallShape
<1>5. shown' = [shown EXCEPT ![q] = Absent] /\ outdated' = Judge(q, Absent)
  BY <1>4 DEF Removed
<1>6. /\ \A p \in ProductIds \ {q} : shown'[p] = shown[p] /\ (p \in outdated <=> p \in outdated')
      /\ shown'[q] = Absent
  <2>1. shown \in [ProductIds -> ProductRows \cup {Absent}]
    BY DEF FitInv, MenuTypeOK
  <2> QED
    BY <1>5, <2>1 DEF Judge
<1>7. calls \in [Calls -> AnyCall \cup {NoCall}]
  BY DEF FitInv, MenuTypeOK, AnyCall
<1>8. (\A j \in Calls \ {k} : calls'[j] = calls[j]) /\ \A p \in ProductIds : ~ On(calls'[k], p)
  BY <1>1, <1>7 DEF On
<1>9. \A p \in ProductIds \ {q} : ~ On(calls[k], p)
  BY <1>4 DEF On
<1>10. \A p \in ProductIds \ {q} : SettlesAt(p)'
  BY <1>1, <1>6, <1>8, <1>9, OnlyOf DEF FormOn
<1>11. On(calls[k], q) /\ Deletes(calls[k], q) /\ SettlesAt(q)
  BY <1>1, <1>2, <1>4 DEF On, Answers, Deletes, SettleInv
<1>12. products[q] = Absent
  BY <1>11 DEF DeletedIsGone
<1>13. ListTells(q)' /\ GoneIsTold(q)' /\ UnlistedIsNew(q)' /\ DeletedIsGone(q)'
  BY <1>1, <1>6, <1>12 DEF ListTells, GoneIsTold, UnlistedIsNew, DeletedIsGone
<1>14. NewIsAlone(q)'
  <2>1. \A j \in Calls : ~ Creates(calls'[j], q)
    BY <1>8, <1>11 DEF NewIsAlone, Creates, Answers, Deletes
  <2> QED
    BY <2>1 DEF NewIsAlone
<1> QED
  BY <1>10, <1>13, <1>14 DEF SettleInv

LEMMA FailSettles == ASSUME FitInv, SettleInv, NEW k \in Calls, CallFails(k) PROVE SettleInv'
<1>1. /\ UNCHANGED <<products, shown>> /\ calls[k] # NoCall /\ calls' = [calls EXCEPT ![k] = NoCall]
      /\ outdated' = IF calls[k].at = "applied" /\ calls[k].kind \in {"save", "delete"}
                     THEN outdated \cup {calls[k].product} ELSE outdated
      /\ \/ productForm' = productForm
         \/ calls[k].live /\ productForm' = [productForm EXCEPT !.uploading = FALSE]
         \/ calls[k].live /\ productForm' = [productForm EXCEPT !.submitting = FALSE]
  BY DEF CallFails, serverRows, Over
<1>2. \A p \in ProductIds : FormOn(p)' => FormOn(p)
  <2>1. CASE productForm' = productForm
    BY <2>1 DEF FormOn
  <2>2. CASE productForm' # productForm
    <3>1. productForm \in OpenForms
      BY <1>1, <2>2, CallNow, FormNow
    <3>2. productForm'.open = productForm.open /\ productForm'.product = productForm.product
      BY <1>1, <2>2, <3>1 DEF OpenForms
    <3> QED
      BY <3>2 DEF FormOn
  <2> QED
    BY <2>1, <2>2
<1>3. calls \in [Calls -> AnyCall \cup {NoCall}]
  BY DEF FitInv, MenuTypeOK, AnyCall
<1>4. (\A j \in Calls \ {k} : calls'[j] = calls[j]) /\ calls'[k] = NoCall
  BY <1>1, <1>3
<1> SUFFICES ASSUME NEW p \in ProductIds PROVE SettlesAt(p)'
  BY DEF SettleInv
<1>5. SettlesAt(p) /\ (p \in outdated => p \in outdated')
  BY <1>1 DEF SettleInv
<1>6. \A j \in Calls : On(calls'[j], p) => On(calls[j], p) /\ Still(j)
  BY <1>4 DEF On, Still
<1>7. p \notin outdated' => \A j \in Calls : Answers(calls[j], p) => On(calls'[j], p)
  BY <1>1, <1>4 DEF On, Answers
<1> QED
  BY <1>1, <1>2, <1>5, <1>6, <1>7, PassedBy

LEMMA SettleStep == FitInv /\ SettleInv /\ [MenuNext]_menuVars => SettleInv'
<1> SUFFICES ASSUME FitInv, SettleInv, [MenuNext]_menuVars PROVE SettleInv'
  OBVIOUS
<1>1. CASE UNCHANGED menuVars
  BY <1>1, QuietStep DEF menuVars, serverRows, FormOn
<1>2. CASE MenuNext
  BY <1>2, QuietNext, AskStep, ServerStep, CreateStep, ElsewhereStep, SavedSettles, RemovedSettles, FailSettles
     DEF MenuNext
<1> QED
  BY <1>1, <1>2

LEMMA SettleAlways == MenuSpec => []SettleInv
BY SettleInitial, SettleStep, FitAlways, PTL DEF MenuSpec

\* The list ends as the server is, whatever submissions and deletions cross (MenuSettles).
THEOREM ListSettles == MenuSpec => []MenuSettles
<1>1. SettleInv => MenuSettles
  BY DEF SettleInv, SettlesAt, ListTells, Answers, On, MenuSettles
<1> QED
  BY <1>1, SettleAlways, PTL

-----------------------------------------------------------------------------
(* The cart. *)

\* One flavor or two, of editions that have been.
Flavors(items) ==
    /\ \E i, j \in items : items = {i, j} /\ (i.id = j.id => i = j)
    /\ \A i \in items : i \in Objects /\ i.of <= Now

\* A line has the price its objects gave it; only a drink may be without one.
PriceFits(items, size, price) ==
    IF Priced(items, size)
    THEN price = Mean(items, size)
    ELSE price = 0 /\ \E i \in items : items = {i} /\ i.id \in Drinks
LineFits(l) == Flavors(l.items) /\ l.size \in PizzaSizes /\ PriceFits(l.items, l.size, l.price)
LinesFit == \A l \in basket : LineFits(l)
BuilderFits == builder # Idle => Flavors(builder.items) /\ Priced(builder.items, builder.size)

\* What the order keeps of the cart it was made of, which stays as it is until the answer.
PlacingFits ==
    /\ placing.at # "idle" => screen = "checkout" /\ placing.shown.goods = Subtotal(basket)
    /\ placing.at = "placed" =>
        /\ placing.charged = OrderTotal(basket, placing.tenant, placing.edition)
        /\ CanBeOrdered(basket, placing.edition)
    /\ placing.at = "refused" =>
        ~ editions[placing.tenant].open \/ ~ CanBeOrdered(basket, placing.edition)

CartInv == CartTypeOK /\ LinesFit /\ BuilderFits /\ PlacingFits

\* The mean, whichever of the two is called the first.
LEMMA MeanOf ==
    ASSUME NEW i, NEW j, NEW size, Price(i, size) \in Int, Price(j, size) \in Int
    PROVE  Mean({i, j}, size) = (Price(i, size) + Price(j, size) + 1) \div 2
<1> DEFINE items == {i, j}
           a == CHOOSE x \in items : TRUE
           b == CHOOSE x \in items : items = {a, x}
<1>1. a \in items
  BY DEF items
<1>2. b \in items /\ items = {a, b}
  <2>1. \E x \in items : items = {a, x}
    BY <1>1
  <2> QED
    BY <2>1
<1>3. (a = i /\ b = j) \/ (a = j /\ b = i)
  BY <1>1, <1>2
<1>4. Mean({i, j}, size) = (Price(a, size) + Price(b, size) + 1) \div 2
  BY DEF Mean
<1> HIDE DEF a, b
<1>5. Price(a, size) + Price(b, size) + 1 = Price(i, size) + Price(j, size) + 1
  BY <1>3
<1> QED
  BY <1>4, <1>5

\* What an object of some edition costs.
LEMMA PriceType ==
    ASSUME CartTypeOK, NEW i \in Objects, i.of <= Now, NEW size \in PizzaSizes
    PROVE  Price(i, size) \in Int /\ (Price(i, size) # NoPrice => Price(i, size) \in Nat)
<1>1. i.of \in 1 .. Len(editions) /\ i.id \in Goods
  BY DEF Objects, Now, CartTypeOK
<1>2. editions[i.of] \in Editions
  BY <1>1 DEF CartTypeOK
<1>3. editions[i.of].price \in [Goods -> [PizzaSizes -> Prices \cup {0, NoPrice}]]
  BY <1>2 DEF Editions
<1>4. Price(i, size) \in Prices \cup {0, NoPrice}
  BY <1>1, <1>3 DEF Price
<1>5. \A price \in Prices \cup {0, NoPrice} : price \in Int /\ (price # NoPrice => price \in Nat)
  BY PricesAssumption DEF NoPrice
<1> QED
  BY <1>4, <1>5

LEMMA MeanType ==
    ASSUME CartTypeOK, NEW items, Flavors(items), NEW size \in PizzaSizes, Priced(items, size)
    PROVE  Mean(items, size) \in Nat
<1>1. PICK i, j \in items : items = {i, j}
  BY DEF Flavors
<1>2. Price(i, size) \in Nat /\ Price(j, size) \in Nat
  BY PriceType DEF Flavors, Priced
<1>3. Mean(items, size) = (Price(i, size) + Price(j, size) + 1) \div 2
  BY <1>1, <1>2, MeanOf
<1> QED
  BY <1>2, <1>3

\* A product by itself.
LEMMA CardFits ==
    ASSUME CartTypeOK, NEW p \in Goods
    PROVE  Card(p) \in Objects /\ Card(p).id = p /\ Card(p).of <= Now /\ Flavors({Card(p)})
<1>1. Card(p) \in Objects /\ Card(p).id = p /\ Card(p).of <= Now /\ Now \in Nat
  BY DEF Card, Objects, CartTypeOK, Now
<1> QED
  BY <1>1 DEF Flavors

\* The price on the card of a drink, which is there or counts as nothing.
LEMMA ShownFits ==
    ASSUME CartTypeOK, NEW p \in Drinks
    PROVE  PriceFits({Card(p)}, DefaultSize, ShownPrice(Card(p)))
<1> DEFINE card == Card(p)
<1>1. card \in Objects /\ card.id \in Drinks /\ card.of <= Now /\ DefaultSize \in PizzaSizes
  BY CardFits, PricesAssumption DEF Goods
<1>2. Price(card, DefaultSize) \in Int
  BY <1>1, PriceType
<1>3. Mean({card, card}, DefaultSize) = (Price(card, DefaultSize) + Price(card, DefaultSize) + 1) \div 2
  BY <1>2, MeanOf
<1>4. \A n \in Int : (n + n + 1) \div 2 = n
  OBVIOUS
<1>5. {card, card} = {card}
  OBVIOUS
<1>6. Mean({card}, DefaultSize) = Price(card, DefaultSize)
  BY <1>2, <1>3, <1>4, <1>5
<1>7. Priced({card}, DefaultSize) <=> Price(card, DefaultSize) # NoPrice
  BY DEF Priced
<1> HIDE DEF card
<1> QED
  BY <1>1, <1>6, <1>7 DEF PriceFits, ShownPrice, card

LEMMA CartInitial == CartInit => CartInv
<1> SUFFICES ASSUME CartInit PROVE CartInv
  OBVIOUS
<1>1. PICK price \in [Goods -> [PizzaSizes -> Prices]], fee \in Prices :
        editions = <<[sold |-> Goods, listed |-> Goods, price |-> price, fee |-> fee, open |-> TRUE]>>
  BY DEF CartInit
<1>2. price \in [Goods -> [PizzaSizes -> Prices \cup {0, NoPrice}]]
  BY <1>1
<1>3. [sold |-> Goods, listed |-> Goods, price |-> price, fee |-> fee, open |-> TRUE] \in Editions
  BY <1>2 DEF Editions
<1>4. editions \in Seq(Editions) /\ editions # <<>> /\ Now = 1
  BY <1>1, <1>3 DEF Now
<1>5. CartTypeOK
  BY <1>4 DEF CartInit, CartTypeOK, Idle
<1>6. LinesFit /\ BuilderFits /\ PlacingFits
  BY DEF CartInit, LinesFit, BuilderFits, PlacingFits, Idle
<1> QED
  BY <1>5, <1>6 DEF CartInv

-----------------------------------------------------------------------------
\* Where the editions stay, a line fits as it did.
LEMMA LineStays ==
    ASSUME UNCHANGED editions
    PROVE  /\ \A l : LineFits(l) => LineFits(l)'
           /\ \A items : Flavors(items) => Flavors(items)'
           /\ \A items, size : Priced(items, size) => Priced(items, size)'
<1>1. \A items : Flavors(items) => Flavors(items)'
  BY DEF Flavors, Now
<1>2. \A items, size : Mean(items, size)' = Mean(items, size)
  BY DEF Mean, Price
<1>3. \A items, size : Priced(items, size)' <=> Priced(items, size)
  BY DEF Priced, Price
<1>4. ASSUME NEW l, LineFits(l) PROVE LineFits(l)'
  BY <1>1, <1>2, <1>3, <1>4 DEF LineFits, PriceFits
<1> QED
  BY <1>1, <1>3, <1>4

\* A step that leaves the order alone, if there is one.
LEMMA OrderStays ==
    ASSUME PlacingFits, UNCHANGED <<editions, placing>>,
           placing.at = "idle" \/ UNCHANGED <<screen, basket>>
    PROVE  PlacingFits'
<1>1. CASE placing.at = "idle"
  BY <1>1 DEF PlacingFits
<1>2. CASE UNCHANGED <<screen, basket>>
  <2>1. Subtotal(basket)' = Subtotal(basket)
    BY <1>2 DEF Subtotal
  <2>2. OrderTotal(basket, placing.tenant, placing.edition)' = OrderTotal(basket, placing.tenant, placing.edition)
    BY <1>2 DEF OrderTotal, Mean, Price, Present, Ids
  <2>3. CanBeOrdered(basket, placing.edition)' <=> CanBeOrdered(basket, placing.edition)
    BY <1>2 DEF CanBeOrdered, Priced, Price, Present, Ids
  <2> QED
    BY <1>2, <2>1, <2>2, <2>3 DEF PlacingFits
<1> QED
  BY <1>1, <1>2

\* A line more, or one more of a line.
LEMMA PutStep ==
    ASSUME CartInv, UNCHANGED editions, NEW items, NEW size \in PizzaSizes, NEW price,
           Put(items, size, price), Flavors(items), PriceFits(items, size, price)
    PROVE  basket' \subseteq Lines /\ LinesFit'
<1> DEFINE line == [items |-> items, size |-> size, price |-> price, quantity |-> 1]
<1>1. basket \subseteq Lines /\ CartTypeOK
  BY DEF CartInv, CartTypeOK
<1>2. line \in Lines
  <2>1. items \subseteq Objects /\ price \in Nat
    BY <1>1, MeanType DEF Flavors, PriceFits
  <2> QED
    BY <2>1 DEF Lines
<1>3. LineFits(line)
  BY DEF LineFits
<1> HIDE DEF line
<1>4. ASSUME NEW l \in Lines, LineFits(l)
      PROVE  [l EXCEPT !.quantity = @ + 1] \in Lines /\ LineFits([l EXCEPT !.quantity = @ + 1])
  <2>1. [l EXCEPT !.quantity = @ + 1] \in Lines
    BY DEF Lines
  <2>2. /\ [l EXCEPT !.quantity = @ + 1].items = l.items /\ [l EXCEPT !.quantity = @ + 1].size = l.size
        /\ [l EXCEPT !.quantity = @ + 1].price = l.price
    BY DEF Lines
  <2> QED
    BY <1>4, <2>1, <2>2 DEF LineFits
<1>5. ASSUME NEW l \in basket' PROVE l \in Lines /\ LineFits(l)
  <2>1. CASE \E m \in basket : Same(m, items, size)
    <3>1. PICK m \in basket : l = IF Same(m, items, size) THEN [m EXCEPT !.quantity = @ + 1] ELSE m
      BY <1>5, <2>1 DEF Put
    <3> QED
      BY <1>1, <1>4, <3>1 DEF CartInv, LinesFit
  <2>2. CASE ~ \E m \in basket : Same(m, items, size)
    <3>1. l \in basket \/ l = line
      BY <1>5, <2>2 DEF Put, line
    <3> QED
      BY <1>1, <1>2, <1>3, <3>1 DEF CartInv, LinesFit
  <2> QED
    BY <2>1, <2>2
<1> QED
  BY <1>5, LineStays DEF LinesFit

LEMMA AddStep ==
    ASSUME CartInv,
           \/ \E p \in Pizzas, size \in PizzaSizes : AddSingleFlavor(p, size)
           \/ \E d \in Drinks : AddDrink(d)
           \/ AddToCart
    PROVE  CartInv'
<1>1. CartTypeOK /\ Now \in Nat
  BY DEF CartInv, CartTypeOK, Now
<1>2. UNCHANGED <<editions, catalog, branding, placing>> /\ screen \in {"menu", "builder"}
  BY DEF AddSingleFlavor, AddDrink, AddToCart
<1>3. placing.at = "idle"
  BY <1>2 DEF CartInv, PlacingFits
<1>4. PlacingFits'
  BY <1>2, <1>3, OrderStays DEF CartInv
<1>5. ASSUME NEW p \in Pizzas, NEW size \in PizzaSizes, AddSingleFlavor(p, size) PROVE CartInv'
  <2>1. p \in Goods /\ CardOffers(p, size) /\ Put({Card(p)}, size, Mean({Card(p)}, size))
        /\ UNCHANGED <<screen, builder>>
    BY <1>5 DEF AddSingleFlavor, Goods
  <2>2. Flavors({Card(p)}) /\ PriceFits({Card(p)}, size, Mean({Card(p)}, size))
    BY <1>1, <2>1, CardFits DEF CardOffers, PriceFits
  <2>3. basket' \subseteq Lines /\ LinesFit'
    BY <1>2, <2>1, <2>2, PutStep
  <2>4. CartTypeOK' /\ BuilderFits'
    BY <1>1, <1>2, <2>1, <2>3, LineStays DEF CartInv, CartTypeOK, BuilderFits, Now, Builders
  <2> QED
    BY <1>4, <2>3, <2>4 DEF CartInv
<1>6. ASSUME NEW p \in Drinks, AddDrink(p) PROVE CartInv'
  <2>1. p \in Goods /\ Put({Card(p)}, DefaultSize, ShownPrice(Card(p))) /\ UNCHANGED <<screen, builder>>
        /\ DefaultSize \in PizzaSizes
    BY <1>6, PricesAssumption DEF AddDrink, Goods
  <2>2. Flavors({Card(p)}) /\ PriceFits({Card(p)}, DefaultSize, ShownPrice(Card(p)))
    BY <1>1, <2>1, CardFits, ShownFits
  <2>3. basket' \subseteq Lines /\ LinesFit'
    BY <1>2, <2>1, <2>2, PutStep
  <2>4. CartTypeOK' /\ BuilderFits'
    BY <1>1, <1>2, <2>1, <2>3, LineStays DEF CartInv, CartTypeOK, BuilderFits, Now, Builders
  <2> QED
    BY <1>4, <2>3, <2>4 DEF CartInv
<1>7. ASSUME AddToCart PROVE CartInv'
  <2>1. /\ screen = "builder" /\ Priced(builder.items, builder.size)
        /\ Put(builder.items, builder.size, Mean(builder.items, builder.size))
        /\ screen' = "menu" /\ builder' = Idle
    BY <1>7 DEF AddToCart, CurrentPrice
  <2>2. /\ builder # Idle /\ builder.size \in PizzaSizes /\ Flavors(builder.items)
        /\ PriceFits(builder.items, builder.size, Mean(builder.items, builder.size))
    BY <1>1, <2>1 DEF CartInv, BuilderFits, CartTypeOK, Builders, PriceFits
  <2>3. basket' \subseteq Lines /\ LinesFit'
    BY <1>2, <2>1, <2>2, PutStep
  <2>4. CartTypeOK' /\ BuilderFits'
    BY <1>1, <1>2, <2>1, <2>3 DEF CartTypeOK, BuilderFits, Now
  <2> QED
    BY <1>4, <2>3, <2>4 DEF CartInv
<1> QED
  BY <1>5, <1>6, <1>7

\* The builder.
LEMMA BuilderStep ==
    ASSUME CartInv,
           \/ \E p \in Pizzas, size \in PizzaSizes : StartHalfHalf(p, size)
           \/ \E size \in PizzaSizes : PickSize(size)
           \/ \E p \in Pizzas : AddFlavor(p) \/ RemoveFlavor(p)
    PROVE  CartInv'
<1>1. CartTypeOK /\ LinesFit /\ BuilderFits /\ PlacingFits
  BY DEF CartInv
<1>2. UNCHANGED <<editions, catalog, branding, basket, placing>> /\ screen \in {"menu", "builder"}
      /\ screen' = "builder"
  BY DEF StartHalfHalf, PickSize, AddFlavor, RemoveFlavor
<1>3. PlacingFits'
  BY <1>1, <1>2, OrderStays DEF PlacingFits
<1>4. LinesFit'
  BY <1>1, <1>2, LineStays DEF LinesFit
<1>5. ASSUME NEW items, NEW size \in PizzaSizes, Flavors(items), Priced(items, size),
             builder' = [at |-> "open", items |-> items, size |-> size]
      PROVE  CartInv'
  <2>1. builder' \in Builders
    BY <1>5 DEF Flavors, Builders
  <2>2. builder' # Idle
    BY <2>1 DEF Builders, Idle
  <2>3. CartTypeOK'
    BY <1>1, <1>2, <2>1, <2>2 DEF CartTypeOK, Now
  <2>4. BuilderFits'
    BY <1>2, <1>5, LineStays DEF BuilderFits
  <2> QED
    BY <1>3, <1>4, <2>3, <2>4 DEF CartInv
<1>6. ASSUME NEW p \in Pizzas, NEW size \in PizzaSizes, StartHalfHalf(p, size) PROVE CartInv'
  <2>1. p \in Goods /\ Priced({Card(p)}, size) /\ builder' = [at |-> "open", items |-> {Card(p)}, size |-> size]
    BY <1>6 DEF StartHalfHalf, CardOffers, Goods
  <2> QED
    BY <1>1, <1>5, <2>1, CardFits
<1>7. screen = "builder" =>
        /\ builder \in Builders /\ builder # Idle /\ builder.size \in PizzaSizes
        /\ Flavors(builder.items) /\ Priced(builder.items, builder.size)
  BY <1>1 DEF CartTypeOK, BuilderFits, Builders
<1>8. ASSUME NEW size \in PizzaSizes, PickSize(size) PROVE CartInv'
  <2>1. builder \in Builders /\ Flavors(builder.items) /\ Priced(builder.items, size)
        /\ builder' = [builder EXCEPT !.size = size]
    BY <1>7, <1>8 DEF PickSize
  <2>2. builder' = [at |-> "open", items |-> builder.items, size |-> size]
    BY <2>1 DEF Builders
  <2> QED
    BY <1>5, <2>1, <2>2
<1>9. ASSUME NEW p \in Pizzas, AddFlavor(p) PROVE CartInv'
  <2>1. /\ builder \in Builders /\ builder.size \in PizzaSizes
        /\ Flavors(builder.items) /\ Priced(builder.items, builder.size)
        /\ builder' = [builder EXCEPT !.items = builder.items \cup {Card(p)}]
    BY <1>7, <1>9 DEF AddFlavor
  <2>2. PICK i \in builder.items : builder.items = {i}
    BY <1>9 DEF AddFlavor
  <2>3. i.id # p /\ Priced({Card(p)}, builder.size)
    BY <1>9, <2>2 DEF AddFlavor, OfferedAsSecond
  <2>4. Card(p).id = p /\ Flavors({Card(p)})
    BY <1>1, <2>1, CardFits DEF Goods
  <2> DEFINE items == builder.items \cup {Card(p)}
  <2>5. items = {i, Card(p)} /\ i.id # Card(p).id
    BY <2>2, <2>3, <2>4
  <2>6. Flavors(items)
    BY <2>1, <2>4, <2>5 DEF Flavors
  <2>7. Priced(items, builder.size)
    BY <2>1, <2>3 DEF Priced
  <2>8. builder' = [at |-> "open", items |-> items, size |-> builder.size]
    BY <2>1 DEF Builders
  <2> HIDE DEF items
  <2> QED
    BY <1>5, <2>1, <2>6, <2>7, <2>8
<1>10. ASSUME NEW p \in Pizzas, RemoveFlavor(p) PROVE CartInv'
  <2> DEFINE items == {i \in builder.items : i.id # p}
  <2>1. /\ builder \in Builders /\ builder.size \in PizzaSizes
        /\ Flavors(builder.items) /\ Priced(builder.items, builder.size)
        /\ builder' = [builder EXCEPT !.items = items]
        /\ p \in Ids(builder.items) /\ Ids(builder.items) # {p}
    BY <1>7, <1>10 DEF RemoveFlavor
  <2>2. PICK i \in items : TRUE
    BY <2>1 DEF Ids
  <2>3. items = {i}
    BY <2>1 DEF Flavors, Ids
  <2>4. Flavors(items)
    BY <2>1, <2>3 DEF Flavors
  <2>5. Priced(items, builder.size)
    BY <2>1 DEF Priced
  <2>6. builder' = [at |-> "open", items |-> items, size |-> builder.size]
    BY <2>1 DEF Builders
  <2> HIDE DEF items
  <2> QED
    BY <1>5, <2>1, <2>4, <2>5, <2>6
<1> QED
  BY <1>6, <1>8, <1>9, <1>10

\* Steps that make no line: a refresh, the screens, the lines of the cart, and the order.
LEMMA ScreenStep ==
    ASSUME CartInv,
           \/ \E c, b \in 1 .. Now : Refresh(c, b)
           \/ \E to \in {"menu", "cart", "checkout"} : Go(to)
           \/ \E l \in basket : RemoveLine(l) \/ \E q \in 1 .. MaxUnits : ChangeQuantity(l, q)
           \/ SendOrder \/ Answered
    PROVE  CartInv'
<1>1. CartTypeOK /\ LinesFit /\ BuilderFits /\ PlacingFits
  BY DEF CartInv
<1>2. UNCHANGED editions
  BY DEF Refresh, Go, RemoveLine, ChangeQuantity, SendOrder, Answered
<1>3. builder' \in {builder, Idle} /\ (screen' = "builder" => builder' = builder /\ screen' = screen)
  BY DEF Refresh, Go, RemoveLine, ChangeQuantity, SendOrder, Answered
<1>4. BuilderFits' /\ builder' \in Builders \cup {Idle} /\ (screen' = "builder" => builder' # Idle)
  BY <1>1, <1>2, <1>3, LineStays DEF BuilderFits, CartTypeOK
<1>5. ASSUME NEW l \in Lines, LineFits(l), NEW q \in 1 .. MaxUnits
      PROVE  [l EXCEPT !.quantity = q] \in Lines /\ LineFits([l EXCEPT !.quantity = q])
  <2>1. [l EXCEPT !.quantity = q] \in Lines
    BY DEF Lines
  <2>2. /\ [l EXCEPT !.quantity = q].items = l.items /\ [l EXCEPT !.quantity = q].size = l.size
        /\ [l EXCEPT !.quantity = q].price = l.price
    BY DEF Lines
  <2> QED
    BY <1>5, <2>1, <2>2 DEF LineFits
<1>6. basket' \subseteq Lines /\ LinesFit'
  <2>1. \A l \in basket' : l \in Lines /\ LineFits(l)
    <3>1. \A l \in basket : l \in Lines /\ LineFits(l)
      BY <1>1 DEF CartTypeOK, LinesFit
    <3>2. CASE UNCHANGED basket \/ \E l \in basket : RemoveLine(l)
      BY <3>1, <3>2 DEF RemoveLine
    <3>3. CASE basket' = {}
      BY <3>3
    <3>4. ASSUME NEW l \in basket, NEW q \in 1 .. MaxUnits, ChangeQuantity(l, q)
          PROVE  \A m \in basket' : m \in Lines /\ LineFits(m)
      BY <1>5, <3>1, <3>4 DEF ChangeQuantity
    <3> QED
      BY <3>2, <3>3, <3>4 DEF Refresh, Go, SendOrder, Answered
  <2> QED
    BY <1>2, <2>1, LineStays DEF LinesFit
<1>7. CartTypeOK' /\ PlacingFits'
  <2>1. CASE SendOrder
    <3>1. /\ UNCHANGED <<catalog, branding, screen, basket>> /\ screen = "checkout"
          /\ placing' = [at |-> "sent", shown |-> ShownTotal]
      BY <2>1 DEF SendOrder
    <3>2. placing'.at = "sent" /\ placing'.shown.goods = Subtotal(basket)
      BY <3>1 DEF ShownTotal
    <3>3. Subtotal(basket)' = Subtotal(basket)
      BY <3>1 DEF Subtotal
    <3>4. PlacingFits'
      BY <3>1, <3>2, <3>3 DEF PlacingFits
    <3>5. CartTypeOK'
      BY <1>1, <1>2, <1>4, <1>6, <3>1, <3>2 DEF CartTypeOK, Now
    <3> QED
      BY <3>4, <3>5
  <2>2. CASE Answered
    <3>1. placing' = Idle /\ UNCHANGED <<catalog, branding>> /\ screen' \in {screen, "menu"}
      BY <2>2 DEF Answered
    <3>2. CartTypeOK'
      BY <1>1, <1>2, <1>4, <1>6, <3>1 DEF CartTypeOK, Now, Idle
    <3>3. PlacingFits'
      BY <3>1 DEF PlacingFits, Idle
    <3> QED
      BY <3>2, <3>3
  <2>3. CASE \/ \E c, b \in 1 .. Now : Refresh(c, b)
             \/ \E to \in {"menu", "cart", "checkout"} : Go(to)
             \/ \E l \in basket : RemoveLine(l) \/ \E q \in 1 .. MaxUnits : ChangeQuantity(l, q)
    <3>1. UNCHANGED placing /\ catalog' \in 1 .. Now /\ branding' \in 1 .. Now
          /\ screen' \in {"menu", "builder", "cart", "checkout"}
      BY <1>1, <2>3 DEF Refresh, Go, RemoveLine, ChangeQuantity, CartTypeOK
    <3>2. placing.at = "idle" \/ UNCHANGED <<screen, basket>>
      BY <1>1, <2>3 DEF Refresh, Go, RemoveLine, ChangeQuantity, PlacingFits, Idle
    <3>3. PlacingFits'
      BY <1>1, <1>2, <3>1, <3>2, OrderStays
    <3>4. CartTypeOK'
      BY <1>1, <1>2, <1>4, <1>6, <3>1 DEF CartTypeOK, Now
    <3> QED
      BY <3>3, <3>4
  <2> QED
    BY <2>1, <2>2, <2>3
<1> QED
  BY <1>4, <1>6, <1>7 DEF CartInv

\* The API reads the pizzeria, then computes the order from the products of that moment.
LEMMA InsertStep == ASSUME CartInv, ReadTenant \/ InsertOrder PROVE CartInv'
<1>1. CartTypeOK /\ LinesFit /\ BuilderFits /\ PlacingFits
  BY DEF CartInv
<1>2. UNCHANGED <<editions, catalog, branding, screen, builder, basket>> /\ placing.at \in {"sent", "met"}
  BY DEF ReadTenant, InsertOrder
<1>3. LinesFit' /\ BuilderFits'
  BY <1>1, <1>2, LineStays DEF LinesFit, BuilderFits
<1>4. Now \in 1 .. Now
  BY <1>1 DEF CartTypeOK, Now
<1>5. /\ Subtotal(basket)' = Subtotal(basket)
      /\ \A t, n : OrderTotal(basket, t, n)' = OrderTotal(basket, t, n)
      /\ \A n : CanBeOrdered(basket, n)' <=> CanBeOrdered(basket, n)
  BY <1>2 DEF Subtotal, OrderTotal, CanBeOrdered, Priced, Mean, Price, Present, Ids
<1>6. ASSUME NEW at \in {"met", "refused"}, at = "refused" => ~ editions[Now].open,
             placing' = [at |-> at, shown |-> placing.shown, tenant |-> Now, edition |-> Now]
      PROVE  CartInv'
  <2>1. PlacingFits'
    BY <1>1, <1>2, <1>5, <1>6 DEF PlacingFits
  <2>2. CartTypeOK'
    BY <1>1, <1>2, <1>4, <1>6 DEF CartTypeOK, Now
  <2> QED
    BY <1>3, <2>1, <2>2 DEF CartInv
<1>7. CASE ReadTenant
  BY <1>6, <1>7 DEF ReadTenant
<1>8. CASE InsertOrder /\ CanBeOrdered(basket, Now)
  <2>1. placing' = [at |-> "placed", shown |-> placing.shown, tenant |-> placing.tenant, edition |-> Now,
                    charged |-> OrderTotal(basket, placing.tenant, Now)]
    BY <1>8 DEF InsertOrder
  <2>2. PlacingFits'
    BY <1>1, <1>2, <1>5, <1>8, <2>1 DEF PlacingFits
  <2>3. CartTypeOK'
    BY <1>1, <1>2, <1>4, <1>8, <2>1 DEF CartTypeOK, Now, InsertOrder
  <2> QED
    BY <1>3, <2>2, <2>3 DEF CartInv
<1>9. CASE InsertOrder /\ ~ CanBeOrdered(basket, Now)
  <2>1. placing' = [at |-> "refused", shown |-> placing.shown, tenant |-> placing.tenant, edition |-> Now]
    BY <1>9 DEF InsertOrder
  <2>2. PlacingFits'
    BY <1>1, <1>2, <1>5, <1>9, <2>1 DEF PlacingFits
  <2>3. CartTypeOK'
    BY <1>1, <1>2, <1>4, <1>9, <2>1 DEF CartTypeOK, Now, InsertOrder
  <2> QED
    BY <1>3, <2>2, <2>3 DEF CartInv
<1> QED
  BY <1>7, <1>8, <1>9

-----------------------------------------------------------------------------
\* What is chosen of a line is of it.
LEMMA ChosenTwo ==
    ASSUME NEW items, \E i, j \in items : items = {i, j}
    PROVE  LET a == CHOOSE x \in items : TRUE
               b == CHOOSE x \in items : items = {a, x}
           IN  a \in items /\ b \in items
<1> DEFINE a == CHOOSE x \in items : TRUE
<1>1. a \in items
  OBVIOUS
<1>2. \E x \in items : items = {a, x}
  BY <1>1
<1> QED
  BY <1>1, <1>2

\* The products of a line in some edition.
LEMMA PresentOf ==
    ASSUME NEW i, NEW j, NEW n
    PROVE  Present({i, j}, n) = {[id |-> i.id, of |-> n], [id |-> j.id, of |-> n]}
<1>1. Ids({i, j}) = {i.id, j.id}
  BY DEF Ids
<1> QED
  BY <1>1 DEF Present

\* What the owner does changes no edition that was.
LEMMA EditStep ==
    ASSUME CartInv, NEW edition \in Editions, Edit(edition)
    PROVE  CartInv'
<1>1. CartTypeOK /\ LinesFit /\ BuilderFits /\ PlacingFits
  BY DEF CartInv
<1>2. /\ editions' = Append(editions, edition)
      /\ UNCHANGED <<catalog, branding, screen, builder, basket, placing>>
  BY DEF Edit
<1>3. /\ Now \in Nat /\ Now' = Now + 1 /\ editions' \in Seq(Editions)
      /\ \A n \in 1 .. Now : editions'[n] = editions[n]
  BY <1>1, <1>2 DEF CartTypeOK, Now
<1>4. ASSUME NEW items, NEW size, \E i, j \in items : items = {i, j}, \A i \in items : i.of \in 1 .. Now
      PROVE  Mean(items, size)' = Mean(items, size) /\ (Priced(items, size)' <=> Priced(items, size))
  <2>1. \A i \in items : Price(i, size)' = Price(i, size)
    BY <1>3, <1>4 DEF Price
  <2> DEFINE a == CHOOSE x \in items : TRUE
             b == CHOOSE x \in items : items = {a, x}
  <2>2. a \in items /\ b \in items
    BY <1>4, ChosenTwo
  <2>3. /\ Mean(items, size) = (Price(a, size) + Price(b, size) + 1) \div 2
        /\ Mean(items, size)' = (Price(a, size)' + Price(b, size)' + 1) \div 2
    BY DEF Mean
  <2> HIDE DEF a, b
  <2>4. Mean(items, size)' = Mean(items, size)
    BY <2>1, <2>2, <2>3
  <2>5. Priced(items, size)' <=> Priced(items, size)
    BY <2>1 DEF Priced
  <2> QED
    BY <2>4, <2>5
<1>5. ASSUME NEW items, Flavors(items), NEW size
      PROVE  Flavors(items)' /\ Mean(items, size)' = Mean(items, size)
             /\ (Priced(items, size)' <=> Priced(items, size))
  <2>1. \A i \in items : i.of \in 1 .. Now
    BY <1>3, <1>5 DEF Flavors, Objects
  <2>2. \E i, j \in items : items = {i, j}
    BY <1>5 DEF Flavors
  <2>3. Flavors(items)'
    BY <1>3, <1>5 DEF Flavors, Objects
  <2> QED
    BY <1>4, <2>1, <2>2, <2>3
<1>6. LinesFit' /\ BuilderFits'
  <2>1. ASSUME NEW l \in basket PROVE LineFits(l)'
    BY <1>1, <1>5 DEF LinesFit, LineFits, PriceFits
  <2>2. BuilderFits'
    BY <1>1, <1>2, <1>5 DEF BuilderFits
  <2> QED
    BY <1>2, <2>1, <2>2 DEF LinesFit
<1>7. CartTypeOK'
  BY <1>1, <1>2, <1>3 DEF CartTypeOK, Now
<1>8. ASSUME NEW t \in 1 .. Now, NEW n \in 1 .. Now
      PROVE  /\ OrderTotal(basket, t, n)' = OrderTotal(basket, t, n)
             /\ CanBeOrdered(basket, n)' <=> CanBeOrdered(basket, n)
  <2>1. ASSUME NEW l \in basket
        PROVE  /\ Mean(Present(l.items, n), l.size)' = Mean(Present(l.items, n), l.size)
               /\ Priced(Present(l.items, n), l.size)' <=> Priced(Present(l.items, n), l.size)
    <3>1. PICK i, j \in l.items : l.items = {i, j}
      BY <1>1 DEF LinesFit, LineFits, Flavors
    <3> DEFINE items == {[id |-> i.id, of |-> n], [id |-> j.id, of |-> n]}
    <3>2. Present(l.items, n) = items /\ Present(l.items, n)' = items
      BY <3>1, PresentOf DEF Present, Ids
    <3>3. (\A k \in items : k.of \in 1 .. Now) /\ \E k, m \in items : items = {k, m}
      OBVIOUS
    <3> HIDE DEF items
    <3>4. Mean(items, l.size)' = Mean(items, l.size) /\ (Priced(items, l.size)' <=> Priced(items, l.size))
      BY <1>4, <3>3
    <3> QED
      BY <3>2, <3>4
  <2>2. OrderTotal(basket, t, n)' = OrderTotal(basket, t, n)
    <3>1. [l \in basket |-> Mean(Present(l.items, n), l.size) * l.quantity]'
            = [l \in basket |-> Mean(Present(l.items, n), l.size) * l.quantity]
      BY <1>2, <2>1
    <3> QED
      BY <1>3, <3>1 DEF OrderTotal
  <2>3. CanBeOrdered(basket, n)' <=> CanBeOrdered(basket, n)
    BY <1>2, <1>3, <2>1 DEF CanBeOrdered
  <2> QED
    BY <2>2, <2>3
<1>9. PlacingFits'
  <2>1. Subtotal(basket)' = Subtotal(basket)
    BY <1>2 DEF Subtotal
  <2> QED
    BY <1>1, <1>2, <1>3, <1>8, <2>1 DEF PlacingFits, CartTypeOK
<1> QED
  BY <1>6, <1>7, <1>9 DEF CartInv

LEMMA OwnerStep ==
    ASSUME CartInv,
           \/ \E p \in Goods :
                \/ \E size \in PizzaSizes, price \in PricesOf(p) \cup {NoPrice} : PriceProduct(p, size, price)
                \/ Unlist(p) \/ TakeOffMenu(p)
           \/ \E fee \in Prices : SetFee(fee)
           \/ SwitchStore
    PROVE  CartInv'
<1> DEFINE now == editions[Now]
<1>1. now \in Editions
  BY DEF CartInv, CartTypeOK, Now
<1>2. ASSUME NEW p \in Goods, NEW size \in PizzaSizes, NEW price \in PricesOf(p) \cup {NoPrice},
             PriceProduct(p, size, price)
      PROVE  CartInv'
  <2>1. [now EXCEPT !.price[p][size] = price] \in Editions
    <3>1. now.price \in [Goods -> [PizzaSizes -> Prices \cup {0, NoPrice}]]
      BY <1>1 DEF Editions
    <3>2. price \in Prices \cup {0, NoPrice}
      BY DEF PricesOf
    <3>3. [now.price EXCEPT ![p][size] = price] \in [Goods -> [PizzaSizes -> Prices \cup {0, NoPrice}]]
      BY <3>1, <3>2
    <3> QED
      BY <1>1, <3>3 DEF Editions
  <2> QED
    BY <1>2, <2>1, EditStep DEF PriceProduct
<1>3. ASSUME NEW p \in Goods, Unlist(p) PROVE CartInv'
  <2>1. [now EXCEPT !.listed = now.listed \ {p}] \in Editions
    BY <1>1 DEF Editions
  <2> QED
    BY <1>3, <2>1, EditStep DEF Unlist
<1>4. ASSUME NEW p \in Goods, TakeOffMenu(p) PROVE CartInv'
  <2>1. [now EXCEPT !.sold = now.sold \ {p}, !.listed = now.listed \ {p}] \in Editions
    BY <1>1 DEF Editions
  <2>2. Edit([now EXCEPT !.sold = now.sold \ {p}, !.listed = now.listed \ {p}])
    BY ONLY <1>4 DEF TakeOffMenu
  <2> QED
    BY <2>1, <2>2, EditStep
<1>5. ASSUME NEW fee \in Prices, SetFee(fee) PROVE CartInv'
  <2>1. [now EXCEPT !.fee = fee] \in Editions
    BY <1>1 DEF Editions
  <2> QED
    BY <1>5, <2>1, EditStep DEF SetFee
<1>6. ASSUME SwitchStore PROVE CartInv'
  <2>1. [now EXCEPT !.open = ~ now.open] \in Editions
    BY <1>1 DEF Editions
  <2> QED
    BY <1>6, <2>1, EditStep DEF SwitchStore
<1> QED
  BY <1>2, <1>3, <1>4, <1>5, <1>6

LEMMA CartStep == CartInv /\ [CartNext]_cartVars => CartInv'
<1> SUFFICES ASSUME CartInv, [CartNext]_cartVars PROVE CartInv'
  OBVIOUS
<1>1. CASE UNCHANGED cartVars
  <2>1. UNCHANGED <<editions, catalog, branding, screen, builder, basket, placing>>
    BY <1>1 DEF cartVars
  <2>2. CartTypeOK'
    BY <2>1 DEF CartInv, CartTypeOK, Now
  <2>3. LinesFit' /\ BuilderFits'
    BY <2>1, LineStays DEF CartInv, LinesFit, BuilderFits
  <2>4. PlacingFits'
    BY <2>1, OrderStays DEF CartInv
  <2> QED
    BY <2>2, <2>3, <2>4 DEF CartInv
<1>2. CASE CartNext
  BY <1>2, OwnerStep, AddStep, BuilderStep, ScreenStep, InsertStep DEF CartNext
<1> QED
  BY <1>1, <1>2

LEMMA CartAlways == CartSpec => []CartInv
BY CartInitial, CartStep, PTL DEF CartSpec

\* A line whose products cost what they did costs what it did.
LEMMA SamePrice ==
    ASSUME CartInv, NEW n \in 1 .. Now, PricesStood(n), NEW l \in basket
    PROVE  /\ Priced(l.items, l.size) => Mean(Present(l.items, n), l.size) = l.price
           /\ Priced(Present(l.items, n), l.size) <=> Priced(l.items, l.size)
<1>1. CartTypeOK /\ LineFits(l) /\ Flavors(l.items) /\ l.size \in PizzaSizes
  BY DEF CartInv, LinesFit, LineFits
<1>2. PICK i, j \in l.items : l.items = {i, j}
  BY <1>1 DEF Flavors
<1>3. i \in Objects /\ i.of <= Now /\ j \in Objects /\ j.of <= Now
  BY <1>1, <1>2 DEF Flavors
<1> DEFINE x == [id |-> i.id, of |-> n]
           y == [id |-> j.id, of |-> n]
<1>4. [i EXCEPT !.of = n] = x /\ [j EXCEPT !.of = n] = y
  BY <1>3 DEF Objects
<1>5. Price(x, l.size) = Price(i, l.size) /\ Price(y, l.size) = Price(j, l.size)
  BY <1>2, <1>4 DEF PricesStood
<1>6. Price(i, l.size) \in Int /\ Price(j, l.size) \in Int
  BY <1>1, <1>3, PriceType
<1>7. Present(l.items, n) = {x, y}
  BY <1>2, PresentOf
<1> HIDE DEF x, y
<1>8. Mean({x, y}, l.size) = (Price(x, l.size) + Price(y, l.size) + 1) \div 2
  BY <1>5, <1>6, MeanOf
<1>9. Mean(l.items, l.size) = (Price(i, l.size) + Price(j, l.size) + 1) \div 2
  BY <1>2, <1>6, MeanOf
<1>10. Priced({x, y}, l.size) <=> Priced(l.items, l.size)
  BY <1>2, <1>5 DEF Priced
<1> QED
  BY <1>1, <1>5, <1>7, <1>8, <1>9, <1>10 DEF LineFits, PriceFits

\* The order is charged what the screen said, as long as the prices are those of the cart, and
\* refused for no other reason than the three (ChargedAsShown).
THEOREM PaysWhatHeSaw == CartSpec => []ChargedAsShown
<1>1. ASSUME CartInv, placing.at \in {"placed", "refused"}, PricesStood(placing.edition)
      PROVE  IF placing.at = "placed"
             THEN placing.charged.goods = placing.shown.goods
                  /\ placing.charged.fee = editions[placing.tenant].fee
             ELSE \/ ~editions[placing.tenant].open
                  \/ \E l \in basket :
                        \/ ~(Ids(l.items) \subseteq editions[placing.edition].sold)
                        \/ Ids(l.items) \subseteq Drinks /\ ~Priced(l.items, l.size)
  <2> PICK n \in 1 .. Now : n = placing.edition
    BY <1>1 DEF CartInv, CartTypeOK
  <2>1. PricesStood(n) /\ CartTypeOK /\ PlacingFits /\ LinesFit
    BY <1>1 DEF CartInv
  <2>2. CASE placing.at = "placed"
    <3>1. placing.charged = OrderTotal(basket, placing.tenant, n) /\ placing.shown.goods = Subtotal(basket)
      BY <2>1, <2>2 DEF PlacingFits
    <3>2. CanBeOrdered(basket, n)
      BY <2>1, <2>2 DEF PlacingFits
    <3>3. [l \in basket |-> Mean(Present(l.items, n), l.size) * l.quantity]
            = [l \in basket |-> l.price * l.quantity]
      BY <1>1, <2>1, <3>2, SamePrice DEF CanBeOrdered
    <3>4. placing.charged.goods = placing.shown.goods
      BY <3>1, <3>3 DEF OrderTotal, Subtotal
    <3> QED
      BY <2>2, <3>1, <3>4 DEF OrderTotal
  <2>3. CASE placing.at = "refused"
    <3>1. ~ editions[placing.tenant].open \/ ~ CanBeOrdered(basket, n)
      BY <2>1, <2>3 DEF PlacingFits
    <3>2. ASSUME ~ CanBeOrdered(basket, n), \A l \in basket : Ids(l.items) \subseteq editions[n].sold
          PROVE  \E l \in basket : Ids(l.items) \subseteq Drinks /\ ~Priced(l.items, l.size)
      <4>1. PICK l \in basket : ~ Priced(Present(l.items, n), l.size)
        BY <3>2 DEF CanBeOrdered
      <4>2. ~ Priced(l.items, l.size) /\ LineFits(l)
        BY <1>1, <2>1, <4>1, SamePrice DEF LinesFit
      <4>3. PICK i \in l.items : l.items = {i} /\ i.id \in Drinks
        BY <4>2 DEF LineFits, PriceFits
      <4> QED
        BY <4>2, <4>3 DEF Ids
    <3> QED
      BY <2>3, <3>1, <3>2
  <2> QED
    BY <1>1, <2>2, <2>3
<1>2. CartInv => ChargedAsShown
  BY <1>1 DEF ChargedAsShown
<1> QED
  BY <1>2, CartAlways, PTL

-----------------------------------------------------------------------------
(* The three side by side. *)

\* Each of the three behaves as it does alone.
LEMMA MenusAreThree ==
    MenusSpec => /\ MenuInit /\ [][MenuNext]_menuVars
                 /\ CatalogInit /\ [][CatalogNext]_catalogVars
                 /\ CartInit /\ [][CartNext]_cartVars
<1>1. MenusInit => MenuInit /\ CatalogInit /\ CartInit
  BY DEF MenusInit
<1>2. [MenusNext]_allVars => [MenuNext]_menuVars /\ [CatalogNext]_catalogVars /\ [CartNext]_cartVars
  BY DEF MenusNext, allVars
<1> QED
  BY <1>1, <1>2, PTL DEF MenusSpec

\* Forms, calls, rows, pages, editions and carts have their types (MenusTypeOK).
THEOREM MenusTypes == MenusSpec => []MenusTypeOK
<1>1. FitInv => MenuTypeOK
  BY DEF FitInv
<1>2. CatalogInv => CatalogTypeOK
  BY DEF CatalogInv
<1>3. CartInv => CartTypeOK
  BY DEF CartInv
<1>4. MenuTypeOK /\ CatalogTypeOK /\ CartTypeOK => MenusTypeOK
  BY DEF MenusTypeOK
<1> QED
  BY <1>1, <1>2, <1>3, <1>4, MenusAreThree, FitAlways, CatalogAlways, CartAlways, PTL
     DEF MenuSpec, CatalogSpec, CartSpec

=============================================================================
