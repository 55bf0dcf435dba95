-------------------------------- MODULE Catalog --------------------------------
(***************************************************************************)
(* Products and categories of one pizzeria in the API, and the catalog its *)
(* public page is served.                                                  *)
(*                                                                         *)
(* A POST or a PATCH of a product looks before it writes, in a transaction *)
(* at READ COMMITTED: what it saw may be past when it writes.  The foreign *)
(* key holds at the write; "at least one price" is only looked at.  The    *)
(* public catalog is two reads, categories first, kept for a minute and    *)
(* never deleted.  The data left out (names, images, availability, the     *)
(* price of what is not a pizza) no rule of these looks at.                *)
(***************************************************************************)
EXTENDS FiniteSets, TLC

CONSTANTS
    Products,
    CategoryKeys,
    Sizes,
    Writes,     \* slots: POSTs and PATCHes between their look and their write
    Nothing

VARIABLES
    stored,     \* the row of each product, or Nothing
    sections,   \* the categories
    writes,
    page,       \* the catalog in the cache, or Nothing
    reading,    \* the GET that missed: what it read of the categories, or Nothing
    torn        \* history: products written over a row that nobody had looked at

catalogVars == <<stored, sections, writes, page, reading, torn>>

Kinds == {"pizza", "drink"}

\* A column of a PATCH: left alone, given a price, or null.
Said == {"kept", "priced", "null"}

\* The columns of a body that the rules look at.
Body == [type : Kinds \cup {Nothing}, prices : [Sizes -> Said], category : CategoryKeys \cup {Nothing}]

Row == [type : Kinds, prices : SUBSET Sizes, category : CategoryKeys]

\* A POST or a PATCH between its look and its write; what a GET has read, and has made.
Pending == [id : Products, dto : Body, new : BOOLEAN, past : BOOLEAN]
Reading == [categories : SUBSET CategoryKeys, crossed : BOOLEAN]
Page == [categories : SUBSET CategoryKeys, crossed : BOOLEAN, used : SUBSET CategoryKeys]

ASSUME NothingAssumption ==
    Nothing \notin CategoryKeys \cup Kinds \cup Row \cup Pending \cup Reading \cup Page

Known(p) == stored[p] # Nothing

\* data: { ...dto }: what is not said stays.
Update(row, dto) ==
    [type |-> IF dto.type = Nothing THEN row.type ELSE dto.type,
     prices |-> {s \in Sizes : dto.prices[s] = "priced"}
                    \cup {s \in row.prices : dto.prices[s] = "kept"},
     category |-> IF dto.category = Nothing THEN row.category ELSE dto.category]

\* Mutant of SellsASize: the type of the body alone decides whether to look.
SellsASizeIfSaid(row, dto) ==
    dto.type = "pizza" => Update(row, dto).prices # {}

\* assertPizzaHasAtLeastOnePrice, of what the row would be.
SellsASize(row, dto) ==
    Update(row, dto).type = "pizza" => Update(row, dto).prices # {}

CatalogInit ==
    /\ stored = [p \in Products |-> Nothing]
    /\ sections = {}
    /\ writes = [k \in Writes |-> Nothing]
    /\ page = Nothing
    /\ reading = Nothing
    /\ torn = {}

-----------------------------------------------------------------------------
\* The row a POST writes where its body says nothing: a pizza.
Column(category) == [type |-> "pizza", prices |-> {}, category |-> category]

\* create, up to the insert.  A null price and one left out are the same here.
LookAndCreate(k, p, dto) ==
    /\ writes[k] = Nothing
    /\ ~Known(p) /\ \A q \in Writes : writes[q] # Nothing => writes[q].id # p
    /\ dto.category \in sections
    /\ \A s \in Sizes : dto.prices[s] # "kept"
    /\ SellsASize(Column(dto.category), dto)
    /\ writes' = [writes EXCEPT ![k] = [id |-> p, dto |-> dto, new |-> TRUE, past |-> FALSE]]
    /\ UNCHANGED <<stored, sections, page, reading, torn>>

\* update, up to the write.
LookAndUpdate(k, p, dto) ==
    /\ writes[k] = Nothing
    /\ Known(p)
    /\ dto.category \in sections \cup {Nothing}
    /\ SellsASize(stored[p], dto)
    /\ writes' = [writes EXCEPT ![k] = [id |-> p, dto |-> dto, new |-> FALSE, past |-> FALSE]]
    /\ UNCHANGED <<stored, sections, page, reading, torn>>

\* The category is gone (P2003), or the product is.
Refused(k) ==
    LET w == writes[k] IN
    \/ w.dto.category \notin sections \cup {Nothing}
    \/ ~w.new /\ ~Known(w.id)

\* Whoever has looked at the row of p and has yet to write has looked at the past.
Overtake(p, slots) ==
    [q \in Writes |-> IF q \in slots /\ writes[q] # Nothing /\ writes[q].id = p
                      THEN [writes[q] EXCEPT !.past = TRUE] ELSE writes[q]]

\* The insert or the update and the commit, or its refusal.
Save(k) ==
    LET w == writes[k]
        row == Update(IF w.new THEN Column(w.dto.category) ELSE stored[w.id], w.dto) IN
    /\ w # Nothing
    /\ IF Refused(k)
       THEN /\ writes' = [writes EXCEPT ![k] = Nothing]
            /\ UNCHANGED <<stored, torn>>
       ELSE /\ stored' = [stored EXCEPT ![w.id] = row]
            /\ torn' = IF w.past THEN torn \cup {w.id} ELSE torn \ {w.id}
            /\ writes' = [Overtake(w.id, IF stored[w.id] = row THEN {} ELSE Writes \ {k})
                            EXCEPT ![k] = Nothing]
    /\ UNCHANGED <<sections, page, reading>>

\* remove: its look decides only between a 404 and a 500.
RemoveProduct(p) ==
    /\ Known(p)
    /\ stored' = [stored EXCEPT ![p] = Nothing]
    /\ writes' = Overtake(p, Writes)
    /\ torn' = torn \ {p}
    /\ UNCHANGED <<sections, page, reading>>

AddCategory(c) ==
    /\ c \notin sections
    /\ sections' = sections \cup {c}
    /\ reading' = IF reading = Nothing THEN Nothing ELSE [reading EXCEPT !.crossed = TRUE]
    /\ UNCHANGED <<stored, writes, page, torn>>

\* The foreign key from products: "Categoria tem produtos vinculados".
Linked(c) == \E p \in Products : Known(p) /\ stored[p].category = c

RemoveCategory(c) ==
    /\ c \in sections
    /\ ~Linked(c)
    /\ sections' = sections \ {c}
    /\ UNCHANGED <<stored, writes, page, reading, torn>>

-----------------------------------------------------------------------------
\* findCatalog: a hit changes nothing.
ReadCategories ==
    /\ page = Nothing /\ reading = Nothing
    /\ reading' = [categories |-> sections, crossed |-> FALSE]
    /\ UNCHANGED <<stored, sections, writes, page, torn>>

ReadProducts ==
    /\ reading # Nothing
    /\ page' = [categories |-> reading.categories, crossed |-> reading.crossed,
                used |-> {stored[p].category : p \in {q \in Products : Known(q)}}]
    /\ reading' = Nothing
    /\ UNCHANGED <<stored, sections, writes, torn>>

\* CATALOG_CACHE_TTL_SECONDS are over.
PageExpires ==
    /\ page # Nothing
    /\ page' = Nothing
    /\ UNCHANGED <<stored, sections, writes, reading, torn>>

CatalogNext ==
    \/ \E k \in Writes :
        \/ \E p \in Products, dto \in Body : LookAndCreate(k, p, dto) \/ LookAndUpdate(k, p, dto)
        \/ Save(k)
    \/ \E p \in Products : RemoveProduct(p)
    \/ \E c \in CategoryKeys : AddCategory(c) \/ RemoveCategory(c)
    \/ ReadCategories \/ ReadProducts \/ PageExpires

CatalogSpec == CatalogInit /\ [][CatalogNext]_catalogVars

-----------------------------------------------------------------------------
CatalogTypeOK ==
    /\ stored \in [Products -> Row \cup {Nothing}]
    /\ sections \subseteq CategoryKeys
    /\ writes \in [Writes -> Pending \cup {Nothing}]
    /\ page \in Page \cup {Nothing}
    /\ reading \in Reading \cup {Nothing}
    /\ torn \subseteq Products

\* What is sold can be ordered: a pizza has a price in some size, unless two PATCHes of
\* it crossed ("Pizza sem nenhum tamanho precificado nunca poderia ser pedida"), and a
\* product of the public page stands under a category of the page, unless a category was
\* created between its two reads.
MenuCanBeOrdered ==
    /\ \A p \in Products \ torn : Known(p) /\ stored[p].type = "pizza" => stored[p].prices # {}
    /\ page # Nothing => page.crossed \/ page.used \subseteq page.categories

=============================================================================
