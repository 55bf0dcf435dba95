------------------------------ MODULE ProductForm ------------------------------
(***************************************************************************)
(* The menu of the pizzeria's panel: the copy of the products and of the   *)
(* categories that App.tsx loads once, the list over it (MenuManagement),  *)
(* the form of one product (ProductForm) and the API that keeps them.      *)
(*                                                                         *)
(* Three calls of the form outlive the render that made them: the upload   *)
(* of an image, the creation of a category and the submission.  The first  *)
(* two answer with updateField, which writes the whole form as it was when *)
(* the call was made, with one field changed.                              *)
(*                                                                         *)
(* "drink" stands for drinks and desserts; content for all that the user   *)
(* types, Absent while something that validate() asks for is missing; of   *)
(* the image the form knows whether there is one.  Catalog has the prices. *)
(***************************************************************************)
EXTENDS Naturals

CONSTANTS
    ProductIds,
    CategoryIds,
    Contents,
    Calls,      \* slots: calls of this tab under way
    Absent

VARIABLES
    products,   \* products (Absent: no row)
    categories, \* categories, with their type
    shown,      \* App's pizzas
    offered,    \* App's categories
    productForm,
    calls,
    outdated    \* history: products of which the list may tell the past

serverRows == <<products, categories>>
menuVars == <<serverRows, shown, offered, productForm, calls, outdated>>

Types == {"pizza", "drink"}
ProductRows == [type : Types, content : Contents, category : CategoryIds]

ASSUME AbsentAssumption ==
    Absent \notin ProductIds \cup CategoryIds \cup Contents \cup Types \cup ProductRows

FormData == [type : Types, content : Contents \cup {Absent}, category : CategoryIds \cup {Absent},
             image : BOOLEAN]
OpenForms == [open : {TRUE}, product : ProductIds \cup {Absent}, data : FormData,
              uploading : BOOLEAN, submitting : BOOLEAN]
Closed == [open |-> FALSE]

\* A call, with the form it was made from; category is what the creation of one answers.
Stages == {"sent", "applied"}
FormCalls ==
    [at : Stages, kind : {"upload"}, live : BOOLEAN, data : FormData] \cup
    [at : Stages, kind : {"category"}, live : BOOLEAN, data : FormData, category : CategoryIds \cup {Absent}]
RowCalls ==
    [at : Stages, kind : {"save"}, live : BOOLEAN, data : FormData, product : ProductIds \cup {Absent},
     new : BOOLEAN] \cup
    [at : Stages, kind : {"delete"}, live : BOOLEAN, product : ProductIds]
NoCall == [at |-> "idle"]

CategoriesOf(type) == {c \in offered : categories[c] = type}

\* categories.find: one of the type, if there is one.
Defaults(type) == IF CategoriesOf(type) = {} THEN {Absent} ELSE CategoriesOf(type)

Empty(type, category) ==
    [type |-> type, content |-> Absent, category |-> category, image |-> FALSE]

MenuInit ==
    /\ categories \in [CategoryIds -> Types \cup {Absent}]
    /\ products \in [ProductIds -> ProductRows \cup {Absent}]
    /\ \A p \in ProductIds : products[p] # Absent => products[p].type = categories[products[p].category]
    /\ shown = products
    /\ offered = {c \in CategoryIds : categories[c] # Absent}
    /\ productForm = Closed
    /\ calls = [k \in Calls |-> NoCall]
    /\ outdated = {}

-----------------------------------------------------------------------------
Open(product, data) ==
    [open |-> TRUE, product |-> product, data |-> data, uploading |-> FALSE, submitting |-> FALSE]

\* onEditProduct of a card of the list.
OpenProduct(p) ==
    /\ ~productForm.open
    /\ shown[p] # Absent
    /\ \E image \in BOOLEAN :
            productForm' = Open(p, [type |-> shown[p].type, content |-> shown[p].content,
                                    category |-> shown[p].category, image |-> image])
    /\ UNCHANGED <<serverRows, shown, offered, calls, outdated>>

\* onNewProduct.
OpenNew ==
    /\ ~productForm.open
    /\ \E c \in Defaults("pizza") : productForm' = Open(Absent, Empty("pizza", c))
    /\ UNCHANGED <<serverRows, shown, offered, calls, outdated>>

\* What the calls of a form that is unmounted still do, they do to App: an upload nothing.
Orphans == [k \in Calls |-> IF calls[k] = NoCall \/ calls[k].kind = "upload" THEN NoCall
                            ELSE [calls[k] EXCEPT !.live = FALSE]]

\* Mutant of LeaveForm: its calls go on answering to a form.
LeaveFormAlone ==
    /\ productForm.open
    /\ productForm' = Closed
    /\ UNCHANGED <<serverRows, shown, offered, calls, outdated>>

\* onBack, and the sidebar.
LeaveForm ==
    /\ productForm.open
    /\ productForm' = Closed
    /\ calls' = Orphans
    /\ UNCHANGED <<serverRows, shown, offered, outdated>>

\* updateField from the render the user is looking at.
Fill(data) ==
    /\ productForm.open
    /\ productForm' = [productForm EXCEPT !.data = data]
    /\ UNCHANGED <<serverRows, shown, offered, calls, outdated>>

Type(content) == productForm.open /\ Fill([productForm.data EXCEPT !.content = content])
SelectCategory(c) ==
    /\ productForm.open
    /\ c \in CategoriesOf(productForm.data.type)
    /\ Fill([productForm.data EXCEPT !.category = c])
ToggleImage == productForm.open /\ Fill([productForm.data EXCEPT !.image = ~@])

\* handleTabChange, offered on a new product only: everything is emptied.
ChangeTab(type) ==
    /\ productForm.open /\ productForm.product = Absent
    /\ \E c \in Defaults(type) : Fill(Empty(type, c))

-----------------------------------------------------------------------------
Call(k, call) == calls[k] = NoCall /\ calls' = [calls EXCEPT ![k] = call]

\* handleFileSelect: the closure keeps the form of this render.
Upload(k) ==
    /\ productForm.open /\ ~productForm.uploading /\ ~productForm.data.image
    /\ Call(k, [at |-> "sent", kind |-> "upload", live |-> TRUE, data |-> productForm.data])
    /\ productForm' = [productForm EXCEPT !.uploading = TRUE]
    /\ UNCHANGED <<serverRows, shown, offered, outdated>>

\* handleConfirmNewCategory: a category of the type of this render.
NewCategory(k) ==
    /\ productForm.open
    /\ Call(k, [at |-> "sent", kind |-> "category", live |-> TRUE, data |-> productForm.data,
                category |-> Absent])
    /\ UNCHANGED <<serverRows, shown, offered, productForm, outdated>>

\* validate, and handleSaveProduct on the product that is selected now.
Submit(k) ==
    /\ productForm.open /\ ~productForm.submitting
    /\ productForm.data.content # Absent
    /\ productForm.data.category # Absent
    /\ Call(k, [at |-> "sent", kind |-> "save", live |-> TRUE, data |-> productForm.data,
                product |-> productForm.product, new |-> productForm.product = Absent])
    /\ productForm' = [productForm EXCEPT !.submitting = TRUE]
    /\ UNCHANGED <<serverRows, shown, offered, outdated>>

\* onDeleteProduct of a card: no question and nothing disabled.
Remove(k, p) ==
    /\ ~productForm.open
    /\ shown[p] # Absent
    /\ Call(k, [at |-> "sent", kind |-> "delete", live |-> FALSE, product |-> p])
    /\ UNCHANGED <<serverRows, shown, offered, productForm, outdated>>

-----------------------------------------------------------------------------
RowOf(data) == [type |-> data.type, content |-> data.content, category |-> data.category]

Applied(k) == calls' = [calls EXCEPT ![k].at = "applied"]

StoreImage(k) ==
    /\ calls[k].at = "sent" /\ calls[k].kind = "upload"
    /\ Applied(k)
    /\ UNCHANGED <<serverRows, shown, offered, productForm, outdated>>

CreateCategory(k, c) ==
    /\ calls[k].at = "sent" /\ calls[k].kind = "category"
    /\ categories[c] = Absent
    /\ categories' = [categories EXCEPT ![c] = calls[k].data.type]
    /\ calls' = [calls EXCEPT ![k].at = "applied", ![k].category = c]
    /\ UNCHANGED <<products, shown, offered, productForm, outdated>>

\* An id that nothing refers to stands for one never used.
Fresh(p) ==
    /\ products[p] = Absent /\ shown[p] = Absent
    /\ productForm.open => productForm.product # p
    /\ \A k \in Calls : calls[k] # NoCall /\ calls[k].kind \in {"save", "delete"} => calls[k].product # p

\* ProductsService.create.
CreateProduct(k, p) ==
    /\ calls[k].at = "sent" /\ calls[k].kind = "save" /\ calls[k].product = Absent
    /\ Fresh(p)
    /\ products' = [products EXCEPT ![p] = RowOf(calls[k].data)]
    /\ calls' = [calls EXCEPT ![k].at = "applied", ![k].product = p]
    /\ UNCHANGED <<categories, shown, offered, productForm, outdated>>

\* ProductsService.update: a product that is gone is refused (CallFails).
UpdateProduct(k) ==
    LET p == calls[k].product IN
    /\ calls[k].at = "sent" /\ calls[k].kind = "save" /\ p # Absent
    /\ products[p] # Absent
    /\ products' = [products EXCEPT ![p] = RowOf(calls[k].data)]
    /\ Applied(k)
    /\ UNCHANGED <<categories, shown, offered, productForm, outdated>>

DeleteProduct(k) ==
    LET p == calls[k].product IN
    /\ calls[k].at = "sent" /\ calls[k].kind = "delete"
    /\ products[p] # Absent
    /\ products' = [products EXCEPT ![p] = Absent]
    /\ Applied(k)
    /\ UNCHANGED <<categories, shown, offered, productForm, outdated>>

\* Another panel of the pizzeria, which keeps the rules of this one.
OtherPanel(p, row) ==
    /\ products[p] # Absent
    /\ row # Absent => row.category # Absent /\ categories[row.category] = row.type
                                          /\ row.type = products[p].type
    /\ products' = [products EXCEPT ![p] = row]
    /\ outdated' = outdated \cup {p}
    /\ UNCHANGED <<categories, shown, offered, productForm, calls>>

-----------------------------------------------------------------------------
Over(k) == [calls EXCEPT ![k] = NoCall]

ImageStored(k) ==
    /\ calls[k].at = "applied" /\ calls[k].kind = "upload"
    /\ productForm' = [productForm EXCEPT !.data = [calls[k].data EXCEPT !.image = TRUE],
                                          !.uploading = FALSE]
    /\ calls' = Over(k)
    /\ UNCHANGED <<serverRows, shown, offered, outdated>>

\* Mutant of CategoryCreated: the field alone is set in the form as it is by now.
CategoryCreatedAlone(k) ==
    /\ calls[k].at = "applied" /\ calls[k].kind = "category"
    /\ offered' = offered \cup {calls[k].category}
    /\ productForm' = IF calls[k].live
                      THEN [productForm EXCEPT !.data.category = calls[k].category] ELSE productForm
    /\ calls' = Over(k)
    /\ UNCHANGED <<serverRows, shown, outdated>>

CategoryCreated(k) ==
    /\ calls[k].at = "applied" /\ calls[k].kind = "category"
    /\ offered' = offered \cup {calls[k].category}
    /\ productForm' = IF calls[k].live
                      THEN [productForm EXCEPT !.data = [calls[k].data EXCEPT !.category = calls[k].category]]
                      ELSE productForm
    /\ calls' = Over(k)
    /\ UNCHANGED <<serverRows, shown, outdated>>

\* What the list takes for p, against what the server has; one that is gone does
\* not come back with a late answer.
Judge(p, row) ==
    IF products[p] = Absent /\ row # Absent THEN outdated
    ELSE IF row = products[p] THEN outdated \ {p} ELSE outdated \cup {p}

\* Mutant of Saved: an answer puts its product on the list, there or not.
SavedThereOrNot(k) ==
    LET p == calls[k].product IN
    /\ calls[k].at = "applied" /\ calls[k].kind = "save"
    /\ shown' = [shown EXCEPT ![p] = RowOf(calls[k].data)]
    /\ outdated' = Judge(p, RowOf(calls[k].data))
    /\ productForm' = Closed
    /\ calls' = [Orphans EXCEPT ![k] = NoCall]
    /\ UNCHANGED <<serverRows, offered>>

\* The list takes the answer, if it still has the product or the product is new;
\* the panel goes to the list, from whatever form is open by now.
Saved(k) ==
    LET p == calls[k].product IN
    /\ calls[k].at = "applied" /\ calls[k].kind = "save"
    /\ shown' = IF calls[k].new \/ shown[p] # Absent
                THEN [shown EXCEPT ![p] = RowOf(calls[k].data)] ELSE shown
    /\ outdated' = Judge(p, RowOf(calls[k].data))
    /\ productForm' = Closed
    /\ calls' = [Orphans EXCEPT ![k] = NoCall]
    /\ UNCHANGED <<serverRows, offered>>

Removed(k) ==
    LET p == calls[k].product IN
    /\ calls[k].at = "applied" /\ calls[k].kind = "delete"
    /\ shown' = [shown EXCEPT ![p] = Absent]
    /\ outdated' = Judge(p, Absent)
    /\ calls' = Over(k)
    /\ UNCHANGED <<serverRows, offered, productForm>>

\* The call is refused, or its answer is lost once it did its work.
CallFails(k) ==
    LET call == calls[k] IN
    /\ call # NoCall
    /\ productForm' =
            IF call.live /\ call.kind = "upload" THEN [productForm EXCEPT !.uploading = FALSE]
            ELSE IF call.live /\ call.kind = "save" THEN [productForm EXCEPT !.submitting = FALSE]
            ELSE productForm
    /\ outdated' = IF call.at = "applied" /\ call.kind \in {"save", "delete"}
                   THEN outdated \cup {call.product} ELSE outdated
    /\ calls' = Over(k)
    /\ UNCHANGED <<serverRows, shown, offered>>

MenuNext ==
    \/ OpenNew \/ LeaveForm \/ ToggleImage
    \/ \E p \in ProductIds : OpenProduct(p) \/ \E row \in ProductRows \cup {Absent} : OtherPanel(p, row)
    \/ \E x \in Contents \cup {Absent} : Type(x)
    \/ \E c \in CategoryIds : SelectCategory(c)
    \/ \E type \in Types : ChangeTab(type)
    \/ \E k \in Calls :
        \/ Upload(k) \/ NewCategory(k) \/ Submit(k) \/ StoreImage(k) \/ UpdateProduct(k) \/ DeleteProduct(k)
        \/ ImageStored(k) \/ CategoryCreated(k) \/ Saved(k) \/ Removed(k) \/ CallFails(k)
        \/ \E p \in ProductIds : Remove(k, p) \/ CreateProduct(k, p)
        \/ \E c \in CategoryIds : CreateCategory(k, c)

MenuSpec == MenuInit /\ [][MenuNext]_menuVars

-----------------------------------------------------------------------------
MenuTypeOK ==
    /\ products \in [ProductIds -> ProductRows \cup {Absent}]
    /\ categories \in [CategoryIds -> Types \cup {Absent}]
    /\ shown \in [ProductIds -> ProductRows \cup {Absent}]
    /\ offered \subseteq {c \in CategoryIds : categories[c] # Absent}
    /\ productForm \in OpenForms \cup {Closed}
    /\ calls \in [Calls -> FormCalls \cup RowCalls \cup {NoCall}]
    /\ \A k \in Calls : calls[k] # NoCall /\ calls[k].live => productForm.open
    /\ outdated \subseteq ProductIds

\* "categoria de pizza nao pode aparecer misturada com categoria de bebida": however
\* tabs are changed between the click that uploads an image or creates a category and
\* its answer, what the form holds and what the server stores is of a category of its
\* own type (the API does not look).
CategoriesFitTheirType ==
    /\ productForm.open /\ productForm.data.category # Absent =>
            categories[productForm.data.category] = productForm.data.type
    /\ \A p \in ProductIds : products[p] # Absent =>
            categories[products[p].category] = products[p].type

\* Submissions and deletions whose answers cross: with none under way the list is the
\* server's, but for products another panel wrote or of which an answer was lost or
\* overtaken; what was deleted does not come back.
MenuSettles ==
    (\A k \in Calls : calls[k] # NoCall => calls[k].kind \notin {"save", "delete"}) =>
        \A p \in ProductIds \ outdated : shown[p] = products[p]

=============================================================================
