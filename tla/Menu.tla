--------------------------------- MODULE Menu ---------------------------------
(***************************************************************************)
(* The menu: the form and the list of the panel (ProductForm), the rules   *)
(* of the API over it (Catalog), and the cart of the customer who orders   *)
(* from it (CartPrices).  The form never breaks a rule on prices and says  *)
(* nothing of them, and the cart minds only what the API holds in the end, *)
(* so the three share no state and stand side by side: a behaviour is of   *)
(* one of them.                                                            *)
(***************************************************************************)
EXTENDS ProductForm, Catalog, CartPrices

VARIABLE mounted

allVars == <<menuVars, catalogVars, cartVars, mounted>>

MenusInit == mounted \in {"form", "catalog", "cart"} /\ MenuInit /\ CatalogInit /\ CartInit

MenusNext ==
    /\ UNCHANGED mounted
    /\ \/ mounted = "form" /\ MenuNext /\ UNCHANGED <<catalogVars, cartVars>>
       \/ mounted = "catalog" /\ CatalogNext /\ UNCHANGED <<menuVars, cartVars>>
       \/ mounted = "cart" /\ CartNext /\ UNCHANGED <<menuVars, catalogVars>>

MenusSpec == MenusInit /\ [][MenusNext]_allVars

\* The types of the three.
MenusTypeOK == MenuTypeOK /\ CatalogTypeOK /\ CartTypeOK

=============================================================================
