-------------------------------- MODULE MCMenu --------------------------------
(***************************************************************************)
(* Instances of the menu for TLC.                                          *)
(***************************************************************************)
EXTENDS Menu

CONSTANTS k1, k2, a, b, c1, p1, x, d

\* The cart starts from a menu of one price: what matters is what the owner makes of it.
OnePrice == editions[1].fee = 1 /\ \A p \in Goods, size \in PizzaSizes : editions[1].price[p][size] = 1

MCInit == MenusInit /\ OnePrice /\ (mounted = "form" \/ categories = [c \in CategoryIds |-> Absent])

MCSpec == MCInit /\ [][MenusNext]_allVars

\* Calls and writes are alike; a and b are two categories of the form, two sizes of the catalog
\* or two pizzas of the cart.
MCSymmetry == Permutations({k1, k2}) \cup Permutations({a, b})

=============================================================================
