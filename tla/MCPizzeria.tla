------------------------------ MODULE MCPizzeria ------------------------------
(***************************************************************************)
(* Instances of a pizzeria's other parts for TLC.  The parts that do not   *)
(* move rest in one initial state, so TLC visits the sum of the six.       *)
(***************************************************************************)
EXTENDS Pizzeria

CONSTANTS k1, k2, i1, m1, g, e1, r1, t1, t2

MCInit ==
    /\ PizzeriaInit
    /\ mounted = "stock" \/ quantity = [i \in Items |-> Gone]
    /\ mounted = "team" \/ (~planHas /\ staff = NobodyListed)
    /\ mounted = "finance" \/ (expenses = NoneListed /\ choices = <<7>>)
    /\ mounted = "store" \/ isOpen

MCSpec == MCInit /\ [][PizzeriaNext]_pizzeriaVars

\* Calls, PATCHes and runs of one part are alike.
CallSymmetry == Permutations({k1, k2})

=============================================================================
