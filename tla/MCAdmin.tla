------------------------------- MODULE MCAdmin -------------------------------
(***************************************************************************)
(* Instances for TLC of the screens of the administrator's app.  The       *)
(* screens that are not mounted stay in one initial state, so TLC visits   *)
(* the sum of the four.                                                    *)
(***************************************************************************)
EXTENDS Admin

CONSTANTS t1, t2, pro, trial, k1, k2, s1, s2, e1, e2, x, y, staff, customers

MCPlanList == <<pro, trial>>
MCUserPages == [s \in {t1, t2} |-> [r \in {staff, customers} |-> IF s = t1 THEN 2 ELSE 1]]

ListAtRest == CHOOSE s \in SetToSeqs(Tenants) : TRUE

MCInit ==
    /\ AdminInit
    /\ mounted = "list" \/ (created[FALSE] = ListAtRest /\ active = [t \in Tenants |-> TRUE])
    /\ mounted = "form" \/ existing = {}
    /\ mounted = "plans" \/ planRows = [c \in Codes |-> NoPlan]

MCSpec == MCInit /\ [][AdminNext]_adminVars

\* PATCHes of the list, and submissions of the form, are alike.
CallSymmetry == Permutations({k1, k2}) \cup Permutations({s1, s2})

=============================================================================
