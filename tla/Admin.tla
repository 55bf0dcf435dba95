-------------------------------- MODULE Admin --------------------------------
(***************************************************************************)
(* The screens of the administrator's app: the list of the pizzerias, the  *)
(* form of one, the plans, and the sales.  As modelled they share no state *)
(* and stand side by side: a behaviour is of one of them.                  *)
(***************************************************************************)
EXTENDS TenantList, TenantForm, PlansScreen, TenantSales

VARIABLE mounted

adminVars == <<listVars, formVars, plansVars, salesVars, mounted>>

AdminInit ==
    /\ mounted \in {"list", "form", "plans", "sales"}
    /\ ListInit /\ FormInit /\ PlansInit /\ SalesInit

AdminNext ==
    /\ UNCHANGED mounted
    /\ \/ mounted = "list" /\ ListNext /\ UNCHANGED <<formVars, plansVars, salesVars>>
       \/ mounted = "form" /\ FormNext /\ UNCHANGED <<listVars, plansVars, salesVars>>
       \/ mounted = "plans" /\ PlansNext /\ UNCHANGED <<listVars, formVars, salesVars>>
       \/ mounted = "sales" /\ SalesNext /\ UNCHANGED <<listVars, formVars, plansVars>>

AdminSpec == AdminInit /\ [][AdminNext]_adminVars

-----------------------------------------------------------------------------
\* The types of the four screens.
AdminTypeOK == ListTypeOK /\ FormTypeOK /\ PlansTypeOK /\ SalesTypeOK

\* Whatever order the answers come in, a screen with nothing under way and nothing lost
\* or overtaken shows what the server has: the switches of the list, the copy of the
\* plans, the figures and the users of the pizzeria that is selected.
ScreensSettle == SwitchesSettle /\ CopySettles /\ SalesAreOfTheSelected

=============================================================================
