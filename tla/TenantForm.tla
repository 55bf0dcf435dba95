------------------------------ MODULE TenantForm ------------------------------
(***************************************************************************)
(* The administrator's form of one pizzeria (TenantForm.tsx), in the App   *)
(* that mounts it: it asks for the pizzeria's subscription when it opens,  *)
(* and on submission writes the branding, then the plan if it is not the   *)
(* one the form knew, or onboards a new pizzeria.                          *)
(*                                                                         *)
(* Leaving the form aborts nothing: a submission goes on to its second     *)
(* call and then to the list.  The server is the plan of each subscription;*)
(* each handler is one step (Subscriptions takes them apart).              *)
(***************************************************************************)
EXTENDS Sequences, Functions

CONSTANTS
    Pizzerias,
    PlanList,   \* App's plans as loaded at boot, by created_at
    Offered,    \* those with active
    Saves,      \* slots: submissions under way
    None

PlanIds == Range(PlanList)

ASSUME OfferedAssumption == PlanList \in Seq(PlanIds) /\ Offered \subseteq PlanIds

VARIABLES
    existing,   \* tenants that exist
    planOf,     \* the plan of each one's subscription
    view,       \* activePage
    form,
    saves

formVars == <<existing, planOf, view, form, saves>>

NoForm == [open |-> FALSE]
NoSave == [at |-> "idle"]

\* Open forms, and submissions under way.
PlanChoices == PlanIds \cup {None}
TenantForms ==
    [open : {TRUE}, tenant : Pizzerias \cup {None}, plan : PlanChoices, original : PlanChoices, chosen : BOOLEAN,
     sub : {"sent", "read", "over"}, answer : PlanChoices, save : Saves \cup {None}, error : BOOLEAN]
Submissions ==
    [at : {"first", "second", "done"}, tenant : Pizzerias \cup {None}, plan : PlanChoices, original : PlanChoices,
     chosen : BOOLEAN]

FormInit ==
    /\ existing \in SUBSET Pizzerias
    /\ planOf \in [Pizzerias -> PlanIds \cup {None}]
    /\ \A t \in Pizzerias \ existing : planOf[t] = None
    /\ view = "tenants"
    /\ form = NoForm
    /\ saves = [s \in Saves |-> NoSave]

-----------------------------------------------------------------------------
\* TenantForm mounts, for a pizzeria or a new one (None): planId is the first
\* plan's until the subscription answers.
OpenForm(t) ==
    /\ view = "tenants"
    /\ view' = "tenant-form"
    /\ form' = [open |-> TRUE, tenant |-> t, plan |-> IF PlanList = <<>> THEN None ELSE Head(PlanList),
                original |-> None, chosen |-> FALSE, sub |-> IF t = None THEN "over" ELSE "sent",
                answer |-> None, save |-> None, error |-> FALSE]
    /\ UNCHANGED <<existing, planOf, saves>>

\* Mutant of Leave: the form stays mounted behind the other page.
LeaveMounted(page) ==
    /\ view' = page
    /\ UNCHANGED <<existing, planOf, form, saves>>

\* Voltar, Cancelar and the sidebar.
Leave(page) ==
    /\ view' = page
    /\ form' = NoForm
    /\ UNCHANGED <<existing, planOf, saves>>

\* findForTenant: the transaction that reads the subscription.
ReadSubscription ==
    /\ form.open /\ form.sub = "sent"
    /\ form' = [form EXCEPT !.sub = "read", !.answer = planOf[form.tenant]]
    /\ UNCHANGED <<existing, planOf, view, saves>>

\* getSubscription turns no subscription and no answer into null, which changes
\* nothing; a plan overwrites whatever the select shows by then.
SubscriptionAnswers ==
    /\ form.open /\ form.sub = "read"
    /\ \/ /\ form.answer # None
          /\ form' = [form EXCEPT !.sub = "over", !.plan = form.answer, !.original = form.answer,
                                  !.chosen = FALSE]
       \/ form' = [form EXCEPT !.sub = "over"]
    /\ UNCHANGED <<existing, planOf, view, saves>>

\* The select offers the active plans.
Choose(p) ==
    /\ form.open
    /\ p \in Offered
    /\ form' = [form EXCEPT !.plan = p, !.chosen = TRUE]
    /\ UNCHANGED <<existing, planOf, view, saves>>

\* handleSubmit works on the form as it was when it was clicked.
Submit(s) ==
    /\ form.open
    /\ form.save = None
    /\ saves[s] = NoSave
    /\ saves' = [saves EXCEPT ![s] = [at |-> "first", tenant |-> form.tenant, plan |-> form.plan,
                                      original |-> form.original, chosen |-> form.chosen]]
    /\ form' = [form EXCEPT !.save = s, !.error = FALSE]
    /\ UNCHANGED <<existing, planOf, view>>

\* Mutant of UpdateTenant: the plan is always sent.
UpdateTenantAlways(s) ==
    /\ saves[s].at = "first" /\ saves[s].tenant # None
    /\ saves' = [saves EXCEPT ![s].at = IF saves[s].plan # None THEN "second" ELSE "done"]
    /\ UNCHANGED <<existing, planOf, view, form>>

\* updateTenant: the branding, which nothing here depends on.
UpdateTenant(s) ==
    /\ saves[s].at = "first" /\ saves[s].tenant # None
    /\ saves' = [saves EXCEPT ![s].at =
            IF saves[s].plan \notin {None, saves[s].original} THEN "second" ELSE "done"]
    /\ UNCHANGED <<existing, planOf, view, form>>

\* updateSubscription.
UpdateSubscription(s) ==
    /\ saves[s].at = "second"
    /\ planOf' = [planOf EXCEPT ![saves[s].tenant] = saves[s].plan]
    /\ saves' = [saves EXCEPT ![s].at = "done"]
    /\ UNCHANGED <<existing, view, form>>

\* onboardTenant: the API knows the plan, or refuses.
Onboard(s, t) ==
    /\ saves[s].at = "first" /\ saves[s].tenant = None
    /\ saves[s].plan # None
    /\ t \notin existing
    /\ existing' = existing \cup {t}
    /\ planOf' = [planOf EXCEPT ![t] = saves[s].plan]
    /\ saves' = [saves EXCEPT ![s].at = "done"]
    /\ UNCHANGED <<view, form>>

\* onSaved: the list, from whatever the administrator is looking at by then.
Saved(s) ==
    /\ saves[s].at = "done"
    /\ saves' = [saves EXCEPT ![s] = NoSave]
    /\ view' = "tenants"
    /\ form' = NoForm
    /\ UNCHANGED <<existing, planOf>>

\* A call is refused, or its answer is lost once it did its work.
SaveFails(s) ==
    /\ saves[s] # NoSave
    /\ saves' = [saves EXCEPT ![s] = NoSave]
    /\ form' = IF form.open /\ form.save = s THEN [form EXCEPT !.save = None, !.error = TRUE] ELSE form
    /\ UNCHANGED <<existing, planOf, view>>

\* Another administrator changes the plan of a pizzeria.
OtherPlan(t, p) ==
    /\ t \in existing
    /\ planOf' = [planOf EXCEPT ![t] = p]
    /\ UNCHANGED <<existing, view, form, saves>>

FormNext ==
    \/ \E t \in existing \cup {None} : OpenForm(t)
    \/ Leave("tenants") \/ Leave("plans")
    \/ ReadSubscription \/ SubscriptionAnswers
    \/ \E p \in PlanIds : Choose(p) \/ \E t \in Pizzerias : OtherPlan(t, p)
    \/ \E s \in Saves :
        \/ Submit(s) \/ UpdateTenant(s) \/ UpdateSubscription(s) \/ Saved(s) \/ SaveFails(s)
        \/ \E t \in Pizzerias : Onboard(s, t)

FormSpec == FormInit /\ [][FormNext]_formVars

-----------------------------------------------------------------------------
FormTypeOK ==
    /\ existing \subseteq Pizzerias
    /\ planOf \in [Pizzerias -> PlanIds \cup {None}]
    /\ view \in {"tenants", "tenant-form", "plans"}
    /\ form.open <=> view = "tenant-form"
    /\ form \in TenantForms \cup {NoForm} /\ (form.open => form.tenant \in existing \cup {None})
    /\ saves \in [Saves -> Submissions \cup {NoSave}]
    /\ \A s \in Saves : saves[s] # NoSave => saves[s].tenant \in existing \cup {None}

\* A submission moves a pizzeria that has a plan to another one only if the
\* administrator chose it, or submitted before the form knew which one it has.
KnownPlansAreKept ==
    [][\A s \in Saves : UpdateSubscription(s) => saves[s].chosen \/ saves[s].original = None]_formVars

=============================================================================
