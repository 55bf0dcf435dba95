----------------------------- MODULE PlansScreen -----------------------------
(***************************************************************************)
(* The administrator's screen of the plans (PlansManagement.tsx) over the  *)
(* copy of the plans that App.tsx loads at boot and never again.           *)
(*                                                                         *)
(* The switch of a plan and its form send PATCHes that answer when they    *)
(* will.  The form is a copy of the row it was opened on, its active       *)
(* included, and sends all of it.                                          *)
(***************************************************************************)
CONSTANTS
    Codes,      \* PLAN_CODES: one plan of each at most
    Contents,   \* what else a plan is: name, price, limit and modules
    PlanEdits,  \* slots: PATCHes and POSTs under way
    NoPlan

\* What a plan says, and is offered or not.
PlanBodies == [content : Contents, active : BOOLEAN]

ASSUME NoPlanAssumption == NoPlan \notin PlanBodies

VARIABLES
    planRows,   \* plans at the server (NoPlan: no plan of that code)
    offers,     \* history: what the plan was offered as when its form opened (both: the copy was of the past)
    copy,       \* App's copy
    planForm,   \* the open form: the code, the id if it exists, and the copy of its row
    planEdits,
    disordered  \* history: codes of which the copy may be of the past

plansVars == <<planRows, offers, copy, planForm, planEdits, disordered>>

NoPlanForm == [open |-> FALSE]
NoEdit == [at |-> "idle"]

\* Open forms, and calls under way.
PlanForms == [open : {TRUE}, code : Codes, new : BOOLEAN, body : PlanBodies]
EditsMade ==
    [at : {"sent"}, form : {TRUE}, new : BOOLEAN, code : Codes, body : PlanBodies, offers : SUBSET BOOLEAN] \cup
    [at : {"sent"}, form : {FALSE}, code : Codes, active : BOOLEAN] \cup
    [at : {"applied"}, form : BOOLEAN, code : Codes, row : PlanBodies]

PlansInit ==
    /\ planRows \in [Codes -> PlanBodies \cup {NoPlan}]
    /\ offers = BOOLEAN
    /\ copy = planRows
    /\ planForm = NoPlanForm
    /\ planEdits = [e \in PlanEdits |-> NoEdit]
    /\ disordered = {}

\* The button of the form, disabled while its submission is under way.
Submitting == \E e \in PlanEdits : planEdits[e] # NoEdit /\ planEdits[e].form

-----------------------------------------------------------------------------
\* startCreate: a plan of a code the copy does not have; it will be active.
StartCreate(c) ==
    /\ copy[c] = NoPlan
    /\ \E content \in Contents :
        planForm' = [open |-> TRUE, code |-> c, new |-> TRUE,
                     body |-> [content |-> content, active |-> TRUE]]
    /\ offers' = {TRUE}
    /\ UNCHANGED <<planRows, copy, planEdits, disordered>>

\* What a form may be known to offer, of a plan as the copy has it.
OffersOf(c) == IF copy[c] = planRows[c] THEN {planRows[c].active} ELSE BOOLEAN

\* Mutant of StartEdit: the form opens like that of a new plan, active.
StartEditActive(c) ==
    /\ copy[c] # NoPlan
    /\ planForm' = [open |-> TRUE, code |-> c, new |-> FALSE, body |-> [copy[c] EXCEPT !.active = TRUE]]
    /\ offers' = OffersOf(c)
    /\ UNCHANGED <<planRows, copy, planEdits, disordered>>

\* startEdit: even while another form is being saved.
StartEdit(c) ==
    /\ copy[c] # NoPlan
    /\ planForm' = [open |-> TRUE, code |-> c, new |-> FALSE, body |-> copy[c]]
    /\ offers' = OffersOf(c)
    /\ UNCHANGED <<planRows, copy, planEdits, disordered>>

Change(content) ==
    /\ planForm.open
    /\ planForm' = [planForm EXCEPT !.body.content = content]
    /\ UNCHANGED <<planRows, offers, copy, planEdits, disordered>>

CancelForm ==
    /\ planForm' = NoPlanForm
    /\ UNCHANGED <<planRows, offers, copy, planEdits, disordered>>

Send(e, edit) ==
    /\ planEdits[e] = NoEdit
    /\ planEdits' = [planEdits EXCEPT ![e] = edit]
    /\ UNCHANGED <<planRows, offers, copy, planForm, disordered>>

\* handleSubmit.
SubmitForm(e) ==
    /\ planForm.open
    /\ ~Submitting
    /\ Send(e, [at |-> "sent", form |-> TRUE, new |-> planForm.new, code |-> planForm.code,
                body |-> planForm.body, offers |-> offers])

\* handleTogglePlanActive sends active alone, the opposite of what is shown.
TogglePlan(e, c) ==
    /\ copy[c] # NoPlan
    /\ Send(e, [at |-> "sent", form |-> FALSE, code |-> c, active |-> ~copy[c].active])

\* PlansAdminService.create: a code that is taken is refused with 409.
CreatePlan(e) ==
    LET c == planEdits[e].code IN
    /\ planEdits[e].at = "sent" /\ planEdits[e].form /\ planEdits[e].new
    /\ IF planRows[c] = NoPlan
       THEN /\ planRows' = [planRows EXCEPT ![c] = planEdits[e].body]
            /\ planEdits' = [planEdits EXCEPT ![e] = [at |-> "applied", form |-> TRUE, code |-> c,
                                                      row |-> planEdits[e].body]]
       ELSE /\ planEdits' = [planEdits EXCEPT ![e] = NoEdit]
            /\ UNCHANGED planRows
    /\ UNCHANGED <<offers, copy, planForm, disordered>>

\* PlansAdminService.update: the fields of the body over the row.
UpdatePlan(e) ==
    LET edit == planEdits[e]
        c == edit.code
        row == IF edit.form THEN edit.body ELSE [planRows[c] EXCEPT !.active = edit.active]
    IN  /\ edit.at = "sent" /\ (edit.form => ~edit.new)
        /\ planRows' = [planRows EXCEPT ![c] = row]
        /\ planEdits' = [planEdits EXCEPT ![e] = [at |-> "applied", form |-> edit.form, code |-> c, row |-> row]]
        /\ UNCHANGED <<offers, copy, planForm, disordered>>

\* The answer is the copy's row; after a submission cancelForm closes whatever
\* form is open by then.
PlanAnswered(e) ==
    LET c == planEdits[e].code IN
    /\ planEdits[e].at = "applied"
    /\ copy' = [copy EXCEPT ![c] = planEdits[e].row]
    /\ planForm' = IF planEdits[e].form THEN NoPlanForm ELSE planForm
    /\ planEdits' = [planEdits EXCEPT ![e] = NoEdit]
    /\ disordered' = IF planEdits[e].row = planRows[c] THEN disordered \ {c} ELSE disordered \cup {c}
    /\ UNCHANGED <<planRows, offers>>

\* The call is refused, or its answer lost after it did its work.
PlanEditFails(e) ==
    /\ planEdits[e] # NoEdit
    /\ planEdits' = [planEdits EXCEPT ![e] = NoEdit]
    /\ disordered' = IF planEdits[e].at = "sent" THEN disordered ELSE disordered \cup {planEdits[e].code}
    /\ UNCHANGED <<planRows, offers, copy, planForm>>

PlansNext ==
    \/ CancelForm
    \/ \E content \in Contents : Change(content)
    \/ \E c \in Codes : StartCreate(c) \/ StartEdit(c) \/ \E e \in PlanEdits : TogglePlan(e, c)
    \/ \E e \in PlanEdits :
        SubmitForm(e) \/ CreatePlan(e) \/ UpdatePlan(e) \/ PlanAnswered(e) \/ PlanEditFails(e)

PlansSpec == PlansInit /\ [][PlansNext]_plansVars

-----------------------------------------------------------------------------
PlansTypeOK ==
    /\ planRows \in [Codes -> PlanBodies \cup {NoPlan}]
    /\ copy \in [Codes -> PlanBodies \cup {NoPlan}]
    /\ planForm \in PlanForms \cup {NoPlanForm}
    /\ planEdits \in [PlanEdits -> EditsMade \cup {NoEdit}]
    /\ offers \subseteq BOOLEAN
    /\ disordered \subseteq Codes

\* The copy is loaded once, and the list, the switches and the forms of the tab
\* live on it: with nothing under way it is what the server has, but for plans of
\* which an answer was lost or overtaken.
CopySettles ==
    (\A e \in PlanEdits : planEdits[e] = NoEdit) =>
        \A c \in Codes \ disordered : copy[c] = planRows[c]

\* Who edits a plan's name or modules leaves it as it was offered when the form was opened,
\* whatever calls cross: a switch that was used since is taken back, and that is all an edit
\* ever does to the offer, unless the form was opened on a copy of the past.
EditsKeepTheOffer ==
    [][\A e \in PlanEdits :
        UpdatePlan(e) /\ planEdits[e].form =>
            planRows'[planEdits[e].code].active \in planEdits[e].offers]_plansVars

=============================================================================
