--------------------------------- MODULE Team ---------------------------------
(***************************************************************************)
(* The staff screen of the owner (Equipe.tsx) over StaffService, while the *)
(* administrator changes the plan of the pizzeria under both.              *)
(*                                                                         *)
(* A permission on stock or on finance needs its module in the plan: the   *)
(* form offers it by the modules the panel loaded when it booted, the API  *)
(* checks it against tenants.plan_modules before it writes.  Gated are the *)
(* permissions of one such module; the free ones pass every check and are  *)
(* left out, and so is what else is typed.                                 *)
(*                                                                         *)
(* POST and PATCH are two steps, the reads with the checks, then the write *)
(* with its commit.  users.active, and what comes between write and commit *)
(* when it changes, are in Sessions.                                       *)
(***************************************************************************)
CONSTANTS
    Members,
    Gated,      \* permissions that need the module
    TeamCalls,  \* slots: calls of this screen under way
    Nobody

Permissions == SUBSET Gated

ASSUME NobodyAssumption == Nobody \notin Members /\ \A granted \in Permissions : granted # Nobody

VARIABLES
    staff,       \* users of role tenant_staff: their permissions (Nobody: no row)
    planHas,     \* the module is in tenants.plan_modules
    teamListing, \* getStaff of this visit
    team,        \* Equipe's staff
    memberForm,
    teamCalls,
    lapsed       \* history: who held a permission when the plan lost it, or was given it by a race

staffRows == <<staff, planHas, lapsed>>
teamScreen == <<teamListing, team, memberForm>>
teamVars == <<staffRows, teamScreen, teamCalls>>

Rows == [Members -> Permissions \cup {Nobody}]

NoForm == [open |-> FALSE, saving |-> FALSE]
MemberForms == [open : {FALSE}, saving : BOOLEAN] \cup
               [open : {TRUE}, saving : BOOLEAN, editing : Members \cup {Nobody}, permissions : Permissions]

\* A call: of a save or of a toggle, for a new member or of one listed.
TeamIdle == [at |-> "idle"]
TeamSent == [at : {"sent", "checked", "applied"}, live : BOOLEAN, late : BOOLEAN, save : BOOLEAN,
             member : Members \cup {Nobody}, new : BOOLEAN, permissions : Permissions \cup {Nobody}]
NobodyListed == [m \in Members |-> Nobody]

Holders == {m \in Members : staff[m] \notin {Nobody, {}}}

TeamInit ==
    /\ planHas \in BOOLEAN
    /\ staff \in Rows
    /\ Holders # {} => planHas
    /\ teamListing = [at |-> "sent"] /\ team = NobodyListed
    /\ memberForm = NoForm
    /\ teamCalls = [k \in TeamCalls |-> TeamIdle]
    /\ lapsed = {}

-----------------------------------------------------------------------------
\* The screen is mounted again, its calls forgotten.
OpenTeam ==
    /\ teamListing' = [at |-> "sent"] /\ team' = NobodyListed
    /\ memberForm' = NoForm
    /\ teamCalls' = [k \in TeamCalls |-> IF teamCalls[k] = TeamIdle THEN TeamIdle
                                         ELSE [teamCalls[k] EXCEPT !.live = FALSE]]
    /\ UNCHANGED staffRows

\* StaffService.list.
ListStaff ==
    /\ teamListing.at = "sent"
    /\ teamListing' = [at |-> "read", rows |-> staff]
    /\ UNCHANGED <<staffRows, team, memberForm, teamCalls>>

\* setStaff, whatever the answers of PATCHes have put there by now; nothing if the GET fails.
TeamListed ==
    /\ teamListing.at = "read"
    /\ team' \in {teamListing.rows, team}
    /\ teamListing' = [at |-> "over"]
    /\ UNCHANGED <<staffRows, memberForm, teamCalls>>

Form(editing, permissions) ==
    /\ memberForm' = [open |-> TRUE, saving |-> memberForm.saving,
                      editing |-> editing, permissions |-> permissions]
    /\ UNCHANGED <<staffRows, teamListing, team, teamCalls>>

\* Both buttons are there with a form open too: it is replaced.
OpenNewForm == Form(Nobody, {})
OpenEditForm(m) == team[m] # Nobody /\ Form(m, team[m])

\* handlePositionChange: what is suggested to a new member is free, and all the rest goes.
ChangePosition == memberForm.open /\ memberForm.editing = Nobody /\ Form(Nobody, {})

\* togglePermission of one the form offers: by the modules of the last boot, so any.
TogglePermission(p) ==
    /\ memberForm.open
    /\ Form(memberForm.editing, IF p \in memberForm.permissions THEN memberForm.permissions \ {p}
                                ELSE memberForm.permissions \cup {p})

CancelMember ==
    /\ memberForm.open
    /\ memberForm' = [open |-> FALSE, saving |-> memberForm.saving]
    /\ UNCHANGED <<staffRows, teamListing, team, teamCalls>>

-----------------------------------------------------------------------------
\* permissions is Nobody in a body without them.
CallTeam(k, isSave, member, permissions) ==
    /\ teamCalls[k] = TeamIdle
    /\ teamCalls' = [teamCalls EXCEPT ![k] =
            [at |-> "sent", live |-> TRUE, late |-> FALSE, save |-> isSave,
             member |-> member, new |-> member = Nobody, permissions |-> permissions]]
    /\ UNCHANGED <<staffRows, teamListing, team>>

\* handleSave: all the permissions of the form, those it does not offer any more too.
SaveMember(k) ==
    /\ memberForm.open /\ ~memberForm.saving
    /\ CallTeam(k, TRUE, memberForm.editing, memberForm.permissions)
    /\ memberForm' = [memberForm EXCEPT !.saving = TRUE]

\* handleToggleActive of the switch, which nothing disables: active alone.
ToggleActive(k, m) ==
    /\ team[m] # Nobody
    /\ CallTeam(k, FALSE, m, Nobody)
    /\ UNCHANGED memberForm

-----------------------------------------------------------------------------
Checked(k) ==
    /\ teamCalls' = [teamCalls EXCEPT ![k].at = "checked"]
    /\ UNCHANGED <<staffRows, teamScreen>>

\* Mutant of CheckMember: permissions are checked of a new member only.
CheckNewMember(k) ==
    /\ teamCalls[k].at = "sent"
    /\ teamCalls[k].new /\ teamCalls[k].permissions # {} => planHas
    /\ Checked(k)

\* assertPermissionsAllowed; a member once listed is never gone.
CheckMember(k) ==
    /\ teamCalls[k].at = "sent"
    /\ teamCalls[k].permissions \notin {Nobody, {}} => planHas
    /\ Checked(k)

Written(k, m, permissions) ==
    /\ teamCalls[k].at = "checked"
    /\ staff' = [staff EXCEPT ![m] = permissions]
    /\ lapsed' = IF teamCalls[k].late THEN lapsed \cup {m} ELSE lapsed
    /\ teamCalls' = [teamCalls EXCEPT ![k].at = "applied", ![k].member = m, ![k].permissions = permissions]
    /\ UNCHANGED <<planHas, teamScreen>>

\* StaffService.create.
CreateMember(k, m) ==
    /\ teamCalls[k] # TeamIdle /\ teamCalls[k].new
    /\ staff[m] = Nobody
    /\ Written(k, m, teamCalls[k].permissions)

\* StaffService.update: the columns of the body; the answer has the whole row.
UpdateMember(k) ==
    LET m == teamCalls[k].member IN
    /\ teamCalls[k] # TeamIdle /\ ~teamCalls[k].new
    /\ Written(k, m, IF teamCalls[k].permissions = Nobody THEN staff[m] ELSE teamCalls[k].permissions)

\* The administrator changes the plan: permissions stay as they were given.
ChangePlan ==
    /\ planHas' = ~planHas
    /\ IF planHas
       THEN /\ lapsed' = lapsed \cup Holders
            /\ teamCalls' = [k \in TeamCalls |->
                    IF teamCalls[k].at = "checked" /\ teamCalls[k].permissions # Nobody
                    THEN [teamCalls[k] EXCEPT !.late = TRUE] ELSE teamCalls[k]]
       ELSE UNCHANGED <<lapsed, teamCalls>>
    /\ UNCHANGED <<staff, teamScreen>>

-----------------------------------------------------------------------------
Ends(k, form) ==
    /\ memberForm' = form
    /\ teamCalls' = [teamCalls EXCEPT ![k] = TeamIdle]
    /\ UNCHANGED <<staffRows, teamListing>>

\* The new member at the end, or the row in its place.  A save closes the form, whichever
\* is open by now; a toggle leaves it alone.
MemberAnswered(k) ==
    LET m == teamCalls[k].member IN
    /\ teamCalls[k].at = "applied" /\ teamCalls[k].live
    /\ team' = IF team[m] # Nobody \/ teamCalls[k].new
               THEN [team EXCEPT ![m] = teamCalls[k].permissions] ELSE team
    /\ Ends(k, IF teamCalls[k].save THEN NoForm ELSE memberForm)

\* Refused (a permission out of the plan, an e-mail already used), lost on the way or on
\* the way back, or the answer of a screen that is gone.
MemberFails(k) ==
    /\ teamCalls[k] # TeamIdle
    /\ Ends(k, IF teamCalls[k].save /\ teamCalls[k].live THEN [memberForm EXCEPT !.saving = FALSE] ELSE memberForm)
    /\ UNCHANGED team

TeamNext ==
    \/ OpenTeam \/ ListStaff \/ TeamListed
    \/ OpenNewForm \/ ChangePosition \/ CancelMember \/ ChangePlan
    \/ \E m \in Members : OpenEditForm(m)
    \/ \E p \in Gated : TogglePermission(p)
    \/ \E k \in TeamCalls :
        \/ SaveMember(k) \/ CheckMember(k) \/ UpdateMember(k) \/ MemberAnswered(k) \/ MemberFails(k)
        \/ \E m \in Members : ToggleActive(k, m) \/ CreateMember(k, m)

TeamSpec == TeamInit /\ [][TeamNext]_teamVars

-----------------------------------------------------------------------------
TeamTypeOK ==
    /\ staff \in Rows /\ team \in Rows
    /\ planHas \in BOOLEAN
    /\ teamListing \in [at : {"sent", "over"}] \cup [at : {"read"}, rows : Rows]
    /\ memberForm \in MemberForms
    /\ teamCalls \in [TeamCalls -> TeamSent \cup {TeamIdle}]
    /\ \A k \in TeamCalls : teamCalls[k] # TeamIdle =>
            \/ teamCalls[k].member \in Members
            \/ teamCalls[k].new /\ teamCalls[k].at # "applied" /\ teamCalls[k].permissions # Nobody
    /\ lapsed \subseteq Members

\* Who holds a permission of a module the plan lacks was given it before the plan lost
\* the module, or by a call that had been checked by then: a list and a form opened
\* earlier, with the modules of an older boot, do not give it back, whatever they send.
GrantsWereInThePlan == ~planHas => Holders \subseteq lapsed

=============================================================================
