---------------------------- MODULE Subscriptions ----------------------------
(***************************************************************************)
(* What a pizzeria may use: its subscription, the plan it points to, the   *)
(* copy of both on the tenant that the administration lists, and the entry *)
(* of the cache on which ModuleGuard decides.                              *)
(*                                                                         *)
(* SubscriptionsAdminService.upsertForTenant writes the subscription in a  *)
(* transaction, then deletes the cache entry, then writes the copy: three  *)
(* steps that others run between and any of which may be the last.  The    *)
(* guard reads the cache, and on a miss the database and then fills the    *)
(* cache.  A plan is edited without a word to either.                      *)
(*                                                                         *)
(* A plan's row is the modules it includes; its name and price change with *)
(* them.  Time is what is left of each cache entry's TTL.                  *)
(***************************************************************************)
EXTENDS Naturals

CONSTANTS
    Tenants,
    Plans,
    Modules,
    Guards,     \* requests to gated routes; each may be followed by another
    Patches,    \* the PATCHes of subscriptions the API will receive
    TTL,        \* SUBSCRIPTION_CACHE_TTL_SECONDS, in ticks
    MaxEdits,   \* bound: edits of plans
    None

ASSUME TTLAssumption == TTL \in Nat \ {0}
ASSUME MaxEditsAssumption == MaxEdits \in Nat

VARIABLES
    tenants,    \* tenants that exist
    plans,      \* plans that exist
    modules,    \* plans.modules
    sub,        \* subscriptions (None: the tenant has none)
    summary,    \* tenants.subscription_status, plan_code, plan_modules
    cache,      \* entries of ModuleGuard with what is left of their TTL
    edits,      \* edits of plans so far
    gate,       \* where each guarded request stands
    patch,      \* where each PATCH stands
    spoiled     \* history: tenants where PATCHes crossed or died, and none ran alone since

database == <<tenants, plans, modules, sub, summary, edits>>
vars == <<database, cache, gate, patch, spoiled>>

Statuses == {"active", "canceled"}
Rows == [status : Statuses, plan : Plans]
\* The guard's wrapper: "no subscription" is an entry too.
Entries == [found : {FALSE}] \cup
           [found : {TRUE}, status : Statuses, plan : Plans, modules : SUBSET Modules]
Cached == [entry : Entries, left : 1..TTL, late : BOOLEAN]
Copies == [status : Statuses, plan : Plans, modules : SUBSET Modules]
Dtos == [plan : Plans \cup {None}, status : Statuses \cup {None}]

ASSUME NoneAssumption == None \notin Tenants \cup Plans \cup Rows \cup Cached \cup Copies

EntryOf(t) ==
    IF sub[t] = None THEN [found |-> FALSE]
    ELSE [found |-> TRUE, status |-> sub[t].status, plan |-> sub[t].plan,
          modules |-> modules[sub[t].plan]]

Copy(row) == [status |-> row.status, plan |-> row.plan, modules |-> modules[row.plan]]

\* Between the commit of the subscription and the write of the copy.
Underway(p) == patch[p].stage \in {"written", "deleted"}

Patched(p, t) == patch[p].tenant = t

Init ==
    /\ tenants = {}
    /\ plans \in SUBSET Plans \ {{}}
    /\ modules \in [Plans -> SUBSET Modules]
    /\ sub = [t \in Tenants |-> None]
    /\ summary = [t \in Tenants |-> None]
    /\ cache = [t \in Tenants |-> None]
    /\ edits = 0
    /\ gate = [g \in Guards |-> [at |-> "idle"]]
    /\ patch = [p \in Patches |-> [stage |-> "idle", tenant |-> None]]
    /\ spoiled = {}

-----------------------------------------------------------------------------
\* TenantsAdminService.create: a tenant without a subscription.
CreateTenant(t) ==
    /\ t \notin tenants
    /\ tenants' = tenants \cup {t}
    /\ UNCHANGED <<plans, modules, sub, summary, edits, cache, gate, patch, spoiled>>

\* TenantOnboardingService.onboard: tenant, subscription and copy, or nothing.
Onboard(t, p) ==
    /\ t \notin tenants
    /\ p \in plans
    /\ tenants' = tenants \cup {t}
    /\ sub' = [sub EXCEPT ![t] = [status |-> "active", plan |-> p]]
    /\ summary' = [summary EXCEPT ![t] = Copy([status |-> "active", plan |-> p])]
    /\ UNCHANGED <<plans, modules, edits, cache, gate, patch, spoiled>>

\* PlansAdminService.create and update: one statement each.
SavePlan(p, m) ==
    /\ edits < MaxEdits
    /\ plans' = plans \cup {p}
    /\ modules' = [modules EXCEPT ![p] = m]
    /\ edits' = edits + 1
    /\ UNCHANGED <<tenants, sub, summary, cache, gate, patch, spoiled>>

-----------------------------------------------------------------------------
\* Mutant: any plan will do.
CheckTenantOnly(p, t, dto) ==
    /\ patch[p].stage = "idle"
    /\ t \in tenants
    /\ patch' = [patch EXCEPT ![p] = [stage |-> "checked", tenant |-> t, dto |-> dto]]
    /\ UNCHANGED <<database, cache, gate, spoiled>>

\* upsertForTenant: the tenant and the plan are looked up before anything.
Check(p, t, dto) ==
    /\ patch[p].stage = "idle"
    /\ patch' = [patch EXCEPT ![p] =
            IF t \in tenants /\ (dto.plan # None => dto.plan \in plans)
            THEN [stage |-> "checked", tenant |-> t, dto |-> dto]
            ELSE [stage |-> "refused", tenant |-> None]]
    /\ UNCHANGED <<database, cache, gate, spoiled>>

FindSubscription(p) ==
    /\ patch[p].stage = "checked"
    /\ patch' = [patch EXCEPT ![p].stage =
            IF sub[patch[p].tenant] # None THEN "present"
            ELSE IF patch[p].dto.plan # None THEN "absent" ELSE "refused"]
    /\ UNCHANGED <<database, cache, gate, spoiled>>

\* A field the body leaves out is left alone.
Merge(row, dto) ==
    [status |-> IF dto.status = None THEN row.status ELSE dto.status,
     plan   |-> IF dto.plan = None THEN row.plan ELSE dto.plan]

New(dto) ==
    [status |-> IF dto.status = None THEN "active" ELSE dto.status, plan |-> dto.plan]

\* The transaction commits with row; the answer carries the plan it points to.
Write(p, row) ==
    LET t == patch[p].tenant IN
    /\ sub' = [sub EXCEPT ![t] = row]
    /\ patch' = [patch EXCEPT ![p] = [stage |-> "written", tenant |-> t, result |-> Copy(row)]]
    /\ spoiled' = IF \E q \in Patches : Underway(q) /\ Patched(q, t)
                  THEN spoiled \cup {t} ELSE spoiled \ {t}
    /\ UNCHANGED <<tenants, plans, modules, summary, edits, cache, gate>>

UpdateSubscription(p) ==
    /\ patch[p].stage = "present"
    /\ Write(p, Merge(sub[patch[p].tenant], patch[p].dto))

\* The unique index on tenant_id lets one of two creations through.
CreateSubscription(p) ==
    /\ patch[p].stage = "absent"
    /\ sub[patch[p].tenant] = None
    /\ Write(p, New(patch[p].dto))

\* Mutant: the cache keeps what it has.
DeleteNothing(p) ==
    /\ patch[p].stage = "written"
    /\ patch' = [patch EXCEPT ![p].stage = "deleted"]
    /\ UNCHANGED <<database, cache, gate, spoiled>>

\* cache.del: a guard that has read and not yet filled will fill with the past.
DeleteEntry(p) ==
    LET t == patch[p].tenant IN
    /\ patch[p].stage = "written"
    /\ patch' = [patch EXCEPT ![p].stage = "deleted"]
    /\ cache' = [cache EXCEPT ![t] = None]
    /\ gate' = [g \in Guards |->
            IF gate[g].at = "read" /\ gate[g].tenant = t THEN [gate[g] EXCEPT !.late = TRUE]
            ELSE gate[g]]
    /\ UNCHANGED <<database, spoiled>>

\* Mutant: a copy that exists gets the new status only.
WriteStatusOnly(p) ==
    LET t == patch[p].tenant IN
    /\ patch[p].stage = "deleted"
    /\ patch' = [patch EXCEPT ![p] = [stage |-> "done", tenant |-> t]]
    /\ summary' = [summary EXCEPT ![t] =
            IF summary[t] = None THEN patch[p].result
            ELSE [summary[t] EXCEPT !.status = patch[p].result.status]]
    /\ UNCHANGED <<tenants, plans, modules, sub, edits, cache, gate, spoiled>>

\* The copy on the tenant, from what the transaction answered.
WriteSummary(p) ==
    LET t == patch[p].tenant IN
    /\ patch[p].stage = "deleted"
    /\ patch' = [patch EXCEPT ![p] = [stage |-> "done", tenant |-> t]]
    /\ summary' = [summary EXCEPT ![t] = patch[p].result]
    /\ UNCHANGED <<tenants, plans, modules, sub, edits, cache, gate, spoiled>>

\* A statement fails or the process stops.  After the commit nobody finishes
\* what was left: an entry or a fill of this tenant may be of the past.
FailPatch(p) ==
    LET t == patch[p].tenant IN
    /\ \/ /\ patch[p].stage \in {"checked", "absent", "present"}
          /\ patch' = [patch EXCEPT ![p] = [stage |-> "failed", tenant |-> t]]
          /\ UNCHANGED <<cache, gate, spoiled>>
       \/ /\ Underway(p)
          /\ patch' = [patch EXCEPT ![p] = [stage |-> "failed", tenant |-> t]]
          /\ spoiled' = spoiled \cup {t}
          /\ IF patch[p].stage = "written"
             THEN /\ cache' = [cache EXCEPT ![t] = IF @ = None THEN None
                                                   ELSE [@ EXCEPT !.late = TRUE]]
                  /\ gate' = [g \in Guards |->
                        IF gate[g].at = "read" /\ gate[g].tenant = t
                        THEN [gate[g] EXCEPT !.late = TRUE] ELSE gate[g]]
             ELSE UNCHANGED <<cache, gate>>
    /\ UNCHANGED database

-----------------------------------------------------------------------------
\* ModuleGuard.resolveEntry: a miss, as far as the cache can tell.
Miss(g, t) ==
    /\ gate[g].at = "idle"
    /\ t \in tenants
    /\ cache[t] = None
    /\ gate' = [gate EXCEPT ![g] = [at |-> "missed", tenant |-> t]]
    /\ UNCHANGED <<database, cache, patch, spoiled>>

\* Mutant of Hit: the entry lives as long as it is asked for.
HitAndRefresh(g, t) ==
    /\ gate[g].at = "idle"
    /\ cache[t] # None
    /\ cache' = [cache EXCEPT ![t].left = TTL]
    /\ UNCHANGED <<database, gate, patch, spoiled>>

\* A hit decides at once and changes nothing.
Hit(g, t) ==
    /\ gate[g].at = "idle"
    /\ cache[t] # None
    /\ UNCHANGED vars

\* The guard's own transaction: the subscription with its plan.
Read(g) ==
    /\ gate[g].at = "missed"
    /\ gate' = [gate EXCEPT ![g] = [at |-> "read", tenant |-> gate[g].tenant,
                                    entry |-> EntryOf(gate[g].tenant), late |-> FALSE]]
    /\ UNCHANGED <<database, cache, patch, spoiled>>

\* cache.set, whatever is there by now; then the guard decides on what it read.
Fill(g) ==
    /\ gate[g].at = "read"
    /\ cache' = [cache EXCEPT ![gate[g].tenant] =
            [entry |-> gate[g].entry, left |-> TTL, late |-> gate[g].late]]
    /\ gate' = [gate EXCEPT ![g] = [at |-> "idle"]]
    /\ UNCHANGED <<database, patch, spoiled>>

\* The transaction or the cache fails, and the request with it.
FailGuard(g) ==
    /\ gate[g].at # "idle"
    /\ gate' = [gate EXCEPT ![g] = [at |-> "idle"]]
    /\ UNCHANGED <<database, cache, patch, spoiled>>

\* Time passes for all entries; the last tick of one takes it away.
Tick ==
    /\ \E t \in Tenants : cache[t] # None
    /\ cache' = [t \in Tenants |->
            IF cache[t] = None \/ cache[t].left = 1 THEN None
            ELSE [cache[t] EXCEPT !.left = @ - 1]]
    /\ UNCHANGED <<database, gate, patch, spoiled>>

-----------------------------------------------------------------------------
PatchStep(p) ==
    \/ FindSubscription(p) \/ UpdateSubscription(p) \/ CreateSubscription(p)
    \/ DeleteEntry(p) \/ WriteSummary(p)

Next ==
    \/ \E t \in Tenants : CreateTenant(t) \/ \E p \in Plans : Onboard(t, p)
    \/ \E p \in Plans, m \in SUBSET Modules : SavePlan(p, m)
    \/ \E p \in Patches :
        \/ \E t \in Tenants, dto \in Dtos : Check(p, t, dto)
        \/ PatchStep(p) \/ FailPatch(p)
    \/ \E g \in Guards :
        \/ \E t \in Tenants : Miss(g, t) \/ Hit(g, t)
        \/ Read(g) \/ Fill(g) \/ FailGuard(g)
    \/ Tick

Fairness ==
    /\ \A p \in Patches : WF_vars(PatchStep(p))
    /\ \A g \in Guards : WF_vars(Read(g) \/ Fill(g))
    /\ WF_vars(Tick)

Spec == Init /\ [][Next]_vars /\ Fairness

-----------------------------------------------------------------------------
TypeOK ==
    /\ tenants \subseteq Tenants
    /\ plans \subseteq Plans
    /\ modules \in [Plans -> SUBSET Modules]
    /\ sub \in [Tenants -> Rows \cup {None}]
    /\ \A t \in Tenants : sub[t] # None => t \in tenants /\ sub[t].plan \in plans
    /\ summary \in [Tenants -> Copies \cup {None}]
    /\ cache \in [Tenants -> Cached \cup {None}]
    /\ edits \in 0..MaxEdits
    /\ gate \in [Guards ->
            [at : {"idle"}] \cup [at : {"missed"}, tenant : Tenants] \cup
            [at : {"read"}, tenant : Tenants, entry : Entries, late : BOOLEAN]]
    /\ patch \in [Patches ->
            [stage : {"idle", "refused"}, tenant : {None}] \cup
            [stage : {"done", "failed"}, tenant : Tenants] \cup
            [stage : {"checked", "absent", "present", "refused"}, tenant : Tenants, dto : Dtos] \cup
            [stage : {"written", "deleted"}, tenant : Tenants, result : Copies]]
    /\ spoiled \subseteq Tenants

\* What an entry says of the subscription itself.
Tells(entry, t) ==
    IF sub[t] = None THEN ~entry.found
    ELSE entry.found /\ entry.status = sub[t].status /\ entry.plan = sub[t].plan

\* A change of plan or status closes and opens the gate at once: an entry that
\* tells another subscription than the database is one of a PATCH that has yet
\* to delete it, or that a guard brought from before a deletion, or that a PATCH
\* died over.  No entry is stale without one of these.
StaleEntriesAreRaces ==
    \A t \in Tenants : cache[t] # None =>
        \/ Tells(cache[t].entry, t)
        \/ cache[t].late
        \/ \E p \in Patches : patch[p].stage = "written" /\ Patched(p, t)

\* "escrita nos 2 unicos lugares que alteram assinatura": the administration's
\* copy tells the subscription's status and plan unless a PATCH has yet to write
\* it, or one died before it did or crossed another; the next PATCH that runs
\* alone repairs what those left.
SummaryTellsTheSubscription ==
    \A t \in Tenants :
        \/ IF sub[t] = None THEN summary[t] = None
           ELSE summary[t] # None /\ summary[t].status = sub[t].status
                                  /\ summary[t].plan = sub[t].plan
        \/ \E p \in Patches : Patched(p, t) /\ Underway(p)
        \/ t \in spoiled

\* "aceita a janela de ate 60s de staleness do TTL": whatever was filled late,
\* left behind or outdated by an edit of a plan, the gate ends up deciding on the
\* subscription and the plan as they are.
GateCatchesUp ==
    <>[](\A t \in Tenants : cache[t] # None => cache[t].entry = EntryOf(t))

=============================================================================
