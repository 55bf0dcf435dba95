-------------------------- MODULE SubscriptionsProofs --------------------------
(***************************************************************************)
(* Proofs about Subscriptions, for any number of tenants, plans, PATCHes   *)
(* and requests at the gate.                                               *)
(***************************************************************************)
EXTENDS Subscriptions, TLAPS

GateStates ==
    [at : {"idle"}] \cup [at : {"missed"}, tenant : Tenants] \cup
    [at : {"read"}, tenant : Tenants, entry : Entries, late : BOOLEAN]

PatchStates ==
    [stage : {"idle", "refused"}, tenant : {None}] \cup
    [stage : {"done", "failed"}, tenant : Tenants] \cup
    [stage : {"checked", "absent", "present", "refused"}, tenant : Tenants, dto : Dtos] \cup
    [stage : {"written", "deleted"}, tenant : Tenants, result : Copies]

\* Whoever names a tenant names one that exists, and a plan that was looked up stays.
Known ==
    /\ spoiled \subseteq tenants
    /\ \A t \in Tenants : cache[t] # None => t \in tenants
    /\ \A g \in Guards : gate[g].at # "idle" => gate[g].tenant \in tenants
    /\ \A p \in Patches : patch[p].tenant # None => patch[p].tenant \in tenants
    /\ \A p \in Patches : patch[p].stage \in {"checked", "absent", "present"} =>
            /\ patch[p].dto.plan # None => patch[p].dto.plan \in plans
            /\ patch[p].stage = "absent" => patch[p].dto.plan # None
            /\ patch[p].stage = "present" => sub[patch[p].tenant] # None

\* A fill that is about to come is as good as an entry.
FillsTell ==
    \A g \in Guards : gate[g].at = "read" =>
        \/ Tells(gate[g].entry, gate[g].tenant)
        \/ gate[g].late
        \/ \E p \in Patches : patch[p].stage = "written" /\ Patched(p, gate[g].tenant)

\* A copy that is about to be written is right, where no PATCHes have crossed or died.
ResultsTell ==
    \A p \in Patches : Underway(p) /\ patch[p].tenant \notin spoiled =>
        LET row == sub[patch[p].tenant] IN
        row # None /\ patch[p].result.status = row.status /\ patch[p].result.plan = row.plan

SubscriptionsInv ==
    TypeOK /\ Known /\ FillsTell /\ ResultsTell /\ StaleEntriesAreRaces /\ SummaryTellsTheSubscription

\* The states of a PATCH, by its stage.
LEMMA PatchShape ==
    ASSUME TypeOK, NEW p \in Patches
    PROVE  /\ patch[p] \in PatchStates
           /\ patch[p].stage \in {"checked", "absent", "present"} =>
                patch[p].tenant \in Tenants /\ patch[p].dto \in Dtos
           /\ Underway(p) => patch[p].tenant \in Tenants /\ patch[p].result \in Copies
BY DEF TypeOK, PatchStates, Underway

LEMMA GateShape ==
    ASSUME TypeOK, NEW g \in Guards
    PROVE  /\ gate[g] \in GateStates
           /\ gate[g].at = "missed" => gate[g].tenant \in Tenants
           /\ gate[g].at = "read" =>
                gate[g].tenant \in Tenants /\ gate[g].entry \in Entries /\ gate[g].late \in BOOLEAN
BY DEF TypeOK, GateStates

\* What is read of a tenant's subscription is an entry, and tells it.
LEMMA EntryTells ==
    ASSUME TypeOK, NEW t \in Tenants PROVE EntryOf(t) \in Entries /\ Tells(EntryOf(t), t)
<1>1. CASE sub[t] = None
  BY <1>1 DEF EntryOf, Entries, Tells
<1>2. CASE sub[t] # None
  <2>1. sub[t] \in Rows /\ sub[t].status \in Statuses /\ sub[t].plan \in Plans
    BY <1>2 DEF TypeOK, Rows
  <2>2. modules[sub[t].plan] \in SUBSET Modules
    BY <2>1 DEF TypeOK
  <2> QED
    BY <1>2, <2>1, <2>2 DEF EntryOf, Entries, Tells
<1> QED
  BY <1>1, <1>2

LEMMA CopyType == ASSUME TypeOK, NEW row \in Rows PROVE Copy(row) \in Copies
BY DEF TypeOK, Rows, Copy, Copies

\* A row and a copy are not what stands for none.
LEMMA ThereIs == ASSUME NEW row \in Rows, TypeOK PROVE row # None /\ Copy(row) # None
BY CopyType, NoneAssumption

LEMMA SubscriptionsInit == Init => SubscriptionsInv
<1> SUFFICES ASSUME Init PROVE SubscriptionsInv
  OBVIOUS
<1>1. TypeOK
  <2>1. /\ sub \in [Tenants -> Rows \cup {None}] /\ summary \in [Tenants -> Copies \cup {None}]
        /\ cache \in [Tenants -> Cached \cup {None}]
    BY DEF Init
  <2>2. gate \in [Guards -> GateStates] /\ patch \in [Patches -> PatchStates]
    BY DEF Init, GateStates, PatchStates
  <2>3. tenants \subseteq Tenants /\ plans \subseteq Plans /\ modules \in [Plans -> SUBSET Modules]
    BY DEF Init
  <2>4. edits \in 0 .. MaxEdits /\ spoiled \subseteq Tenants
    BY MaxEditsAssumption DEF Init
  <2> QED
    BY <2>1, <2>2, <2>3, <2>4 DEF Init, TypeOK, GateStates, PatchStates
<1>2. Known /\ FillsTell /\ ResultsTell
  BY DEF Init, Known, FillsTell, ResultsTell, Underway
<1>3. StaleEntriesAreRaces /\ SummaryTellsTheSubscription
  BY DEF Init, StaleEntriesAreRaces, SummaryTellsTheSubscription
<1> QED
  BY <1>1, <1>2, <1>3 DEF SubscriptionsInv

-----------------------------------------------------------------------------
(* The types. *)

\* Creation of tenants and edits of plans.
LEMMA AdminType ==
    ASSUME TypeOK,
           \/ \E t \in Tenants : CreateTenant(t) \/ \E p \in Plans : Onboard(t, p)
           \/ \E p \in Plans, m \in SUBSET Modules : SavePlan(p, m)
    PROVE  TypeOK'
<1>1. ASSUME NEW t \in Tenants, CreateTenant(t) PROVE TypeOK'
  BY <1>1 DEF TypeOK, CreateTenant
<1>2. ASSUME NEW t \in Tenants, NEW p \in Plans, Onboard(t, p) PROVE TypeOK'
  <2> DEFINE row == [status |-> "active", plan |-> p]
  <2>1. row \in Rows /\ Copy(row) \in Copies
    BY CopyType DEF Rows, Statuses
  <2>2. /\ tenants' = tenants \cup {t} /\ p \in plans
        /\ sub' = [sub EXCEPT ![t] = row] /\ summary' = [summary EXCEPT ![t] = Copy(row)]
        /\ UNCHANGED <<plans, modules, edits, cache, gate, patch, spoiled>>
    BY <1>2 DEF Onboard
  <2>3. sub' \in [Tenants -> Rows \cup {None}] /\ summary' \in [Tenants -> Copies \cup {None}]
    BY <2>1, <2>2 DEF TypeOK
  <2>4. \A u \in Tenants : sub'[u] # None => u \in tenants' /\ sub'[u].plan \in plans'
    BY <2>2 DEF TypeOK
  <2> QED
    BY <2>2, <2>3, <2>4 DEF TypeOK
<1>3. ASSUME NEW p \in Plans, NEW m \in SUBSET Modules, SavePlan(p, m) PROVE TypeOK'
  BY <1>3, MaxEditsAssumption DEF TypeOK, SavePlan
<1> QED
  BY <1>1, <1>2, <1>3

\* A PATCH up to its write.
LEMMA CheckType ==
    ASSUME TypeOK, NEW p \in Patches, NEW t \in Tenants, NEW dto \in Dtos, Check(p, t, dto)
    PROVE  TypeOK'
<1>1. patch' \in [Patches -> PatchStates]
  BY DEF TypeOK, Check, PatchStates
<1> QED
  BY <1>1 DEF TypeOK, Check, database, PatchStates

LEMMA FindType == ASSUME TypeOK, NEW p \in Patches, FindSubscription(p) PROVE TypeOK'
<1>1. patch[p] \in [stage : {"checked", "absent", "present", "refused"}, tenant : Tenants, dto : Dtos]
  BY PatchShape DEF FindSubscription, PatchStates
<1>2. patch'[p] \in [stage : {"checked", "absent", "present", "refused"}, tenant : Tenants, dto : Dtos]
  BY <1>1 DEF FindSubscription, TypeOK
<1>3. patch' \in [Patches -> PatchStates]
  BY <1>2 DEF FindSubscription, TypeOK, PatchStates
<1> QED
  BY <1>3 DEF TypeOK, FindSubscription, database, PatchStates

\* The row a PATCH writes.
LEMMA WriteType ==
    ASSUME TypeOK, Known, NEW p \in Patches, UpdateSubscription(p) \/ CreateSubscription(p)
    PROVE  \E row \in Rows : /\ Write(p, row) /\ row.plan \in plans
                             /\ patch[p].tenant \in tenants /\ patch[p].tenant \in Tenants
<1> DEFINE t == patch[p].tenant
           dto == patch[p].dto
<1>1. t \in Tenants /\ dto \in Dtos
  BY PatchShape DEF UpdateSubscription, CreateSubscription
<1>2. t \in tenants
  BY <1>1, NoneAssumption DEF Known
<1>3. dto.plan \in Plans \cup {None} /\ dto.status \in Statuses \cup {None}
  BY <1>1 DEF Dtos
<1>4. None \notin Statuses \/ None \in Statuses
  OBVIOUS
<1>5. CASE UpdateSubscription(p)
  <2>1. sub[t] # None /\ sub[t] \in Rows /\ sub[t].plan \in plans /\ sub[t].status \in Statuses
    BY <1>1, <1>5 DEF UpdateSubscription, Known, TypeOK, Rows
  <2>2. dto.plan # None => dto.plan \in plans
    BY <1>5 DEF UpdateSubscription, Known
  <2>3. Merge(sub[t], dto) \in Rows /\ Merge(sub[t], dto).plan \in plans
    BY <1>3, <2>1, <2>2 DEF Merge, Rows, TypeOK
  <2> QED
    BY <1>1, <1>2, <1>5, <2>3 DEF UpdateSubscription
<1>6. CASE CreateSubscription(p)
  <2>1. dto.plan # None /\ dto.plan \in plans
    BY <1>6 DEF CreateSubscription, Known
  <2>2. New(dto) \in Rows /\ New(dto).plan \in plans
    BY <1>3, <2>1 DEF New, Rows, TypeOK, Statuses
  <2> QED
    BY <1>1, <1>2, <1>6, <2>2 DEF CreateSubscription
<1> QED
  BY <1>5, <1>6

LEMMA WrittenType ==
    ASSUME TypeOK, Known, NEW p \in Patches, UpdateSubscription(p) \/ CreateSubscription(p)
    PROVE  TypeOK'
<1>1. PICK row \in Rows : /\ Write(p, row) /\ row.plan \in plans
                          /\ patch[p].tenant \in tenants /\ patch[p].tenant \in Tenants
  BY WriteType
<1> DEFINE t == patch[p].tenant
<1>2. Copy(row) \in Copies
  BY CopyType
<1>3. /\ sub' = [sub EXCEPT ![t] = row]
      /\ patch' = [patch EXCEPT ![p] = [stage |-> "written", tenant |-> t, result |-> Copy(row)]]
      /\ spoiled' \in {spoiled \cup {t}, spoiled \ {t}}
      /\ UNCHANGED <<tenants, plans, modules, summary, edits, cache, gate>>
  BY <1>1 DEF Write
<1>4. patch' \in [Patches -> PatchStates]
  BY <1>1, <1>2, <1>3 DEF TypeOK, PatchStates
<1>5. sub' \in [Tenants -> Rows \cup {None}]
  BY <1>1, <1>3 DEF TypeOK
<1>6. \A u \in Tenants : sub'[u] # None => u \in tenants /\ sub'[u].plan \in plans
  BY <1>1, <1>3 DEF TypeOK
<1> QED
  BY <1>1, <1>3, <1>4, <1>5, <1>6 DEF TypeOK, PatchStates

\* Fills of tenant t are late from now on.
LateFills(t) ==
    [g \in Guards |-> IF gate[g].at = "read" /\ gate[g].tenant = t THEN [gate[g] EXCEPT !.late = TRUE]
                      ELSE gate[g]]

LEMMA LateFillsType ==
    ASSUME TypeOK, NEW t \in Tenants PROVE LateFills(t) \in [Guards -> GateStates]
<1> SUFFICES ASSUME NEW g \in Guards
             PROVE  (IF gate[g].at = "read" /\ gate[g].tenant = t THEN [gate[g] EXCEPT !.late = TRUE]
                     ELSE gate[g]) \in GateStates
  BY DEF LateFills
<1>1. CASE gate[g].at = "read"
  <2>1. gate[g] \in [at : {"read"}, tenant : Tenants, entry : Entries, late : BOOLEAN]
    BY <1>1, GateShape DEF GateStates
  <2>2. [gate[g] EXCEPT !.late = TRUE] \in [at : {"read"}, tenant : Tenants, entry : Entries, late : BOOLEAN]
    BY <2>1
  <2> QED
    BY <2>1, <2>2 DEF GateStates
<1>2. CASE gate[g].at # "read"
  BY <1>2, GateShape
<1> QED
  BY <1>1, <1>2

LEMMA DeleteType == ASSUME TypeOK, NEW p \in Patches, DeleteEntry(p) PROVE TypeOK'
<1> DEFINE t == patch[p].tenant
<1>1. patch[p] \in [stage : {"written", "deleted"}, tenant : Tenants, result : Copies]
  BY PatchShape DEF DeleteEntry, PatchStates
<1>2. /\ patch' = [patch EXCEPT ![p].stage = "deleted"]
      /\ cache' = [cache EXCEPT ![t] = None] /\ gate' = LateFills(t)
      /\ UNCHANGED <<tenants, plans, modules, sub, summary, edits, spoiled>>
  BY DEF DeleteEntry, LateFills, database
<1>3. patch'[p] \in [stage : {"written", "deleted"}, tenant : Tenants, result : Copies]
  BY <1>1, <1>2 DEF TypeOK
<1>4. patch' \in [Patches -> PatchStates]
  BY <1>2, <1>3 DEF TypeOK, PatchStates
<1>5. gate' \in [Guards -> GateStates]
  BY <1>1, <1>2, LateFillsType
<1>6. cache' \in [Tenants -> Cached \cup {None}]
  BY <1>2 DEF TypeOK
<1> QED
  BY <1>2, <1>4, <1>5, <1>6 DEF TypeOK, PatchStates, GateStates

LEMMA SummaryType == ASSUME TypeOK, NEW p \in Patches, WriteSummary(p) PROVE TypeOK'
<1>1. patch[p].tenant \in Tenants /\ patch[p].result \in Copies
  BY PatchShape DEF WriteSummary, Underway
<1>2. patch' \in [Patches -> PatchStates]
  BY <1>1 DEF TypeOK, WriteSummary, PatchStates
<1>3. summary' \in [Tenants -> Copies \cup {None}]
  BY <1>1 DEF TypeOK, WriteSummary
<1> QED
  BY <1>2, <1>3 DEF TypeOK, WriteSummary, PatchStates

\* The entry a PATCH died over is there as before, but marked.
LEMMA MarkedType ==
    ASSUME TypeOK, NEW t \in Tenants,
           cache' = [cache EXCEPT ![t] = IF @ = None THEN None ELSE [@ EXCEPT !.late = TRUE]]
    PROVE  cache' \in [Tenants -> Cached \cup {None}]
<1>1. CASE cache[t] = None
  BY <1>1 DEF TypeOK
<1>2. CASE cache[t] # None
  <2>1. cache[t] \in [entry : Entries, left : 1 .. TTL, late : BOOLEAN]
    BY <1>2 DEF TypeOK, Cached
  <2>2. [cache[t] EXCEPT !.late = TRUE] \in [entry : Entries, left : 1 .. TTL, late : BOOLEAN]
    BY <2>1
  <2> QED
    BY <1>2, <2>2 DEF TypeOK, Cached
<1> QED
  BY <1>1, <1>2

LEMMA FailPatchType == ASSUME TypeOK, NEW p \in Patches, FailPatch(p) PROVE TypeOK'
<1> DEFINE t == patch[p].tenant
<1>1. t \in Tenants
  BY PatchShape DEF FailPatch
<1>2. /\ patch' = [patch EXCEPT ![p] = [stage |-> "failed", tenant |-> t]]
      /\ spoiled' \in {spoiled, spoiled \cup {t}}
      /\ UNCHANGED <<tenants, plans, modules, sub, summary, edits>>
  BY DEF FailPatch, database
<1>3. \/ UNCHANGED <<cache, gate>>
      \/ /\ cache' = [cache EXCEPT ![t] = IF @ = None THEN None ELSE [@ EXCEPT !.late = TRUE]]
         /\ gate' = LateFills(t)
  BY DEF FailPatch, LateFills
<1>4. patch' \in [Patches -> PatchStates]
  BY <1>1, <1>2 DEF TypeOK, PatchStates
<1>5. gate' \in [Guards -> GateStates]
  BY <1>1, <1>3, LateFillsType DEF TypeOK, GateStates
<1>6. cache' \in [Tenants -> Cached \cup {None}]
  BY <1>1, <1>3, MarkedType DEF TypeOK
<1>7. spoiled' \subseteq Tenants
  BY <1>1, <1>2 DEF TypeOK
<1> QED
  BY <1>2, <1>4, <1>5, <1>6, <1>7 DEF TypeOK, PatchStates, GateStates

LEMMA GuardType ==
    ASSUME TypeOK, NEW g \in Guards,
           \/ \E t \in Tenants : Miss(g, t) \/ Hit(g, t)
           \/ Read(g) \/ Fill(g) \/ FailGuard(g)
    PROVE  TypeOK'
<1>1. ASSUME NEW t \in Tenants, Miss(g, t) PROVE TypeOK'
  <2>1. gate' \in [Guards -> GateStates]
    BY <1>1 DEF TypeOK, Miss, GateStates
  <2> QED
    BY <1>1, <2>1 DEF TypeOK, Miss, database, GateStates
<1>2. ASSUME NEW t \in Tenants, Hit(g, t) PROVE TypeOK'
  BY <1>2 DEF TypeOK, Hit, vars, database
<1>3. ASSUME Read(g) PROVE TypeOK'
  <2>1. gate[g].tenant \in Tenants
    BY <1>3, GateShape DEF Read
  <2>2. EntryOf(gate[g].tenant) \in Entries
    BY <2>1, EntryTells
  <2>3. gate' \in [Guards -> GateStates]
    BY <1>3, <2>1, <2>2 DEF TypeOK, Read, GateStates
  <2> QED
    BY <1>3, <2>3 DEF TypeOK, Read, database, GateStates
<1>4. ASSUME Fill(g) PROVE TypeOK'
  <2>1. gate[g].tenant \in Tenants /\ gate[g].entry \in Entries /\ gate[g].late \in BOOLEAN
    BY <1>4, GateShape DEF Fill
  <2>2. [entry |-> gate[g].entry, left |-> TTL, late |-> gate[g].late] \in Cached
    BY <2>1, TTLAssumption DEF Cached
  <2>3. cache' \in [Tenants -> Cached \cup {None}]
    BY <1>4, <2>2 DEF TypeOK, Fill
  <2>4. gate' \in [Guards -> GateStates]
    BY <1>4 DEF TypeOK, Fill, GateStates
  <2> QED
    BY <1>4, <2>3, <2>4 DEF TypeOK, Fill, database, GateStates
<1>5. ASSUME FailGuard(g) PROVE TypeOK'
  <2>1. gate' \in [Guards -> GateStates]
    BY <1>5 DEF TypeOK, FailGuard, GateStates
  <2> QED
    BY <1>5, <2>1 DEF TypeOK, FailGuard, database, GateStates
<1> QED
  BY <1>1, <1>2, <1>3, <1>4, <1>5

LEMMA TickType == ASSUME TypeOK, Tick PROVE TypeOK'
<1>1. ASSUME NEW t \in Tenants, cache[t] # None, cache[t].left # 1
      PROVE  [cache[t] EXCEPT !.left = @ - 1] \in Cached
  <2>1. cache[t] \in [entry : Entries, left : 1 .. TTL, late : BOOLEAN]
    BY <1>1 DEF TypeOK, Cached
  <2>2. cache[t].left - 1 \in 1 .. TTL
    BY <1>1, <2>1, TTLAssumption
  <2> QED
    BY <2>1, <2>2 DEF Cached
<1>2. cache' \in [Tenants -> Cached \cup {None}]
  BY <1>1 DEF Tick
<1> QED
  BY <1>2 DEF TypeOK, Tick, database

-----------------------------------------------------------------------------
(* The invariant. *)

\* A tenant that is created is one nobody knew.
LEMMA CreateStep ==
    ASSUME SubscriptionsInv, NEW t \in Tenants,
           CreateTenant(t) \/ \E p \in Plans : Onboard(t, p)
    PROVE  SubscriptionsInv'
<1> USE DEF SubscriptionsInv
<1>1. TypeOK'
  BY AdminType
<1>2. /\ t \notin tenants /\ tenants' = tenants \cup {t}
      /\ \A u \in Tenants : u # t => sub'[u] = sub[u] /\ summary'[u] = summary[u]
      /\ UNCHANGED <<plans, cache, gate, patch, spoiled>>
  BY DEF CreateTenant, Onboard, TypeOK
<1>3. sub[t] = None /\ cache[t] = None
  BY <1>2 DEF TypeOK, Known
<1>4. \A g \in Guards : gate[g].at # "idle" => gate[g].tenant # t
  BY <1>2 DEF Known
<1>5. \A p \in Patches : patch[p].tenant # t
  BY <1>2, NoneAssumption DEF Known
<1>6. Known'
  <2>1. \A p \in Patches : patch[p].stage = "present" => patch[p].tenant \in Tenants /\ sub'[patch[p].tenant] # None
    BY <1>2, <1>5, PatchShape DEF Known
  <2> QED
    BY <1>2, <2>1 DEF Known
<1>7. FillsTell'
  <2>1. \A g \in Guards : gate[g].at = "read" => gate[g].tenant \in Tenants /\ gate[g].tenant # t
    BY <1>4, GateShape
  <2> QED
    BY <1>2, <2>1 DEF FillsTell, Tells, Patched
<1>8. ResultsTell'
  <2>1. \A p \in Patches : Underway(p) => patch[p].tenant \in Tenants /\ patch[p].tenant # t
    BY <1>5, PatchShape
  <2> QED
    BY <1>2, <2>1 DEF ResultsTell, Underway
<1>9. StaleEntriesAreRaces'
  BY <1>2, <1>3 DEF StaleEntriesAreRaces, Tells, Patched
<1>10. SummaryTellsTheSubscription'
  <2>1. IF sub'[t] = None THEN summary'[t] = None
        ELSE summary'[t] # None /\ summary'[t].status = sub'[t].status /\ summary'[t].plan = sub'[t].plan
    <3>1. CASE CreateTenant(t)
      <4>1. summary[t] = None \/ t \in spoiled \/ \E p \in Patches : Patched(p, t) /\ Underway(p)
        BY <1>3 DEF SummaryTellsTheSubscription
      <4>2. t \notin spoiled
        BY <1>2 DEF Known
      <4> QED
        BY <1>3, <1>5, <3>1, <4>1, <4>2 DEF CreateTenant, Patched
    <3>2. ASSUME NEW p \in Plans, Onboard(t, p)
          PROVE  /\ sub'[t] # None /\ summary'[t] # None
                 /\ summary'[t].status = sub'[t].status /\ summary'[t].plan = sub'[t].plan
      <4> DEFINE row == [status |-> "active", plan |-> p]
      <4>1. row \in Rows
        BY DEF Rows, Statuses
      <4>2. summary'[t] = Copy(row) /\ sub'[t] = row
        BY <3>2 DEF Onboard, TypeOK
      <4> HIDE DEF row
      <4>3. row # None /\ Copy(row) # None
        BY <4>1, ThereIs
      <4>4. Copy(row).status = row.status /\ Copy(row).plan = row.plan
        BY DEF Copy
      <4> QED
        BY <4>2, <4>3, <4>4
    <3> QED
      BY <3>1, <3>2
  <2> QED
    BY <1>2, <2>1 DEF SummaryTellsTheSubscription, Patched, Underway
<1> QED
  BY <1>1, <1>6, <1>7, <1>8, <1>9, <1>10

LEMMA SavePlanStep ==
    ASSUME SubscriptionsInv, NEW p \in Plans, NEW m \in SUBSET Modules, SavePlan(p, m)
    PROVE  SubscriptionsInv'
<1>1. TypeOK'
  BY AdminType DEF SubscriptionsInv
<1>2. plans \subseteq plans' /\ UNCHANGED <<tenants, sub, summary, cache, gate, patch, spoiled>>
  BY DEF SavePlan
<1>3. Known'
  BY <1>2 DEF SubscriptionsInv, Known
<1>4. FillsTell' /\ ResultsTell'
  BY <1>2 DEF SubscriptionsInv, FillsTell, ResultsTell, Tells, Patched, Underway
<1>5. StaleEntriesAreRaces' /\ SummaryTellsTheSubscription'
  BY <1>2 DEF SubscriptionsInv, StaleEntriesAreRaces, SummaryTellsTheSubscription, Tells, Patched, Underway
<1> QED
  BY <1>1, <1>3, <1>4, <1>5 DEF SubscriptionsInv

\* A step of a PATCH before its commit moves that PATCH only.
LEMMA QuietStep ==
    ASSUME SubscriptionsInv, TypeOK', Known', NEW p \in Patches,
           ~ Underway(p), ~ Underway(p)',
           \A q \in Patches : q # p => patch'[q] = patch[q],
           UNCHANGED <<sub, summary, cache, gate, spoiled>>
    PROVE  SubscriptionsInv'
<1>1. \A q \in Patches : (Underway(q)' <=> Underway(q)) /\ (Underway(q) => patch'[q] = patch[q])
  BY DEF Underway
<1>2. \A q \in Patches, t \in Tenants :
        patch[q].stage = "written" /\ Patched(q, t) => patch'[q].stage = "written" /\ Patched(q, t)'
  BY <1>1 DEF Underway, Patched
<1>3. FillsTell'
  BY <1>2, GateShape DEF SubscriptionsInv, FillsTell, Tells
<1>4. ResultsTell'
  BY <1>1 DEF SubscriptionsInv, ResultsTell
<1>5. StaleEntriesAreRaces'
  BY <1>2 DEF SubscriptionsInv, StaleEntriesAreRaces, Tells
<1>6. SummaryTellsTheSubscription'
  BY <1>1 DEF SubscriptionsInv, SummaryTellsTheSubscription, Patched
<1> QED
  BY <1>3, <1>4, <1>5, <1>6 DEF SubscriptionsInv

LEMMA CheckStep ==
    ASSUME SubscriptionsInv, NEW p \in Patches, NEW t \in Tenants, NEW dto \in Dtos, Check(p, t, dto)
    PROVE  SubscriptionsInv'
<1>1. TypeOK'
  BY CheckType DEF SubscriptionsInv
<1>2. patch'[p] = IF t \in tenants /\ (dto.plan # None => dto.plan \in plans)
                  THEN [stage |-> "checked", tenant |-> t, dto |-> dto]
                  ELSE [stage |-> "refused", tenant |-> None]
  BY DEF SubscriptionsInv, TypeOK, Check
<1>3. /\ \A q \in Patches : q # p => patch'[q] = patch[q]
      /\ UNCHANGED <<tenants, plans, sub, summary, cache, gate, spoiled>>
  BY DEF SubscriptionsInv, TypeOK, Check, database
<1>4. ~ Underway(p) /\ ~ Underway(p)'
  BY <1>2 DEF Check, Underway
<1>5. Known'
  <2>1. patch'[p].tenant # None => patch'[p].tenant \in tenants
    BY <1>2
  <2>2. patch'[p].stage \in {"checked", "refused"} /\
        (patch'[p].stage = "checked" => (patch'[p].dto.plan # None => patch'[p].dto.plan \in plans))
    BY <1>2
  <2> QED
    BY <1>3, <2>1, <2>2 DEF SubscriptionsInv, Known
<1> QED
  BY <1>1, <1>3, <1>4, <1>5, QuietStep

LEMMA FindStep ==
    ASSUME SubscriptionsInv, NEW p \in Patches, FindSubscription(p) PROVE SubscriptionsInv'
<1>1. TypeOK'
  BY FindType DEF SubscriptionsInv
<1>2. patch[p] \in [stage : {"checked", "absent", "present", "refused"}, tenant : Tenants, dto : Dtos]
  BY PatchShape DEF SubscriptionsInv, FindSubscription, PatchStates
<1>3. /\ patch'[p].tenant = patch[p].tenant /\ patch'[p].dto = patch[p].dto
      /\ patch'[p].stage = IF sub[patch[p].tenant] # None THEN "present"
                           ELSE IF patch[p].dto.plan # None THEN "absent" ELSE "refused"
  BY <1>2 DEF SubscriptionsInv, TypeOK, FindSubscription
<1>4. /\ \A q \in Patches : q # p => patch'[q] = patch[q]
      /\ UNCHANGED <<tenants, plans, sub, summary, cache, gate, spoiled>>
  BY DEF SubscriptionsInv, TypeOK, FindSubscription, database
<1>5. ~ Underway(p) /\ ~ Underway(p)'
  BY <1>3 DEF FindSubscription, Underway
<1>6. Known'
  BY <1>3, <1>4 DEF SubscriptionsInv, Known, FindSubscription
<1> QED
  BY <1>1, <1>4, <1>5, <1>6, QuietStep

\* The commit: what the others hold of this tenant is now of the past, and this
\* PATCH is there to answer for it; where it found another underway, the tenant
\* is spoiled.
LEMMA WriteStep ==
    ASSUME SubscriptionsInv, NEW p \in Patches, UpdateSubscription(p) \/ CreateSubscription(p)
    PROVE  SubscriptionsInv'
<1> USE DEF SubscriptionsInv
<1> DEFINE t == patch[p].tenant
<1>1. TypeOK'
  BY WrittenType
<1>2. PICK row \in Rows : Write(p, row) /\ t \in tenants /\ t \in Tenants
  BY WriteType
<1>3. row # None /\ Copy(row).status = row.status /\ Copy(row).plan = row.plan
  BY ThereIs DEF Copy
<1>4. /\ sub'[t] = row
      /\ \A u \in Tenants : u # t => sub'[u] = sub[u]
      /\ patch'[p] = [stage |-> "written", tenant |-> t, result |-> Copy(row)]
      /\ \A q \in Patches : q # p => patch'[q] = patch[q]
      /\ spoiled' = IF \E q \in Patches : Underway(q) /\ Patched(q, t)
                    THEN spoiled \cup {t} ELSE spoiled \ {t}
      /\ UNCHANGED <<tenants, plans, summary, cache, gate>>
  BY <1>2 DEF TypeOK, Write
<1>5. patch'[p].stage = "written" /\ Patched(p, t)' /\ Underway(p)'
  BY <1>4 DEF Patched, Underway
<1>6. \A q \in Patches, u \in Tenants : u # t /\ Patched(q, u) => q # p /\ patch'[q] = patch[q]
  BY <1>4 DEF Patched
<1>7. Known'
  <2>1. spoiled' \subseteq tenants'
    BY <1>2, <1>4 DEF Known
  <2>2. \A q \in Patches : patch'[q].tenant # None => patch'[q].tenant \in tenants'
    BY <1>2, <1>4 DEF Known
  <2>3. \A q \in Patches : patch'[q].stage \in {"checked", "absent", "present"} =>
            /\ patch'[q] = patch[q] /\ patch[q].tenant \in Tenants
            /\ sub[patch[q].tenant] # None => sub'[patch[q].tenant] # None
    <3> SUFFICES ASSUME NEW q \in Patches, patch'[q].stage \in {"checked", "absent", "present"}
                 PROVE  /\ patch'[q] = patch[q] /\ patch[q].tenant \in Tenants
                        /\ sub[patch[q].tenant] # None => sub'[patch[q].tenant] # None
      OBVIOUS
    <3>1. q # p /\ patch'[q] = patch[q]
      BY <1>4
    <3>2. patch[q].tenant \in Tenants
      BY <3>1, PatchShape
    <3> QED
      BY <1>3, <1>4, <3>1, <3>2
  <2> QED
    BY <1>4, <2>1, <2>2, <2>3 DEF Known
<1>8. FillsTell'
  <2> SUFFICES ASSUME NEW g \in Guards, gate[g].at = "read"
               PROVE  \/ Tells(gate[g].entry, gate[g].tenant)'
                      \/ gate[g].late
                      \/ \E q \in Patches : (patch[q].stage = "written" /\ Patched(q, gate[g].tenant))'
    BY <1>4 DEF FillsTell
  <2>1. CASE gate[g].tenant = t
    BY <1>4, <1>5, <2>1
  <2>2. CASE gate[g].tenant # t
    BY <1>4, <1>6, <2>2, GateShape DEF FillsTell, Tells, Patched
  <2> QED
    BY <2>1, <2>2
<1>9. ResultsTell'
  <2> SUFFICES ASSUME NEW q \in Patches, Underway(q)', patch'[q].tenant \notin spoiled'
               PROVE  LET r == sub'[patch'[q].tenant] IN
                      r # None /\ patch'[q].result.status = r.status /\ patch'[q].result.plan = r.plan
    BY DEF ResultsTell
  <2>1. CASE q = p
    BY <1>3, <1>4, <2>1
  <2>2. CASE q # p
    <3>1. patch'[q] = patch[q] /\ Underway(q)
      BY <1>4, <2>2 DEF Underway
    <3>2. patch[q].tenant # t
      BY <1>4, <3>1 DEF Patched
    <3> QED
      BY <1>4, <3>1, <3>2, PatchShape DEF ResultsTell
  <2> QED
    BY <2>1, <2>2
<1>10. StaleEntriesAreRaces'
  BY <1>4, <1>5, <1>6 DEF StaleEntriesAreRaces, Tells, Patched
<1>11. SummaryTellsTheSubscription'
  BY <1>4, <1>5, <1>6 DEF SummaryTellsTheSubscription, Patched, Underway
<1> QED
  BY <1>1, <1>7, <1>8, <1>9, <1>10, <1>11

\* The entry goes, and every fill of the tenant that is still to come is late.
LEMMA DeleteStep == ASSUME SubscriptionsInv, NEW p \in Patches, DeleteEntry(p) PROVE SubscriptionsInv'
<1> USE DEF SubscriptionsInv
<1> DEFINE t == patch[p].tenant
<1>1. TypeOK'
  BY DeleteType
<1>2. patch[p] \in [stage : {"written", "deleted"}, tenant : Tenants, result : Copies]
  BY PatchShape DEF DeleteEntry, PatchStates
<1>3. /\ patch'[p] = [patch[p] EXCEPT !.stage = "deleted"]
      /\ \A q \in Patches : q # p => patch'[q] = patch[q]
      /\ cache'[t] = None /\ \A u \in Tenants : u # t => cache'[u] = cache[u]
      /\ gate' = LateFills(t)
      /\ UNCHANGED <<tenants, plans, sub, summary, spoiled>>
  BY <1>2 DEF TypeOK, DeleteEntry, LateFills, database
<1>4. patch'[p].stage = "deleted" /\ patch'[p].tenant = t /\ patch'[p].result = patch[p].result
  BY <1>2, <1>3
<1>5. \A q \in Patches, u \in Tenants : u # t /\ Patched(q, u) => patch'[q] = patch[q]
  BY <1>3 DEF Patched
<1>6. \A g \in Guards :
        gate'[g] = IF gate[g].at = "read" /\ gate[g].tenant = t THEN [gate[g] EXCEPT !.late = TRUE]
                   ELSE gate[g]
  BY <1>3 DEF LateFills
<1>7. \A g \in Guards : gate[g].at = "read" =>
        [gate[g] EXCEPT !.late = TRUE].at = gate[g].at /\ [gate[g] EXCEPT !.late = TRUE].tenant = gate[g].tenant
                                                /\ [gate[g] EXCEPT !.late = TRUE].late = TRUE
  <2> TAKE g \in Guards
  <2> HAVE gate[g].at = "read"
  <2>1. gate[g] \in [at : {"read"}, tenant : Tenants, entry : Entries, late : BOOLEAN]
    BY GateShape DEF GateStates
  <2> QED
    BY <2>1
<1>8. Known'
  BY <1>3, <1>4, <1>6, <1>7 DEF Known, DeleteEntry
<1>9. FillsTell'
  <2> SUFFICES ASSUME NEW g \in Guards, gate'[g].at = "read"
               PROVE  \/ Tells(gate[g].entry, gate[g].tenant)'
                      \/ gate'[g].late
                      \/ \E q \in Patches : (patch[q].stage = "written" /\ Patched(q, gate[g].tenant))'
    BY DEF FillsTell
  <2>1. gate[g].at = "read"
    BY <1>6, <1>7
  <2>2. CASE gate[g].tenant = t
    BY <1>6, <1>7, <2>1, <2>2
  <2>3. CASE gate[g].tenant # t
    <3>1. gate'[g] = gate[g]
      BY <1>6, <2>3
    <3> QED
      BY <1>3, <1>5, <2>1, <2>3, <3>1, GateShape DEF FillsTell, Tells, Patched
  <2> QED
    BY <2>2, <2>3
<1>10. ResultsTell'
  BY <1>3, <1>4 DEF ResultsTell, Underway, DeleteEntry
<1>11. StaleEntriesAreRaces'
  BY <1>3, <1>5 DEF StaleEntriesAreRaces, Tells, Patched
<1>12. SummaryTellsTheSubscription'
  BY <1>3, <1>4, <1>5 DEF SummaryTellsTheSubscription, Patched, Underway
<1> QED
  BY <1>1, <1>8, <1>9, <1>10, <1>11, <1>12

\* The copy is that of the PATCH that comes last to write it.
LEMMA SummaryStep == ASSUME SubscriptionsInv, NEW p \in Patches, WriteSummary(p) PROVE SubscriptionsInv'
<1> USE DEF SubscriptionsInv
<1> DEFINE t == patch[p].tenant
<1>1. TypeOK'
  BY SummaryType
<1>2. t \in Tenants /\ patch[p].result \in Copies /\ Underway(p)
  BY PatchShape DEF WriteSummary, Underway
<1>3. /\ patch'[p] = [stage |-> "done", tenant |-> t]
      /\ \A q \in Patches : q # p => patch'[q] = patch[q]
      /\ summary'[t] = patch[p].result /\ \A u \in Tenants : u # t => summary'[u] = summary[u]
      /\ UNCHANGED <<tenants, plans, sub, cache, gate, spoiled>>
  BY <1>2 DEF TypeOK, WriteSummary
<1>4. \A q \in Patches, u \in Tenants :
        patch[q].stage = "written" /\ Patched(q, u) => patch'[q].stage = "written" /\ Patched(q, u)'
  BY <1>3 DEF WriteSummary, Patched
<1>5. \A q \in Patches, u \in Tenants : u # t /\ Patched(q, u) => patch'[q] = patch[q]
  BY <1>3 DEF Patched
<1>6. Known'
  BY <1>3 DEF Known, WriteSummary
<1>7. FillsTell'
  BY <1>3, <1>4, GateShape DEF FillsTell, Tells
<1>8. ResultsTell'
  BY <1>3 DEF ResultsTell, Underway
<1>9. StaleEntriesAreRaces'
  BY <1>3, <1>4 DEF StaleEntriesAreRaces, Tells
<1>10. SummaryTellsTheSubscription'
  <2> SUFFICES ASSUME NEW u \in Tenants, u \notin spoiled
               PROVE  \/ IF sub[u] = None THEN summary'[u] = None
                         ELSE summary'[u] # None /\ summary'[u].status = sub[u].status
                                                 /\ summary'[u].plan = sub[u].plan
                      \/ \E q \in Patches : Patched(q, u)' /\ Underway(q)'
    BY <1>3 DEF SummaryTellsTheSubscription
  <2>1. CASE u = t
    <3>1. patch[p].result # None
      BY <1>2, NoneAssumption
    <3> QED
      BY <1>2, <1>3, <2>1, <3>1 DEF ResultsTell
  <2>2. CASE u # t
    BY <1>3, <1>5, <2>2 DEF SummaryTellsTheSubscription, Patched, Underway
  <2> QED
    BY <2>1, <2>2
<1> QED
  BY <1>1, <1>6, <1>7, <1>8, <1>9, <1>10

\* Before the commit a failure leaves nothing; after it, marks for what is left.
LEMMA FailPatchStep == ASSUME SubscriptionsInv, NEW p \in Patches, FailPatch(p) PROVE SubscriptionsInv'
<1> USE DEF SubscriptionsInv
<1> DEFINE t == patch[p].tenant
<1>1. TypeOK'
  BY FailPatchType
<1>2. t \in Tenants
  BY PatchShape DEF FailPatch
<1>3. t \in tenants
  BY <1>2, NoneAssumption DEF Known
<1>4. /\ patch'[p] = [stage |-> "failed", tenant |-> t]
      /\ \A q \in Patches : q # p => patch'[q] = patch[q]
      /\ UNCHANGED <<tenants, plans, sub, summary>>
  BY DEF TypeOK, FailPatch, database
<1>5. CASE ~ Underway(p)
  <2>1. UNCHANGED <<cache, gate, spoiled>>
    BY <1>5 DEF FailPatch
  <2>2. ~ Underway(p)'
    BY <1>4 DEF Underway
  <2>3. Known'
    BY <1>3, <1>4, <2>1 DEF Known
  <2> QED
    BY <1>1, <1>4, <1>5, <2>1, <2>2, <2>3, QuietStep
<1>6. CASE Underway(p)
  <2>1. /\ spoiled' = spoiled \cup {t}
        /\ \/ /\ patch[p].stage = "written"
              /\ cache' = [cache EXCEPT ![t] = IF @ = None THEN None ELSE [@ EXCEPT !.late = TRUE]]
              /\ gate' = LateFills(t)
           \/ patch[p].stage = "deleted" /\ UNCHANGED <<cache, gate>>
    BY <1>6 DEF FailPatch, Underway, LateFills
  <2>2. \A q \in Patches, u \in Tenants : u # t /\ Patched(q, u) => patch'[q] = patch[q]
    BY <1>4 DEF Patched
  <2>3. /\ \A u \in Tenants : u # t => cache'[u] = cache[u]
        /\ \A u \in Tenants : cache'[u] # None => cache[u] # None
    BY <2>1 DEF TypeOK
  <2>4. cache'[t] = None \/ cache'[t].late \/ (patch[p].stage = "deleted" /\ cache'[t] = cache[t])
    <3>1. CASE patch[p].stage = "written" /\ cache[t] # None
      <4>1. cache[t] \in [entry : Entries, left : 1 .. TTL, late : BOOLEAN]
        BY <1>2, <3>1 DEF TypeOK, Cached
      <4>2. cache'[t] = [cache[t] EXCEPT !.late = TRUE]
        BY <1>2, <2>1, <3>1 DEF TypeOK
      <4>3. [cache[t] EXCEPT !.late = TRUE].late = TRUE
        BY <4>1
      <4>4. cache'[t].late = TRUE
        BY <4>2, <4>3
      <4> QED
        BY <4>4
    <3>2. CASE patch[p].stage = "written" /\ cache[t] = None
      BY <2>3, <3>2, <1>2
    <3>3. CASE patch[p].stage = "deleted"
      BY <2>1, <3>3
    <3> QED
      BY <1>6, <3>1, <3>2, <3>3 DEF Underway
  <2>5. \A g \in Guards :
            IF patch[p].stage = "written" /\ gate[g].at = "read" /\ gate[g].tenant = t
            THEN gate'[g].at = "read" /\ gate'[g].tenant = t /\ gate'[g].late
            ELSE gate'[g] = gate[g]
    <3> TAKE g \in Guards
    <3>1. ASSUME gate[g].at = "read"
          PROVE  /\ [gate[g] EXCEPT !.late = TRUE].at = gate[g].at
                 /\ [gate[g] EXCEPT !.late = TRUE].tenant = gate[g].tenant
                 /\ [gate[g] EXCEPT !.late = TRUE].late = TRUE
      <4>1. gate[g] \in [at : {"read"}, tenant : Tenants, entry : Entries, late : BOOLEAN]
        BY <3>1, GateShape DEF GateStates
      <4> QED
        BY <4>1
    <3> QED
      BY <2>1, <3>1 DEF LateFills
  <2>6. \A g \in Guards : gate'[g].at = "read" /\ gate'[g].tenant = t =>
            gate'[g].late \/ (patch[p].stage = "deleted" /\ gate'[g] = gate[g])
    <3> TAKE g \in Guards
    <3> HAVE gate'[g].at = "read" /\ gate'[g].tenant = t
    <3>1. CASE patch[p].stage = "written" /\ gate[g].at = "read" /\ gate[g].tenant = t
      BY <2>5, <3>1
    <3>2. CASE ~ (patch[p].stage = "written" /\ gate[g].at = "read" /\ gate[g].tenant = t)
      <4>1. gate'[g] = gate[g]
        BY <2>5, <3>2
      <4> QED
        BY <1>6, <3>2, <4>1 DEF Underway
    <3> QED
      BY <3>1, <3>2
  <2>7. Known'
    <3>1. spoiled' \subseteq tenants' /\ \A u \in Tenants : cache'[u] # None => u \in tenants'
      BY <1>3, <1>4, <2>1, <2>3 DEF Known
    <3>2. \A g \in Guards : gate'[g].at # "idle" => gate'[g].tenant \in tenants'
      BY <1>3, <1>4, <2>5 DEF Known
    <3>3. \A q \in Patches : patch'[q].tenant # None => patch'[q].tenant \in tenants'
      BY <1>3, <1>4 DEF Known
    <3> QED
      BY <1>4, <3>1, <3>2, <3>3 DEF Known
  <2>8. FillsTell'
    <3> SUFFICES ASSUME NEW g \in Guards, gate'[g].at = "read"
                 PROVE  \/ Tells(gate[g].entry, gate[g].tenant)'
                        \/ gate'[g].late
                        \/ \E q \in Patches : (patch[q].stage = "written" /\ Patched(q, gate[g].tenant))'
      BY DEF FillsTell
    <3>1. CASE gate'[g] # gate[g]
      BY <2>5, <3>1
    <3>2. CASE gate'[g] = gate[g] /\ gate[g].tenant = t
      <4>1. gate'[g].late \/ patch[p].stage = "deleted"
        BY <2>6, <3>2
      <4>2. \A q \in Patches : patch[p].stage = "deleted" /\ patch[q].stage = "written" => patch'[q] = patch[q]
        BY <1>4
      <4> QED
        BY <1>4, <3>2, <4>1, <4>2 DEF FillsTell, Tells, Patched
    <3>3. CASE gate'[g] = gate[g] /\ gate[g].tenant # t
      BY <1>4, <2>2, <3>3, GateShape DEF FillsTell, Tells, Patched
    <3> QED
      BY <3>1, <3>2, <3>3
  <2>9. ResultsTell'
    BY <1>4, <2>1 DEF ResultsTell, Underway
  <2>10. StaleEntriesAreRaces'
    <3> SUFFICES ASSUME NEW u \in Tenants, cache'[u] # None
                 PROVE  \/ Tells(cache[u].entry, u)'
                        \/ cache'[u].late
                        \/ \E q \in Patches : (patch[q].stage = "written" /\ Patched(q, u))'
      BY DEF StaleEntriesAreRaces
    <3>1. CASE u = t
      <4>1. \A q \in Patches : patch[p].stage = "deleted" /\ patch[q].stage = "written" => patch'[q] = patch[q]
        BY <1>4
      <4> QED
        BY <1>4, <2>4, <3>1, <4>1 DEF StaleEntriesAreRaces, Tells, Patched
    <3>2. CASE u # t
      BY <1>4, <2>2, <2>3, <3>2 DEF StaleEntriesAreRaces, Tells, Patched
    <3> QED
      BY <3>1, <3>2
  <2>11. SummaryTellsTheSubscription'
    BY <1>4, <2>1, <2>2 DEF SummaryTellsTheSubscription, Patched, Underway
  <2> QED
    BY <1>1, <2>7, <2>8, <2>9, <2>10, <2>11
<1> QED
  BY <1>5, <1>6

\* The gate changes nothing but its entries, and fills with what it read.
LEMMA GuardStep ==
    ASSUME SubscriptionsInv, NEW g \in Guards,
           \/ \E t \in Tenants : Miss(g, t) \/ Hit(g, t)
           \/ Read(g) \/ Fill(g) \/ FailGuard(g)
    PROVE  SubscriptionsInv'
<1> USE DEF SubscriptionsInv
<1>1. TypeOK'
  BY GuardType
<1>2. UNCHANGED <<database, patch, spoiled>> /\ \A h \in Guards : h # g => gate'[h] = gate[h]
  BY DEF Miss, Hit, Read, Fill, FailGuard, vars, TypeOK
<1>3. UNCHANGED <<tenants, plans, sub, summary, patch, spoiled>>
  BY <1>2 DEF database
<1>4. ResultsTell' /\ SummaryTellsTheSubscription'
  BY <1>3 DEF ResultsTell, SummaryTellsTheSubscription, Patched, Underway
<1>5. ASSUME UNCHANGED cache, gate'[g].at = "idle" \/ gate'[g] = gate[g] PROVE SubscriptionsInv'
  <2>1. Known'
    BY <1>2, <1>3, <1>5 DEF Known
  <2>2. FillsTell'
    BY <1>2, <1>3, <1>5 DEF FillsTell, Tells, Patched
  <2>3. StaleEntriesAreRaces'
    BY <1>3, <1>5 DEF StaleEntriesAreRaces, Tells, Patched
  <2> QED
    BY <1>1, <1>4, <2>1, <2>2, <2>3
<1>6. ASSUME NEW t \in Tenants, Miss(g, t) PROVE SubscriptionsInv'
  <2>1. gate'[g] = [at |-> "missed", tenant |-> t] /\ t \in tenants /\ UNCHANGED cache
    BY <1>6 DEF Miss, TypeOK
  <2>2. Known'
    BY <1>2, <1>3, <2>1 DEF Known
  <2>3. FillsTell'
    BY <1>2, <1>3, <2>1 DEF FillsTell, Tells, Patched
  <2>4. StaleEntriesAreRaces'
    BY <1>3, <2>1 DEF StaleEntriesAreRaces, Tells, Patched
  <2> QED
    BY <1>1, <1>4, <2>2, <2>3, <2>4
<1>7. ASSUME NEW t \in Tenants, Hit(g, t) PROVE SubscriptionsInv'
  BY <1>5, <1>7 DEF Hit, vars
<1>8. ASSUME Read(g) PROVE SubscriptionsInv'
  <2> DEFINE t == gate[g].tenant
  <2>1. t \in Tenants /\ t \in tenants
    BY <1>8, GateShape DEF Read, Known
  <2>2. /\ gate'[g] = [at |-> "read", tenant |-> t, entry |-> EntryOf(t), late |-> FALSE]
        /\ UNCHANGED cache
    BY <1>8 DEF Read, TypeOK
  <2>3. Tells(EntryOf(t), t)
    BY <2>1, EntryTells
  <2>4. gate'[g].tenant = t /\ gate'[g].entry = EntryOf(t)
    BY <2>2
  <2>5. Known'
    BY <1>2, <1>3, <2>1, <2>2, <2>4 DEF Known
  <2>6. FillsTell'
    <3>1. Tells(gate[g].entry, gate[g].tenant)'
      BY <1>3, <2>3, <2>4 DEF Tells
    <3> QED
      BY <1>2, <1>3, <3>1 DEF FillsTell, Tells, Patched
  <2>7. StaleEntriesAreRaces'
    BY <1>3, <2>2 DEF StaleEntriesAreRaces, Tells, Patched
  <2> QED
    BY <1>1, <1>4, <2>5, <2>6, <2>7
<1>9. ASSUME Fill(g) PROVE SubscriptionsInv'
  <2> DEFINE t == gate[g].tenant
  <2>1. t \in Tenants /\ t \in tenants
    BY <1>9, GateShape DEF Fill, Known
  <2>2. /\ gate'[g].at = "idle" /\ gate[g].at = "read"
        /\ cache'[t] = [entry |-> gate[g].entry, left |-> TTL, late |-> gate[g].late]
        /\ \A u \in Tenants : u # t => cache'[u] = cache[u]
    BY <1>9, <2>1 DEF Fill, TypeOK
  <2>3. cache'[t].entry = gate[g].entry /\ cache'[t].late = gate[g].late
    BY <2>2
  <2>4. Known'
    BY <1>2, <1>3, <2>1, <2>2 DEF Known
  <2>5. FillsTell'
    BY <1>2, <1>3, <2>2 DEF FillsTell, Tells, Patched
  <2>6. StaleEntriesAreRaces'
    <3> SUFFICES ASSUME NEW u \in Tenants, cache'[u] # None
                 PROVE  \/ Tells(cache[u].entry, u)'
                        \/ cache'[u].late
                        \/ \E q \in Patches : (patch[q].stage = "written" /\ Patched(q, u))'
      BY DEF StaleEntriesAreRaces
    <3>1. CASE u = t
      BY <1>3, <2>2, <2>3, <3>1 DEF FillsTell, Tells, Patched
    <3>2. CASE u # t
      BY <1>3, <2>2, <3>2 DEF StaleEntriesAreRaces, Tells, Patched
    <3> QED
      BY <3>1, <3>2
  <2> QED
    BY <1>1, <1>4, <2>4, <2>5, <2>6
<1>10. ASSUME FailGuard(g) PROVE SubscriptionsInv'
  BY <1>5, <1>10 DEF FailGuard, TypeOK
<1> QED
  BY <1>6, <1>7, <1>8, <1>9, <1>10

\* Time takes entries away and changes none in what it says.
LEMMA TickStep == ASSUME SubscriptionsInv, Tick PROVE SubscriptionsInv'
<1> USE DEF SubscriptionsInv
<1>1. TypeOK'
  BY TickType
<1>2. UNCHANGED <<tenants, plans, sub, summary, gate, patch, spoiled>>
  BY DEF Tick, database
<1>3. \A t \in Tenants : cache'[t] # None =>
        cache[t] # None /\ cache'[t].entry = cache[t].entry /\ cache'[t].late = cache[t].late
  <2> SUFFICES ASSUME NEW t \in Tenants, cache'[t] # None
               PROVE  cache[t] # None /\ cache'[t].entry = cache[t].entry /\ cache'[t].late = cache[t].late
    OBVIOUS
  <2>1. cache[t] # None /\ cache'[t] = [cache[t] EXCEPT !.left = @ - 1]
    BY DEF Tick
  <2>2. cache[t] \in [entry : Entries, left : 1 .. TTL, late : BOOLEAN]
    BY <2>1 DEF TypeOK, Cached
  <2> QED
    BY <2>1, <2>2
<1>4. Known'
  BY <1>2, <1>3 DEF Known
<1>5. FillsTell' /\ ResultsTell' /\ SummaryTellsTheSubscription'
  BY <1>2 DEF FillsTell, ResultsTell, SummaryTellsTheSubscription, Tells, Patched, Underway
<1>6. StaleEntriesAreRaces'
  BY <1>2, <1>3 DEF StaleEntriesAreRaces, Tells, Patched
<1> QED
  BY <1>1, <1>4, <1>5, <1>6

LEMMA SubscriptionsNext == SubscriptionsInv /\ [Next]_vars => SubscriptionsInv'
<1> SUFFICES ASSUME SubscriptionsInv, [Next]_vars PROVE SubscriptionsInv'
  OBVIOUS
<1>1. ASSUME NEW t \in Tenants, CreateTenant(t) \/ \E p \in Plans : Onboard(t, p)
      PROVE  SubscriptionsInv'
  BY <1>1, CreateStep
<1>2. ASSUME NEW p \in Plans, NEW m \in SUBSET Modules, SavePlan(p, m) PROVE SubscriptionsInv'
  BY <1>2, SavePlanStep
<1>3. ASSUME NEW p \in Patches, NEW t \in Tenants, NEW dto \in Dtos, Check(p, t, dto)
      PROVE  SubscriptionsInv'
  BY <1>3, CheckStep
<1>4. ASSUME NEW p \in Patches, PatchStep(p) \/ FailPatch(p) PROVE SubscriptionsInv'
  BY <1>4, FindStep, WriteStep, DeleteStep, SummaryStep, FailPatchStep DEF PatchStep
<1>5. ASSUME NEW g \in Guards,
             \/ \E t \in Tenants : Miss(g, t) \/ Hit(g, t)
             \/ Read(g) \/ Fill(g) \/ FailGuard(g)
      PROVE  SubscriptionsInv'
  BY <1>5, GuardStep
<1>6. CASE Tick
  BY <1>6, TickStep
<1>7. CASE UNCHANGED vars
  <2>1. UNCHANGED <<tenants, plans, modules, sub, summary, edits, cache, gate, patch, spoiled>>
    BY <1>7 DEF vars, database
  <2>2. TypeOK' /\ Known' /\ FillsTell'
    BY <2>1 DEF SubscriptionsInv, TypeOK, Known, FillsTell, Tells, Patched
  <2>3. ResultsTell' /\ StaleEntriesAreRaces' /\ SummaryTellsTheSubscription'
    BY <2>1 DEF SubscriptionsInv, ResultsTell, StaleEntriesAreRaces, SummaryTellsTheSubscription,
                Tells, Patched, Underway
  <2> QED
    BY <2>2, <2>3 DEF SubscriptionsInv
<1> QED
  BY <1>1, <1>2, <1>3, <1>4, <1>5, <1>6, <1>7 DEF Next

LEMMA SubscriptionsAlways == Spec => []SubscriptionsInv
BY SubscriptionsInit, SubscriptionsNext, PTL DEF Spec

-----------------------------------------------------------------------------
\* Every variable has its type: a subscription is always that of a tenant that
\* exists, to a plan that exists (TypeOK).
THEOREM SubscriptionTypes == Spec => []TypeOK
<1>1. SubscriptionsInv => TypeOK
  BY DEF SubscriptionsInv
<1> QED
  BY <1>1, SubscriptionsAlways, PTL

\* An entry of the gate that tells another subscription than the database is one
\* of the races that its TTL is there for: ModuleGuard.resolveEntry between its
\* read and its fill, or upsertForTenant between its commit and its deletion.
THEOREM StaleEntries == Spec => []StaleEntriesAreRaces
<1>1. SubscriptionsInv => StaleEntriesAreRaces
  BY DEF SubscriptionsInv
<1> QED
  BY <1>1, SubscriptionsAlways, PTL

\* The copy on the tenant tells the subscription, unless a PATCH has yet to write
\* it or several crossed or died (upsertForTenant after its transaction).
THEOREM Summaries == Spec => []SummaryTellsTheSubscription
<1>1. SubscriptionsInv => SummaryTellsTheSubscription
  BY DEF SubscriptionsInv
<1> QED
  BY <1>1, SubscriptionsAlways, PTL

=============================================================================
