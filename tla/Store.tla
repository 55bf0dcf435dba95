--------------------------------- MODULE Store ---------------------------------
(***************************************************************************)
(* The pizzeria as a row of tenants, of which the model has isOpen.        *)
(* The panel writes it with PATCH /tenants/me, from the switch             *)
(* (StoreOpenToggle) and from the settings; the public page reads it       *)
(* through a cache; the audit log has each opening and closing.            *)
(*                                                                         *)
(* updateMe is four steps without a transaction around them: read the row, *)
(* update it, delete the cache entry, write the log if what it read first  *)
(* is not what was asked for.  The panel's own copy, mockTenant, is what   *)
(* the last answer said; the switch copies it when it is mounted, and never*)
(* again.                                                                  *)
(***************************************************************************)
CONSTANTS
    Patches,    \* slots: PATCHes under way
    Readers,    \* slots: GETs of the public page that missed the cache
    Unsaid


VARIABLES
    isOpen,     \* tenants.is_open
    branding,   \* the cache entry (Unsaid: none)
    told,       \* what the last entry of the log says
    patches,
    readers,
    mock,       \* the panel's mockTenant.isOpen
    screen,     \* the component mounted
    clashed,    \* history: PATCHes of isOpen crossed or died before the log
    misled      \* history: the panel may not know what the row is

server == <<isOpen, branding, told, readers, clashed>>
panel == <<mock, screen>>
storeVars == <<server, patches, panel, misled>>

Idle == [at |-> "idle"]
Deciding == {"read", "updated", "deleted"}
Applied == {"updated", "deleted", "done"}

Said == BOOLEAN \cup {Unsaid}

\* A PATCH: what it asks, the row it read and the row it wrote (Unsaid: not yet), whether
\* this panel sent it and whether the component that did is still there.
PatchesUnderWay ==
    [at : {"sent"} \cup Deciding \cup Applied, dto : Said, was : Said, row : Said,
     mine : BOOLEAN, live : BOOLEAN]
Entries == [row : BOOLEAN, late : BOOLEAN]
Misses == [at : {"missed"}] \cup [at : {"read"}, row : BOOLEAN, late : BOOLEAN]
Screens == [name : {"switch"}, isOpen : BOOLEAN, busy : BOOLEAN] \cup
           [name : {"settings"}, isOpen : {Unsaid}, busy : BOOLEAN]

ASSUME UnsaidAssumption == Unsaid \notin BOOLEAN \cup Entries

Others(k, stages) == {q \in Patches \ {k} : patches[q].at \in stages}
Asks(k) == patches[k].dto # Unsaid

Mounted(name) ==
    [name |-> name, isOpen |-> IF name = "switch" THEN mock ELSE Unsaid, busy |-> FALSE]

StoreInit ==
    /\ isOpen \in BOOLEAN
    /\ branding = Unsaid
    /\ told = isOpen
    /\ patches = [k \in Patches |-> Idle]
    /\ readers = [r \in Readers |-> Idle]
    /\ mock = isOpen
    /\ screen = Mounted("switch")
    /\ clashed = FALSE /\ misled = FALSE

-----------------------------------------------------------------------------
\* The page is loaded again.
Boot ==
    /\ mock' = isOpen
    /\ screen' = [name |-> "switch", isOpen |-> isOpen, busy |-> FALSE]
    /\ patches' = [k \in Patches |-> IF patches[k] = Idle THEN Idle
                                     ELSE [patches[k] EXCEPT !.mine = FALSE, !.live = FALSE]]
    /\ misled' = (\E k \in Patches : patches[k] # Idle)
    /\ UNCHANGED server

\* handleNavigate: what an answer still sets is mockTenant, and no component's state.
GoTo(name) ==
    /\ screen' = Mounted(name)
    /\ patches' = [k \in Patches |-> IF patches[k] = Idle THEN Idle
                                     ELSE [patches[k] EXCEPT !.live = FALSE]]
    /\ misled' = (misled \/ \E k \in Patches : patches[k] # Idle)
    /\ UNCHANGED <<server, mock>>

Asking(dto, mine) ==
    [at |-> "sent", dto |-> dto, was |-> Unsaid, row |-> Unsaid, mine |-> mine, live |-> mine]

SendPatch(k, dto) ==
    /\ patches[k] = Idle
    /\ ~screen.busy
    /\ patches' = [patches EXCEPT ![k] = Asking(dto, TRUE)]
    /\ UNCHANGED <<server, mock, misled>>

\* handleToggle: shown before it is asked for.
Toggle(k) ==
    /\ screen.name = "switch"
    /\ SendPatch(k, ~screen.isOpen)
    /\ screen' = [screen EXCEPT !.isOpen = ~@, !.busy = TRUE]

\* handleSave: a body with everything but isOpen; what is typed is left out.
SaveSettings(k) ==
    /\ screen.name = "settings"
    /\ SendPatch(k, Unsaid)
    /\ screen' = [screen EXCEPT !.busy = TRUE]

\* Another panel of the pizzeria, from its switch.
OtherToggle(k, on) ==
    /\ patches[k] = Idle
    /\ patches' = [patches EXCEPT ![k] = Asking(on, FALSE)]
    /\ UNCHANGED <<server, panel, misled>>

-----------------------------------------------------------------------------
\* findOwnTenant.
ReadOwn(k) ==
    /\ patches[k].at = "sent"
    /\ patches' = [patches EXCEPT ![k].at = "read", ![k].was = isOpen]
    /\ clashed' = (clashed \/ (Asks(k) /\ \E q \in Others(k, Deciding) : Asks(q)))
    /\ UNCHANGED <<isOpen, branding, told, readers, panel, misled>>

\* A column the body leaves out stays; the answer has the whole row.
UpdateMe(k) ==
    LET row == IF Asks(k) THEN patches[k].dto ELSE isOpen IN
    /\ patches[k].at = "read"
    /\ isOpen' = row
    /\ patches' = [patches EXCEPT ![k].at = "updated", ![k].row = row]
    /\ misled' = (misled \/ ~patches[k].mine)
    /\ UNCHANGED <<branding, told, readers, clashed, panel>>

\* Readers that have read and not yet filled the cache will fill it with the past.
Late == [r \in Readers |-> IF readers[r].at = "read" THEN [readers[r] EXCEPT !.late = TRUE] ELSE readers[r]]

DeleteBranding(k) ==
    /\ patches[k].at = "updated"
    /\ branding' = Unsaid
    /\ readers' = Late
    /\ patches' = [patches EXCEPT ![k].at = "deleted"]
    /\ UNCHANGED <<isOpen, told, clashed, panel, misled>>

\* Mutant of Changes: against the row as it is by now.
ChangesNow(k) == Asks(k) /\ patches[k].dto # isOpen

Changes(k) == Asks(k) /\ patches[k].dto # patches[k].was

LogStore(k) ==
    /\ patches[k].at = "deleted"
    /\ told' = IF Changes(k) THEN patches[k].row ELSE told
    /\ patches' = [patches EXCEPT ![k].at = "done"]
    /\ UNCHANGED <<isOpen, branding, readers, clashed, panel, misled>>

-----------------------------------------------------------------------------
Free(k) == patches' = [patches EXCEPT ![k] = Idle]

\* updateTenantSettings takes the row for its copy; the switch has what it shows.
StoreAnswered(k) ==
    LET row == patches[k].row IN
    /\ patches[k].at = "done"
    /\ mock' = IF patches[k].mine THEN row ELSE mock
    /\ misled' = (misled \/ (patches[k].mine /\ row # isOpen))
    /\ screen' = IF patches[k].live THEN [screen EXCEPT !.busy = FALSE] ELSE screen
    /\ Free(k)
    /\ UNCHANGED server

\* handleToggle's catch shows what was before the click; the settings show an error.
Reverted == [screen EXCEPT !.busy = FALSE, !.isOpen = IF screen.name = "switch" THEN ~@ ELSE @]

\* A statement fails, or the request or its answer is lost.  After the update nobody
\* finishes what was left.
StoreFails(k) ==
    /\ patches[k] # Idle
    /\ screen' = IF patches[k].live THEN Reverted ELSE screen
    /\ misled' = (misled \/ patches[k].at \in Applied)
    /\ clashed' = (clashed \/ (patches[k].at \in {"updated", "deleted"} /\ Changes(k)))
    /\ IF patches[k].at = "updated"
       THEN /\ branding' = IF branding = Unsaid THEN Unsaid ELSE [branding EXCEPT !.late = TRUE]
            /\ readers' = Late
       ELSE UNCHANGED <<branding, readers>>
    /\ Free(k)
    /\ UNCHANGED <<isOpen, told, mock>>

-----------------------------------------------------------------------------
\* findBySlug: a hit changes nothing.
Missed(r) ==
    /\ readers[r] = Idle
    /\ branding = Unsaid
    /\ readers' = [readers EXCEPT ![r] = [at |-> "missed"]]
    /\ UNCHANGED <<isOpen, branding, told, clashed, patches, panel, misled>>

ReadBranding(r) ==
    /\ readers[r].at = "missed"
    /\ readers' = [readers EXCEPT ![r] = [at |-> "read", row |-> isOpen, late |-> FALSE]]
    /\ UNCHANGED <<isOpen, branding, told, clashed, patches, panel, misled>>

FillBranding(r) ==
    /\ readers[r].at = "read"
    /\ branding' = [row |-> readers[r].row, late |-> readers[r].late]
    /\ readers' = [readers EXCEPT ![r] = Idle]
    /\ UNCHANGED <<isOpen, told, clashed, patches, panel, misled>>

\* TENANT_BRANDING_CACHE_TTL_SECONDS are over.
BrandingExpires ==
    /\ branding # Unsaid
    /\ branding' = Unsaid
    /\ UNCHANGED <<isOpen, told, readers, clashed, patches, panel, misled>>

StoreNext ==
    \/ Boot \/ BrandingExpires
    \/ \E name \in {"switch", "settings"} : GoTo(name)
    \/ \E k \in Patches :
        \/ Toggle(k) \/ SaveSettings(k)
        \/ \E on \in BOOLEAN : OtherToggle(k, on)
        \/ ReadOwn(k) \/ UpdateMe(k) \/ DeleteBranding(k) \/ LogStore(k)
        \/ StoreAnswered(k) \/ StoreFails(k)
    \/ \E r \in Readers : Missed(r) \/ ReadBranding(r) \/ FillBranding(r)

StoreSpec == StoreInit /\ [][StoreNext]_storeVars

-----------------------------------------------------------------------------
StoreTypeOK ==
    /\ {isOpen, mock, told, clashed, misled} \subseteq BOOLEAN
    /\ branding \in Entries \cup {Unsaid}
    /\ patches \in [Patches -> PatchesUnderWay \cup {Idle}]
    /\ readers \in [Readers -> Misses \cup {Idle}]
    /\ screen \in Screens
    /\ \A k \in Patches :
        /\ patches[k].at \in Deciding \cup Applied => patches[k].was \in BOOLEAN
        /\ patches[k].at \in Applied => patches[k].row \in BOOLEAN

\* With no PATCH under way the log, the panel, its switch and the public page say of the
\* store what the row says ("nao deixar o dono achar que fechou a loja"), but for PATCHes
\* of isOpen that crossed or died before the log; a PATCH of somebody else, an answer that
\* was lost or overtaken and a component mounted between a click and its answer; and an
\* entry that a reader brought from before a deletion, or that a PATCH died over.
StoreIsToldAsItIs ==
    (\A k \in Patches : patches[k] = Idle) =>
        /\ ~clashed => told = isOpen
        /\ ~misled => /\ mock = isOpen
                      /\ screen.name = "switch" => screen.isOpen = isOpen
        /\ branding # Unsaid => branding.row = isOpen \/ branding.late

=============================================================================
