------------------------------ MODULE TenantList ------------------------------
(***************************************************************************)
(* The administrator's list of pizzerias (TenantsManagement.tsx) over      *)
(* GET /admin/tenants and PATCH /admin/tenants/:id/active.                 *)
(*                                                                         *)
(* Each GET and PATCH is handled at the server at one moment and answered  *)
(* at a later one, or its answer is lost, and nothing makes the answers    *)
(* come in the order of the questions.                                     *)
(***************************************************************************)
EXTENDS Naturals, FiniteSetsExt, SequencesExt

CONSTANTS
    Tenants,
    Matching,   \* tenants whose name or slug contains the text of the search
    PageSize,   \* PAGE_SIZE
    MaxAsks,    \* bound: GETs of one visit to the screen
    Toggles     \* slots: PATCHes of the switches under way

ASSUME PageAssumption == PageSize \in Nat \ {0} /\ MaxAsks \in Nat \ {0}
ASSUME TenantsAssumption == IsFiniteSet(Tenants)

VARIABLES
    created,    \* tenants by created_at: all (FALSE), and those the search finds (TRUE)
    active,     \* tenants.active
    question,   \* page and debouncedSearch
    asks,       \* GETs of this visit, in the order they were sent
    arrived,    \* history: the GET whose answer arrived last (0: none)
    list,       \* the rows on the screen
    total,
    toggles,    \* PATCHes of the switches
    blurred,    \* history: a switch of this visit may show the past
    hasty       \* history: a page turned before the last answer was in

tenantRows == <<created, active>>
screen == <<question, asks, arrived, list, total>>
listVars == <<tenantRows, screen, toggles, blurred, hasty>>

Asks == 1..MaxAsks
First == [page |-> 1, search |-> FALSE]
NotSent == [at |-> "idle"]

\* The questions, the rows of their answers, and the GETs on their way.
Questions == [page : Nat \ {0}, search : BOOLEAN]
ListRows == [tenant : Tenants, active : BOOLEAN]
GetsMade ==
    [at : {"sent", "over"}, q : Questions] \cup
    [at : {"read"}, q : Questions, answer : [items : Seq(ListRows), total : Nat]]
TogglesMade == [at : {"sent", "applied"}, tenant : Tenants, active : BOOLEAN]

\* found holds its tenants in the order of all.
InTheOrderOf(found, all) ==
    \A i, j \in DOMAIN found, m, n \in DOMAIN all :
        found[i] = all[m] /\ found[j] = all[n] => (i < j <=> m < n)

\* TenantsAdminService.list: where, orderBy createdAt, skip and take.
Answer(q) ==
    LET found == created[q.search]
        skip  == (q.page - 1) * PageSize
        shown == Min({PageSize, Len(found) - skip})
    IN  [items |-> [i \in 1..shown |-> [tenant |-> found[skip + i], active |-> active[found[skip + i]]]],
         total |-> Len(found)]

Newest == Max({0} \cup {i \in Asks : asks[i] # NotSent})

\* The effect of [page, debouncedSearch]: one GET per value they take.
AsksAfter(n, qs) ==
    [i \in Asks |-> IF i <= n THEN asks[i]
                    ELSE IF i <= n + Len(qs) THEN [at |-> "sent", q |-> qs[i - n]] ELSE NotSent]

TotalPages == Max({1, (total + PageSize - 1) \div PageSize})

ListInit ==
    /\ \E all \in SetToSeqs(Tenants), found \in SetToSeqs(Tenants \cap Matching) :
        /\ InTheOrderOf(found, all)
        /\ created = [search \in BOOLEAN |-> IF search THEN found ELSE all]
    /\ active \in [Tenants -> BOOLEAN]
    /\ question = First
    /\ asks = [i \in Asks |-> IF i = 1 THEN [at |-> "sent", q |-> First] ELSE NotSent]
    /\ arrived = 0
    /\ list = <<>>
    /\ total = 0
    /\ toggles = [k \in Toggles |-> NotSent]
    /\ blurred = FALSE
    /\ hasty = FALSE

-----------------------------------------------------------------------------
\* The screen is left and visited again: it asks for the first page, and what the
\* last visit still expects goes nowhere.
VisitAgain ==
    /\ question' = First
    /\ asks' = AsksAfter(0, <<First>>)
    /\ arrived' = 0
    /\ list' = <<>>
    /\ total' = 0
    /\ blurred' = (\E k \in Toggles : toggles[k] # NotSent)
    /\ hasty' = FALSE
    /\ UNCHANGED <<tenantRows, toggles>>

\* Mutant of Search: the page of the old search is the only one asked for.
SearchFromHere ==
    LET there == [page |-> question.page, search |-> ~question.search] IN
    /\ Newest < MaxAsks
    /\ question' = [there EXCEPT !.page = 1]
    /\ asks' = AsksAfter(Newest, <<there>>)
    /\ hasty' = FALSE
    /\ UNCHANGED <<tenantRows, arrived, list, total, toggles, blurred>>

\* debouncedSearch changes: one effect asks for the page the list was on, the
\* other turns to the first page, which asks again.
Search ==
    LET there == [page |-> question.page, search |-> ~question.search]
        new == IF question.page = 1 THEN <<there>> ELSE <<there, [there EXCEPT !.page = 1]>>
    IN  /\ Newest + Len(new) <= MaxAsks
        /\ question' = Last(new)
        /\ asks' = AsksAfter(Newest, new)
        /\ hasty' = FALSE
        /\ UNCHANGED <<tenantRows, arrived, list, total, toggles, blurred>>

\* Anterior and Proxima, shown with a list that has rows.
Turn(page) ==
    /\ list # <<>>
    /\ page \in {question.page - 1, question.page + 1}
    /\ page \in 1..TotalPages
    /\ Newest < MaxAsks
    /\ question' = [question EXCEPT !.page = page]
    /\ asks' = AsksAfter(Newest, <<question'>>)
    /\ hasty' = (hasty \/ arrived # Newest)
    /\ UNCHANGED <<tenantRows, arrived, list, total, toggles, blurred>>

ReadList(i) ==
    /\ asks[i].at = "sent"
    /\ asks' = [asks EXCEPT ![i] = [at |-> "read", q |-> asks[i].q, answer |-> Answer(asks[i].q)]]
    /\ UNCHANGED <<tenantRows, question, arrived, list, total, toggles, blurred, hasty>>

\* setTenants, setTotal: whatever was asked since.  .catch keeps the list.
ListArrives(i) ==
    /\ asks[i].at = "read"
    /\ asks' = [asks EXCEPT ![i] = [at |-> "over", q |-> asks[i].q]]
    /\ \/ /\ list' = asks[i].answer.items
          /\ total' = asks[i].answer.total
          /\ arrived' = i
          /\ blurred' = (blurred \/ \E j \in DOMAIN list' : list'[j].active # active[list'[j].tenant])
       \/ UNCHANGED <<list, total, arrived, blurred>>
    /\ UNCHANGED <<tenantRows, question, toggles, hasty>>

-----------------------------------------------------------------------------
\* handleToggleActive: the opposite of what the switch shows; nothing keeps it
\* from being clicked again before the answer.
Toggle(k, row) ==
    /\ toggles[k] = NotSent
    /\ toggles' = [toggles EXCEPT ![k] = [at |-> "sent", tenant |-> row.tenant, active |-> ~row.active]]
    /\ UNCHANGED <<tenantRows, screen, blurred, hasty>>

\* TenantsAdminService.setActive.
SetActive(k) ==
    /\ toggles[k].at = "sent"
    /\ active' = [active EXCEPT ![toggles[k].tenant] = toggles[k].active]
    /\ toggles' = [toggles EXCEPT ![k].at = "applied"]
    /\ UNCHANGED <<created, screen, blurred, hasty>>

\* Mutant of ToggleAnswered: the switch flips by itself.
ToggleAnsweredFlipping(k) ==
    /\ toggles[k].at = "applied"
    /\ list' = [i \in DOMAIN list |->
            IF list[i].tenant = toggles[k].tenant THEN [list[i] EXCEPT !.active = ~@] ELSE list[i]]
    /\ toggles' = [toggles EXCEPT ![k] = NotSent]
    /\ UNCHANGED <<tenantRows, question, asks, arrived, total, blurred, hasty>>

\* The row, if it is on the screen, takes the answer's active.  A lost answer, and
\* one that another PATCH overtook, leave a switch of the past.
ToggleAnswered(k) ==
    LET t == toggles[k].tenant IN
    /\ toggles[k].at = "applied"
    /\ \/ /\ list' = [i \in DOMAIN list |->
                IF list[i].tenant = t THEN [list[i] EXCEPT !.active = toggles[k].active] ELSE list[i]]
          /\ blurred' = (blurred \/ toggles[k].active # active[t])
       \/ UNCHANGED list /\ blurred' = TRUE
    /\ toggles' = [toggles EXCEPT ![k] = NotSent]
    /\ UNCHANGED <<tenantRows, question, asks, arrived, total, hasty>>

ListNext ==
    \/ VisitAgain \/ Search
    \/ \E page \in 1..TotalPages : Turn(page)
    \/ \E i \in Asks : ReadList(i) \/ ListArrives(i)
    \/ \E k \in Toggles :
        (\E i \in DOMAIN list : Toggle(k, list[i])) \/ SetActive(k) \/ ToggleAnswered(k)

ListSpec == ListInit /\ [][ListNext]_listVars

-----------------------------------------------------------------------------
ListTypeOK ==
    /\ created \in [BOOLEAN -> Seq(Tenants)]
    /\ active \in [Tenants -> BOOLEAN]
    /\ question \in Questions
    /\ asks \in [Asks -> GetsMade \cup {NotSent}]
    /\ arrived \in 0..Newest
    /\ list \in Seq(ListRows) /\ Len(list) <= PageSize
    /\ total \in {0, Len(created[FALSE]), Len(created[TRUE])}
    /\ toggles \in [Toggles -> TogglesMade \cup {NotSent}]
    /\ {blurred, hasty} \subseteq BOOLEAN

\* "Trocar a busca sempre volta pra pagina 1": when the last GET that arrived is
\* the last one sent, the rows are of the page and the search the screen names;
\* and the buttons lead beyond the pages there are only when they were clicked on
\* the total of another search.
ListAnswersTheQuestion ==
    arrived = Newest => /\ asks[arrived].q = question
                        /\ list = <<>> => question.page = 1 \/ hasty

\* Two clicks on one switch, a list that arrives between a click and its answer:
\* with nothing under way and nothing lost or overtaken, the switches show
\* whether the pizzeria is active.
SwitchesSettle ==
    ~blurred /\ (\A k \in Toggles : toggles[k] = NotSent) =>
        \A i \in DOMAIN list : list[i].active = active[list[i].tenant]

=============================================================================
