------------------------------ MODULE TenantSales ------------------------------
(***************************************************************************)
(* "Vendas por Pizzaria" (TenantSales.tsx): the figures of the pizzeria    *)
(* the administrator selects, and the list of its users.                   *)
(*                                                                         *)
(* Nothing cancels a GET whose question has changed: its answer is put on  *)
(* the screen when it comes, and puts out the sign that one is awaited.    *)
(* The figures themselves are left out; an answer is known by what it was  *)
(* asked for.  The text that filters the choice asks for another list of   *)
(* pizzerias and leaves the selection alone, so any can be selected.       *)
(***************************************************************************)
EXTENDS Naturals, FiniteSetsExt, Sequences

CONSTANTS
    Shops,
    Roles,
    UserPages,      \* UserPages[s][r]: pages of users of role r of s
    MaxQueries,     \* bound: GETs of one visit to the screen
    Nil

ASSUME RolesAssumption == Roles # {} /\ MaxQueries \in Nat
ASSUME PagesAssumption == UserPages \in [Shops -> [Roles -> Nat \ {0}]]
ASSUME NilAssumption == Nil \notin Shops

VARIABLES
    selected,       \* selectedId, or Nil
    sales,          \* the pizzeria of the figures on the screen, or Nil
    loading,
    usersVisible,
    users,          \* usersRole and usersPage
    people,         \* usersData: what it was asked for, or Nil
    usersLoading,
    queries         \* GETs of this visit, in the order they were sent

salesVars == <<selected, sales, loading, usersVisible, users, people, usersLoading, queries>>

Queries == 1 .. MaxQueries
SalesQuery(s) == [kind |-> "sales", shop |-> s]
UsersQuery(s, u) == [kind |-> "users", shop |-> s, role |-> u.role, page |-> u.page]
Unsent == [at |-> "idle"]

\* What the GETs ask for, and the GETs.
OfUsers == [kind : {"users"}, shop : Shops, role : Roles, page : Nat \ {0}]
OfSales == [kind : {"sales"}, shop : Shops]
QueriesMade ==
    [at : {"sent"}, q : OfUsers \cup OfSales, last : {FALSE}] \cup
    [at : {"over"}, q : OfUsers \cup OfSales, last : BOOLEAN]

Sent == {i \in Queries : queries[i] # Unsent}
Query(i) == queries[i].q
OfKind(kind) == {i \in Sent : Query(i).kind = kind}

\* The effects of a dependency ask anew.
AskAll(qs) ==
    LET n == Cardinality(Sent) IN
    /\ n + Len(qs) <= MaxQueries
    /\ queries' = [i \in Queries |->
            IF i \in n + 1 .. n + Len(qs) THEN [at |-> "sent", q |-> qs[i - n], last |-> FALSE]
            ELSE queries[i]]
Ask(q) == AskAll(<<q>>)

AnyRole == CHOOSE r \in Roles : TRUE
FirstUsers == [role |-> AnyRole, page |-> 1]

SalesInit ==
    /\ selected = Nil /\ sales = Nil /\ loading = FALSE
    /\ usersVisible = FALSE /\ users = FirstUsers /\ people = Nil /\ usersLoading = FALSE
    /\ queries = [i \in Queries |-> Unsent]

-----------------------------------------------------------------------------
\* The screen is left and visited again.
VisitSales ==
    /\ selected' = Nil /\ sales' = Nil /\ loading' = FALSE
    /\ usersVisible' = FALSE /\ users' = FirstUsers /\ people' = Nil /\ usersLoading' = FALSE
    /\ queries' = [i \in Queries |-> Unsent]

\* "Trocar de pizzaria fecha a secao de usuarios": for the next render.  The effect of the
\* users runs in this one, and asks for those of the new pizzeria with the old role and page.
Select(s) ==
    /\ s # selected
    /\ selected' = s
    /\ AskAll(<<SalesQuery(s)>> \o IF usersVisible THEN <<UsersQuery(s, users)>> ELSE <<>>)
    /\ loading' = TRUE /\ UNCHANGED sales
    /\ usersVisible' = FALSE /\ users' = FirstUsers /\ people' = Nil
    /\ usersLoading' = (usersLoading \/ usersVisible)

SelectNone ==
    /\ selected # Nil
    /\ selected' = Nil
    /\ sales' = Nil /\ UNCHANGED <<loading, usersVisible, users, people, usersLoading, queries>>

\* The figures and all that is under them are shown.
Shown == selected # Nil /\ ~loading /\ sales # Nil

\* Hiding the users asks nothing, and a first page that is the page asks once.
ToggleUsers ==
    /\ Shown
    /\ usersVisible' = ~usersVisible
    /\ users' = [users EXCEPT !.page = 1]
    /\ IF usersVisible' THEN Ask(UsersQuery(selected, users')) /\ usersLoading' = TRUE
       ELSE UNCHANGED <<queries, usersLoading>>
    /\ UNCHANGED <<selected, sales, loading, people>>

SelectRole(r) ==
    /\ Shown /\ usersVisible /\ r # users.role
    /\ users' = [role |-> r, page |-> 1]
    /\ Ask(UsersQuery(selected, users')) /\ usersLoading' = TRUE
    /\ UNCHANGED <<selected, sales, loading, usersVisible, people>>

\* usersTotalPages, of the list on the screen; a list without rows has no buttons.
TotalUserPages == UserPages[people.shop][people.role]

TurnUsers(page) ==
    /\ Shown /\ usersVisible /\ ~usersLoading /\ people # Nil /\ people.page <= TotalUserPages
    /\ page \in {users.page - 1, users.page + 1} /\ page \in 1 .. TotalUserPages
    /\ users' = [users EXCEPT !.page = page]
    /\ Ask(UsersQuery(selected, users')) /\ usersLoading' = TRUE
    /\ UNCHANGED <<selected, sales, loading, usersVisible, people>>

\* The answer i is in: the last of its kind to arrive.
Arrived(i) ==
    [j \in Queries |-> IF j = i THEN [queries[i] EXCEPT !.at = "over", !.last = TRUE]
                       ELSE IF j \in OfKind(Query(i).kind) THEN [queries[j] EXCEPT !.last = FALSE]
                       ELSE queries[j]]

\* .then, or .catch, and .finally.
SalesArrive(i) ==
    /\ queries[i].at = "sent" /\ Query(i).kind = "sales"
    /\ queries' = Arrived(i)
    /\ sales' \in {Query(i).shop, Nil}
    /\ loading' = FALSE
    /\ UNCHANGED <<selected, usersVisible, users, people, usersLoading>>

UsersArrive(i) ==
    /\ queries[i].at = "sent" /\ Query(i).kind = "users"
    /\ queries' = Arrived(i)
    /\ people' \in {Query(i), Nil}
    /\ usersLoading' = FALSE
    /\ UNCHANGED <<selected, sales, loading, usersVisible, users>>

SalesNext ==
    \/ VisitSales \/ SelectNone \/ ToggleUsers
    \/ \E s \in Shops : Select(s)
    \/ \E r \in Roles : SelectRole(r)
    \/ people # Nil /\ \E page \in 1 .. TotalUserPages : TurnUsers(page)
    \/ \E i \in Queries : SalesArrive(i) \/ UsersArrive(i)

SalesSpec == SalesInit /\ [][SalesNext]_salesVars

-----------------------------------------------------------------------------
SalesTypeOK ==
    /\ {selected, sales} \subseteq Shops \cup {Nil}
    /\ users \in [role : Roles, page : Nat \ {0}]
    /\ {loading, usersVisible, usersLoading} \subseteq BOOLEAN
    /\ people \in OfUsers \cup {Nil}
    /\ queries \in [Queries -> QueriesMade \cup {Unsent}]

\* The last of its kind to arrive is the last that was sent.
InOrder(kind) == \A i \in OfKind(kind) : queries[i].last => i = Max(OfKind(kind))

\* What is on the screen is of the pizzeria, the role and the page it names, once the
\* answer that came last is the answer to the last question.
SalesAreOfTheSelected ==
    /\ Shown /\ InOrder("sales") => sales = selected
    /\ Shown /\ usersVisible /\ ~usersLoading /\ people # Nil /\ InOrder("users") =>
            people = UsersQuery(selected, users)

=============================================================================
