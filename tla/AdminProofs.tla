----------------------------- MODULE AdminProofs -----------------------------
(***************************************************************************)
(* Proofs about the screens of the administrator's app (TenantList,        *)
(* TenantForm, PlansScreen, TenantSales), for any pizzerias, plans, users, *)
(* pages and calls.                                                        *)
(***************************************************************************)
EXTENDS Admin, FiniteSetTheorems, SequenceTheorems, TLAPS

-----------------------------------------------------------------------------
(* The list of the pizzerias. *)

\* A page that has no rows.
Beyond(q) == (q.page - 1) * PageSize >= Len(created[q.search])

\* The GETs were sent one after the other, n of them.
Asked(n) == n \in Asks /\ \A i \in Asks : asks[i] # NotSent <=> i <= n

\* The last is for what the screen names.
LastIsTheQuestion == \E n \in Asks : Asked(n) /\ asks[n].q = question

\* An answer counts what was found, and is empty only past the last page; what is on the screen
\* is such an answer.
AnswersAreTrue ==
    /\ \A i \in Asks : asks[i].at = "read" =>
            /\ asks[i].answer.total = Len(created[asks[i].q.search])
            /\ Len(asks[i].answer.items) <= PageSize
            /\ asks[i].answer.items = <<>> => Beyond(asks[i].q)
    /\ arrived = 0 => list = <<>> /\ total = 0
    /\ arrived # 0 => /\ arrived \in Asks /\ asks[arrived] # NotSent
                      /\ total = Len(created[asks[arrived].q.search])
                      /\ list = <<>> => Beyond(asks[arrived].q)

\* The buttons lead where there are rows, unless one was clicked before the list came.
TurnsHaveRows == ~hasty /\ question.page # 1 => ~Beyond(question)

\* A switch shows what its pizzeria is, or an answer about it is on its way.
SwitchesAreTold ==
    ~blurred => \A i \in DOMAIN list :
        \/ list[i].active = active[list[i].tenant]
        \/ \E k \in Toggles : toggles[k].at = "applied" /\ toggles[k].tenant = list[i].tenant

ListInv == ListTypeOK /\ LastIsTheQuestion /\ AnswersAreTrue /\ TurnsHaveRows /\ SwitchesAreTold

-----------------------------------------------------------------------------
\* What a GET carries at each of its steps.
LEMMA AskShape ==
    ASSUME ListTypeOK, NEW i \in Asks, asks[i] # NotSent
    PROVE  /\ asks[i] \in GetsMade /\ asks[i].q \in Questions /\ asks[i].at \in {"sent", "read", "over"}
           /\ asks[i].q.page \in Nat \ {0} /\ asks[i].q.search \in BOOLEAN
           /\ asks[i].at = "read" =>
                asks[i].answer.items \in Seq(ListRows) /\ asks[i].answer.total \in Nat
<1>1. asks[i] \in GetsMade
  BY DEF ListTypeOK
<1>2. asks[i].q \in Questions
  BY <1>1 DEF GetsMade
<1> QED BY <1>1, <1>2 DEF GetsMade, Questions

\* Max, of integers, by the element it is.
LEMMA MaxIs == ASSUME NEW S \in SUBSET Int, NEW m \in S, \A j \in S : j <= m PROVE Max(S) = m
<1>1. \A x \in S : (\A j \in S : x >= j) => x = m
  OBVIOUS
<1> QED BY <1>1 DEF Max

LEMMA NewestIs == ASSUME NEW n, Asked(n) PROVE Newest = n
<1>1. n \in {0} \cup {i \in Asks : asks[i] # NotSent}
  BY PageAssumption DEF Asked, Asks
<1>2. \A j \in {0} \cup {i \in Asks : asks[i] # NotSent} : j <= n /\ j \in Int
  BY PageAssumption DEF Asked, Asks
<1> QED BY <1>1, <1>2, MaxIs DEF Newest

\* The count on the screen is a number, and so are the pages it makes.
LEMMA TotalIsNat == ASSUME ListTypeOK PROVE total \in Nat
<1>1. PICK all \in Seq(Tenants) : all = created[FALSE]
  BY DEF ListTypeOK
<1>2. PICK found \in Seq(Tenants) : found = created[TRUE]
  BY DEF ListTypeOK
<1>3. Len(all) \in Nat /\ Len(found) \in Nat
  BY LenProperties
<1>4. total = 0 \/ total = Len(created[FALSE]) \/ total = Len(created[TRUE])
  BY DEF ListTypeOK
<1>5. CASE total = 0
  BY <1>5
<1>6. CASE total = Len(created[FALSE])
  BY <1>1, <1>3, <1>6
<1>7. CASE total = Len(created[TRUE])
  BY <1>2, <1>3, <1>7
<1> QED BY <1>4, <1>5, <1>6, <1>7

LEMMA TotalPagesIs ==
    ASSUME total \in Nat
    PROVE  TotalPages = IF 1 >= (total + PageSize - 1) \div PageSize THEN 1 ELSE (total + PageSize - 1) \div PageSize
<1>1. PICK b \in Int : b = (total + PageSize - 1) \div PageSize
  BY PageAssumption
<1>2. \A x \in {1, b} : (\A y \in {1, b} : x >= y) <=> x = IF 1 >= b THEN 1 ELSE b
  OBVIOUS
<1> QED BY <1>1, <1>2 DEF TotalPages, Max

\* A page within those the count makes has rows.
LEMMA PagesHaveRows ==
    ASSUME total \in Nat, NEW page \in 1..TotalPages, page # 1
    PROVE  (page - 1) * PageSize < total
<1>1. PICK pages \in Int : pages = (total + PageSize - 1) \div PageSize
  BY PageAssumption
<1>2. page \in Nat /\ page >= 2 /\ page <= pages
  BY <1>1, TotalPagesIs
<1>3. pages * PageSize <= total + PageSize - 1
  BY <1>1, PageAssumption
<1>4. (page - 1) * PageSize <= (pages - 1) * PageSize
  BY <1>2, PageAssumption
<1>5. (pages - 1) * PageSize = pages * PageSize - PageSize
  BY PageAssumption
<1> QED BY <1>2, <1>3, <1>4, <1>5, PageAssumption

\* The server's answer counts what was found, and has no rows only beyond the last page.
LEMMA AnswerShape ==
    ASSUME created \in [BOOLEAN -> Seq(Tenants)], active \in [Tenants -> BOOLEAN], NEW q \in Questions
    PROVE  /\ Answer(q).items \in Seq(ListRows) /\ Len(Answer(q).items) <= PageSize
           /\ Answer(q).total = Len(created[q.search]) /\ Answer(q).total \in Nat
           /\ Answer(q).items = <<>> => Beyond(q)
<1>1. PICK found \in Seq(Tenants) : found = created[q.search]
  BY DEF Questions
<1>2. PICK skip \in Nat : skip = (q.page - 1) * PageSize
  <2>1. q.page - 1 \in Nat /\ PageSize \in Nat
    BY PageAssumption DEF Questions
  <2> QED BY <2>1
<1>3. PICK len \in Nat : len = Len(found)
  OBVIOUS
<1>4. PICK rest \in Int : rest = len - skip
  BY <1>3, <1>2
<1>5. PICK shown \in Int : /\ shown = Min({PageSize, rest})
                          /\ shown <= PageSize /\ shown <= rest /\ (shown = PageSize \/ shown = rest)
  <2>1. PICK least \in Int : least = IF PageSize <= rest THEN PageSize ELSE rest
    BY PageAssumption
  <2>2. least \in {PageSize, rest} /\ \A x \in {PageSize, rest} : (\A y \in {PageSize, rest} : x =< y) <=> x = least
    BY <2>1, PageAssumption
  <2>3. Min({PageSize, rest}) = least
    BY <2>2 DEF Min
  <2> QED BY <2>1, <2>3, PageAssumption
<1>6. PICK items : items = [i \in 1..shown |-> [tenant |-> found[skip + i], active |-> active[found[skip + i]]]]
  OBVIOUS
<1>7. Answer(q).items = items /\ Answer(q).total = Len(found)
  BY <1>3, <1>1, <1>2, <1>4, <1>5, <1>6 DEF Answer
<1>8. ASSUME NEW i \in 1..shown PROVE items[i] \in ListRows
  <2>1. skip + i \in 1..len
    BY <1>3, <1>2, <1>4, <1>5
  <2>2. found[skip + i] \in Tenants
    BY <1>3, <1>1, <2>1
  <2> QED BY <1>6, <2>2 DEF ListRows
<1>9. CASE shown >= 0
  <2>1. shown \in Nat
    BY <1>9
  <2>2. DOMAIN items = 1..shown /\ items = [i \in DOMAIN items |-> items[i]]
    BY <1>6
  <2>3. items \in [1..shown -> ListRows]
    BY <1>8, <2>2
  <2>4. items \in Seq(ListRows) /\ Len(items) = shown
    BY <2>3, <2>1
  <2>5. items = <<>> => shown = 0
    BY <2>4
  <2>6. shown = 0 => skip >= len
    BY <1>2, <1>4, <1>5, <1>3, PageAssumption
  <2>7. skip >= len => Beyond(q)
    BY <1>1, <1>2, <1>3 DEF Beyond
  <2> QED BY <1>1, <1>5, <1>7, <1>3, <2>4, <2>5, <2>6, <2>7
<1>10. CASE shown < 0
  <2>1. items = <<>>
    BY <1>6, <1>10
  <2>2. skip >= len
    BY <1>2, <1>4, <1>5, <1>10, <1>3, PageAssumption
  <2>3. Beyond(q)
    BY <1>1, <1>2, <1>3, <2>2 DEF Beyond
  <2> QED BY <1>1, <1>7, <1>3, <2>1, <2>3, PageAssumption
<1> QED BY <1>9, <1>10

\* AsksAfter(n, qs) adds the questions qs after the n that were sent, or starts anew.
LEMMA AsksAfterIs ==
    ASSUME ListTypeOK, NEW n \in 0..MaxAsks, n = 0 \/ Asked(n), NEW qs \in Seq(Questions), Len(qs) \in {1, 2},
           n + Len(qs) <= MaxAsks, asks' = AsksAfter(n, qs)
    PROVE  /\ asks' \in [Asks -> GetsMade \cup {NotSent}]
           /\ Asked(n + Len(qs))' /\ n + Len(qs) \in Asks
           /\ asks'[n + Len(qs)] = [at |-> "sent", q |-> qs[Len(qs)]]
           /\ \A i \in 1..n : i \in Asks /\ asks'[i] = asks[i]
           /\ \A i \in Asks : i > n => asks'[i].at # "read"
<1>1. PICK len \in {1, 2} : len = Len(qs)
  OBVIOUS
<1>2. n \in Nat /\ n + len \in Asks /\ n + len <= MaxAsks /\ MaxAsks \in Nat
  BY <1>1, PageAssumption DEF Asks
<1>3. asks' = [i \in Asks |-> IF i <= n THEN asks[i]
                              ELSE IF i <= n + len THEN [at |-> "sent", q |-> qs[i - n]] ELSE NotSent]
  BY <1>1 DEF AsksAfter
<1>4. ASSUME NEW i \in 1..n PROVE i \in Asks /\ asks'[i] = asks[i] /\ asks[i] # NotSent
  <2>1. i \in Asks /\ i <= n
    BY <1>2 DEF Asks
  <2>2. asks[i] # NotSent
    BY <1>2, <2>1 DEF Asked
  <2> QED BY <1>3, <2>1, <2>2
<1>5. ASSUME NEW i \in n + 1 .. n + len
      PROVE  /\ i \in Asks /\ asks'[i] = [at |-> "sent", q |-> qs[i - n]]
             /\ asks'[i] \in GetsMade /\ asks'[i] # NotSent /\ asks'[i].at # "read"
  <2>1. i \in Asks /\ ~(i <= n) /\ i <= n + len /\ i - n \in 1..len
    BY <1>1, <1>2 DEF Asks
  <2>2. asks'[i] = [at |-> "sent", q |-> qs[i - n]]
    BY <1>3, <2>1
  <2>3. qs[i - n] \in Questions
    BY <1>1, <2>1
  <2> QED BY <2>1, <2>2, <2>3 DEF GetsMade, NotSent
<1>6. ASSUME NEW i \in Asks, i > n + len PROVE asks'[i] = NotSent
  <2>1. ~(i <= n) /\ ~(i <= n + len)
    BY <1>1, <1>2, <1>6 DEF Asks
  <2> QED BY <1>3, <2>1
<1>7. ASSUME NEW i \in Asks PROVE i \in 1..n \/ i \in n + 1 .. n + len \/ i > n + len
  BY <1>1, <1>2 DEF Asks
<1>8. ASSUME NEW i \in Asks
      PROVE  asks'[i] \in GetsMade \cup {NotSent} /\ (asks'[i] # NotSent <=> i <= n + len)
  <2>1. CASE i \in 1..n
    <3>1. i <= n + len
      BY <1>1, <1>2, <2>1
    <3> QED BY <1>4, <2>1, <3>1 DEF ListTypeOK
  <2>2. CASE i \in n + 1 .. n + len
    <3>1. i <= n + len
      BY <1>1, <1>2, <2>2
    <3> QED BY <1>5, <2>2, <3>1
  <2>3. CASE i > n + len
    <3>1. ~(i <= n + len)
      BY <1>1, <1>2, <2>3 DEF Asks
    <3> QED BY <1>6, <2>3, <3>1
  <2> QED BY <1>7, <2>1, <2>2, <2>3
<1>9. asks' \in [Asks -> GetsMade \cup {NotSent}]
  <2>1. asks' = [i \in Asks |-> asks'[i]]
    BY <1>3
  <2> QED BY <1>8, <2>1
<1>10. asks'[n + len] = [at |-> "sent", q |-> qs[len]]
  <2>1. n + len \in n + 1 .. n + len /\ (n + len) - n = len
    BY <1>1, <1>2
  <2> QED BY <1>5, <2>1
<1>11. ASSUME NEW i \in Asks, i > n PROVE asks'[i].at # "read"
  <2>1. CASE i \in n + 1 .. n + len
    BY <1>5, <2>1
  <2>2. CASE i > n + len
    BY <1>6, <2>2 DEF NotSent
  <2>3. ~(i \in 1..n)
    BY <1>2, <1>11
  <2> QED BY <1>7, <2>1, <2>2, <2>3
<1> QED BY <1>1, <1>2, <1>4, <1>8, <1>9, <1>10, <1>11 DEF Asked

\* What arrived, and the answers on their way, are what they were when another page is asked for.
LEMMA AskingKeeps ==
    ASSUME ListInv, NEW n, Asked(n), NEW qs \in Seq(Questions), Len(qs) \in {1, 2}, n + Len(qs) <= MaxAsks,
           asks' = AsksAfter(n, qs), question' = qs[Len(qs)],
           UNCHANGED <<tenantRows, arrived, list, total, toggles, blurred>>, hasty' \in BOOLEAN
    PROVE  ListTypeOK' /\ LastIsTheQuestion' /\ AnswersAreTrue' /\ SwitchesAreTold'
<1>1. ListTypeOK /\ AnswersAreTrue /\ SwitchesAreTold
  BY DEF ListInv
<1>2. n \in 0..MaxAsks /\ n \in Nat
  BY PageAssumption DEF Asked, Asks
<1>3. PICK m : m = n + Len(qs)
  OBVIOUS
<1>4. /\ asks' \in [Asks -> GetsMade \cup {NotSent}]
      /\ Asked(m)' /\ m \in Asks /\ asks'[m] = [at |-> "sent", q |-> qs[Len(qs)]]
      /\ \A i \in 1..n : i \in Asks /\ asks'[i] = asks[i]
      /\ \A i \in Asks : i > n => asks'[i].at # "read"
  BY <1>1, <1>2, <1>3, AsksAfterIs
<1>5. arrived \in 0..n
  BY <1>1, NewestIs DEF ListTypeOK
<1>6. Newest' = m /\ n <= m
  <2>1. ASSUME Asked(m)' PROVE Newest' = m
    <3>1. m \in {0} \cup {i \in Asks : asks'[i] # NotSent}
      BY <2>1, PageAssumption DEF Asked, Asks
    <3>2. \A j \in {0} \cup {i \in Asks : asks'[i] # NotSent} : j <= m /\ j \in Int
      BY <2>1, PageAssumption DEF Asked, Asks
    <3> QED BY <3>1, <3>2, MaxIs DEF Newest
  <2> QED BY <1>2, <1>3, <1>4, <2>1
<1>7. qs[Len(qs)] \in Questions
  OBVIOUS
<1>8. ListTypeOK'
  <2>1. arrived' \in 0..Newest'
    BY <1>2, <1>5, <1>6, <1>4, PageAssumption DEF Asks
  <2> QED BY <1>1, <1>4, <1>7, <2>1 DEF ListTypeOK, tenantRows
<1>9. LastIsTheQuestion'
  BY <1>4 DEF LastIsTheQuestion
<1>10. AnswersAreTrue'
  <2>1. ASSUME NEW i \in Asks, asks'[i].at = "read" PROVE asks'[i] = asks[i]
    <3>1. ~(i > n)
      BY <1>4, <2>1
    <3>2. i \in 1..n
      BY <1>2, <3>1, PageAssumption DEF Asks
    <3> QED BY <1>4, <3>2
  <2>2. arrived # 0 => asks'[arrived] = asks[arrived]
    <3>1. arrived # 0 => arrived \in 1..n
      BY <1>2, <1>5
    <3> QED BY <1>4, <3>1
  <2>3. UNCHANGED <<created, arrived, list, total>>
    BY DEF tenantRows
  <2> QED BY <1>1, <2>1, <2>2, <2>3 DEF AnswersAreTrue, Beyond
<1>11. SwitchesAreTold'
  BY <1>1 DEF SwitchesAreTold, tenantRows
<1> QED BY <1>8, <1>9, <1>10, <1>11

\* The rows of the screen with the switch of one pizzeria on or off.
Switched(tenant, on) ==
    [i \in DOMAIN list |-> IF list[i].tenant = tenant THEN [list[i] EXCEPT !.active = on] ELSE list[i]]

\* An answer to a PATCH changes switches and no row comes or goes.
LEMMA RowsStay ==
    ASSUME list \in Seq(ListRows), NEW tenant, NEW on \in BOOLEAN, NEW rows, rows = Switched(tenant, on)
    PROVE  /\ rows \in Seq(ListRows) /\ Len(rows) = Len(list) /\ DOMAIN rows = DOMAIN list
           /\ rows = <<>> => list = <<>>
           /\ \A i \in DOMAIN list : /\ rows[i].tenant = list[i].tenant
                                     /\ list[i].tenant = tenant => rows[i].active = on
                                     /\ list[i].tenant # tenant => rows[i] = list[i]
<1>1. PICK n \in Nat : n = Len(list) /\ DOMAIN list = 1..n
  OBVIOUS
<1>2. ASSUME NEW i \in 1..n
      PROVE  /\ rows[i] \in ListRows /\ rows[i].tenant = list[i].tenant
             /\ list[i].tenant = tenant => rows[i].active = on
             /\ list[i].tenant # tenant => rows[i] = list[i]
  <2>1. PICK row \in ListRows : row = list[i]
    BY <1>1
  <2>2. rows[i] = IF row.tenant = tenant THEN [row EXCEPT !.active = on] ELSE row
    BY <1>1, <2>1 DEF Switched
  <2> QED BY <2>1, <2>2 DEF ListRows
<1>3. rows = [i \in 1..n |-> rows[i]]
  BY <1>1 DEF Switched
<1>4. rows \in [1..n -> ListRows]
  BY <1>2, <1>3
<1>5. rows \in Seq(ListRows) /\ Len(rows) = n
  BY <1>4
<1> QED BY <1>1, <1>2, <1>4, <1>5

LEMMA ToggleShape ==
    ASSUME ListTypeOK, NEW k \in Toggles, toggles[k].at # "idle"
    PROVE  /\ toggles[k] \in TogglesMade /\ toggles[k] # NotSent /\ toggles[k].at \in {"sent", "applied"}
           /\ toggles[k].tenant \in Tenants /\ toggles[k].active \in BOOLEAN
<1>1. toggles[k] \in TogglesMade /\ toggles[k] # NotSent
  BY DEF ListTypeOK, NotSent
<1> QED BY <1>1 DEF TogglesMade

\* A step that leaves the GETs, the question and what came alone.
LEMMA GetsUntouched ==
    ASSUME ListInv, UNCHANGED <<created, question, asks, arrived, total, hasty>>, list' \in Seq(ListRows),
           Len(list') = Len(list), list' = <<>> => list = <<>>,
           active' \in [Tenants -> BOOLEAN], toggles' \in [Toggles -> TogglesMade \cup {NotSent}], blurred' \in BOOLEAN
    PROVE  ListTypeOK' /\ LastIsTheQuestion' /\ AnswersAreTrue' /\ TurnsHaveRows'
<1>1. ListTypeOK'
  BY DEF ListInv, ListTypeOK, Newest
<1>2. LastIsTheQuestion' /\ TurnsHaveRows'
  BY DEF ListInv, LastIsTheQuestion, TurnsHaveRows, Asked, Beyond
<1>3. AnswersAreTrue'
  <2>1. list = <<>> => list' = <<>>
    BY DEF ListInv, ListTypeOK
  <2> QED BY <2>1 DEF ListInv, AnswersAreTrue, Beyond
<1> QED BY <1>1, <1>2, <1>3

\* Every step of the list keeps the invariant.
LEMMA ListStep == ListInv /\ [ListNext]_listVars => ListInv'
<1> SUFFICES ASSUME ListInv, [ListNext]_listVars PROVE ListInv'
  OBVIOUS
<1>1. ListTypeOK /\ LastIsTheQuestion /\ AnswersAreTrue /\ TurnsHaveRows /\ SwitchesAreTold
  BY DEF ListInv
<1>2. PICK n \in Asks : Asked(n) /\ asks[n].q = question
  BY <1>1 DEF LastIsTheQuestion
<1>3. Newest = n /\ n \in Nat \ {0} /\ n <= MaxAsks /\ MaxAsks \in Nat
  BY <1>2, NewestIs, PageAssumption DEF Asks
<1>4. ASSUME VisitAgain PROVE ListInv'
  <2>1. PICK qs : qs = <<First>>
    OBVIOUS
  <2>2. qs \in Seq(Questions) /\ Len(qs) = 1 /\ qs[1] = First /\ First \in Questions
    BY <2>1 DEF First, Questions
  <2>3. asks' = AsksAfter(0, qs)
    BY <1>4, <2>1 DEF VisitAgain
  <2>4. /\ asks' \in [Asks -> GetsMade \cup {NotSent}]
        /\ Asked(1)' /\ 1 \in Asks /\ asks'[1] = [at |-> "sent", q |-> First]
        /\ \A i \in Asks : asks'[i].at # "read"
    <3>1. 0 + Len(qs) <= MaxAsks /\ 0 \in 0..MaxAsks /\ Len(qs) \in {1, 2} /\ 0 + Len(qs) = 1
      BY <2>2, PageAssumption
    <3>2. /\ asks' \in [Asks -> GetsMade \cup {NotSent}]
          /\ Asked(0 + Len(qs))' /\ 0 + Len(qs) \in Asks
          /\ asks'[0 + Len(qs)] = [at |-> "sent", q |-> qs[Len(qs)]]
          /\ \A i \in Asks : i > 0 => asks'[i].at # "read"
      BY <1>1, <2>2, <2>3, <3>1, AsksAfterIs
    <3>3. \A i \in Asks : i > 0
      BY PageAssumption DEF Asks
    <3> QED BY <2>2, <3>1, <3>2, <3>3
  <2>5. /\ UNCHANGED <<created, active, toggles>> /\ question' = First /\ arrived' = 0 /\ list' = <<>> /\ total' = 0
        /\ blurred' \in BOOLEAN /\ hasty' = FALSE
    BY <1>4 DEF VisitAgain, tenantRows
  <2>6. ListTypeOK'
    <3>1. Newest' \in Nat
      <4>1. 1 \in {0} \cup {i \in Asks : asks'[i] # NotSent}
        BY <2>4 DEF Asked
      <4>2. \A j \in {0} \cup {i \in Asks : asks'[i] # NotSent} : j <= 1 /\ j \in Int
        BY <2>4, PageAssumption DEF Asked, Asks
      <4> QED BY <4>1, <4>2, MaxIs DEF Newest
    <3>2. list' \in Seq(ListRows) /\ Len(list') <= PageSize /\ arrived' \in 0..Newest'
      BY <2>5, <3>1, PageAssumption, EmptySeq
    <3> QED BY <1>1, <2>2, <2>4, <2>5, <3>2 DEF ListTypeOK
  <2>7. LastIsTheQuestion' /\ AnswersAreTrue' /\ TurnsHaveRows' /\ SwitchesAreTold'
    <3>1. question'.page = 1
      BY <2>5 DEF First
    <3> QED BY <2>4, <2>5, <3>1 DEF LastIsTheQuestion, AnswersAreTrue, TurnsHaveRows, SwitchesAreTold
  <2> QED BY <2>6, <2>7 DEF ListInv
<1>5. ASSUME Search PROVE ListInv'
  <2>1. PICK there \in Questions : there = [page |-> question.page, search |-> ~question.search]
    BY <1>1 DEF ListTypeOK, Questions
  <2>2. PICK qs : qs = IF question.page = 1 THEN <<there>> ELSE <<there, [there EXCEPT !.page = 1]>>
    OBVIOUS
  <2>3. qs \in Seq(Questions) /\ Len(qs) \in {1, 2} /\ qs[Len(qs)].page = 1 /\ Last(qs) = qs[Len(qs)]
    <3>1. [there EXCEPT !.page = 1] \in Questions /\ [there EXCEPT !.page = 1].page = 1
      <4>1. there \in [page : Nat \ {0}, search : BOOLEAN]
        BY DEF Questions
      <4>2. [there EXCEPT !.page = 1] = [page |-> 1, search |-> there.search] /\ there.search \in BOOLEAN
        BY <4>1
      <4> QED BY <4>2 DEF Questions
    <3>2. CASE question.page = 1
      BY <2>1, <2>2, <3>2 DEF Last
    <3>3. CASE question.page # 1
      BY <2>1, <2>2, <3>1, <3>3 DEF Last
    <3> QED BY <3>2, <3>3
  <2>4. /\ n + Len(qs) <= MaxAsks /\ question' = qs[Len(qs)] /\ asks' = AsksAfter(n, qs) /\ hasty' = FALSE
        /\ UNCHANGED <<tenantRows, arrived, list, total, toggles, blurred>>
    BY <1>5, <1>3, <2>1, <2>2, <2>3 DEF Search
  <2>5. ListTypeOK' /\ LastIsTheQuestion' /\ AnswersAreTrue' /\ SwitchesAreTold'
    BY <1>2, <2>3, <2>4, AskingKeeps
  <2>6. TurnsHaveRows'
    BY <2>3, <2>4 DEF TurnsHaveRows
  <2> QED BY <2>5, <2>6 DEF ListInv
<1>6. ASSUME NEW page \in 1..TotalPages, Turn(page) PROVE ListInv'
  <2>1. total \in Nat
    BY <1>1, TotalIsNat
  <2>2. page \in Nat \ {0}
    <3>1. TotalPages \in Int
      BY <2>1, TotalPagesIs, PageAssumption
    <3> QED BY <3>1
  <2>3. PICK turned : turned = [question EXCEPT !.page = page]
    OBVIOUS
  <2>4. turned \in Questions /\ turned.page = page /\ turned.search = question.search
    BY <1>1, <2>2, <2>3 DEF ListTypeOK, Questions
  <2>5. PICK qs : qs = <<turned>>
    OBVIOUS
  <2>6. qs \in Seq(Questions) /\ Len(qs) = 1 /\ qs[Len(qs)] = turned
    BY <2>4, <2>5
  <2>7. /\ n + Len(qs) <= MaxAsks /\ question' = turned /\ asks' = AsksAfter(n, qs)
        /\ hasty' = (hasty \/ arrived # n) /\ hasty' \in BOOLEAN
        /\ UNCHANGED <<tenantRows, arrived, list, total, toggles, blurred>>
    BY <1>6, <1>3, <2>3, <2>5, <2>6 DEF Turn
  <2>8. ListTypeOK' /\ LastIsTheQuestion' /\ AnswersAreTrue' /\ SwitchesAreTold'
    BY <1>2, <2>6, <2>7, AskingKeeps
  <2>9. TurnsHaveRows'
    <3> SUFFICES ASSUME ~hasty', page # 1 PROVE ~Beyond(question)'
      BY <2>4, <2>7 DEF TurnsHaveRows
    <3>1. arrived = n
      BY <2>7
    <3>2. total = Len(created[question.search])
      BY <1>1, <1>2, <1>3, <3>1 DEF AnswersAreTrue
    <3>3. (page - 1) * PageSize < total
      BY <2>1, PagesHaveRows
    <3>4. (page - 1) * PageSize \in Int
      <4>1. page - 1 \in Int /\ PageSize \in Int
        BY <2>2, PageAssumption
      <4> QED BY <4>1
    <3>5. ~((page - 1) * PageSize >= total)
      BY <2>1, <3>3, <3>4
    <3> QED BY <2>4, <2>7, <3>2, <3>5 DEF Beyond, tenantRows
  <2> QED BY <2>8, <2>9 DEF ListInv
<1>7. ASSUME NEW i \in Asks, ReadList(i) PROVE ListInv'
  <2>1. asks[i] # NotSent /\ asks[i].at = "sent" /\ asks[i].q \in Questions
    BY <1>7, <1>1, AskShape DEF ReadList, NotSent
  <2>2. PICK q \in Questions : q = asks[i].q
    BY <2>1
  <2>3. PICK answer : answer = Answer(q)
    OBVIOUS
  <2>4. /\ answer.items \in Seq(ListRows) /\ Len(answer.items) <= PageSize
        /\ answer.total = Len(created[q.search]) /\ answer.total \in Nat
        /\ answer.items = <<>> => Beyond(q)
        /\ answer \in [items : Seq(ListRows), total : Nat]
    <3>1. /\ Answer(q).items \in Seq(ListRows) /\ Len(Answer(q).items) <= PageSize
          /\ Answer(q).total = Len(created[q.search]) /\ Answer(q).total \in Nat
          /\ Answer(q).items = <<>> => Beyond(q)
      BY <1>1, AnswerShape DEF ListTypeOK
    <3>2. Answer(q) = [items |-> Answer(q).items, total |-> Answer(q).total]
      BY DEF Answer
    <3> QED BY <2>3, <3>1, <3>2
  <2>5. PICK get : get = [at |-> "read", q |-> q, answer |-> answer]
    OBVIOUS
  <2>6. get \in GetsMade /\ get # NotSent /\ get.at = "read" /\ get.q = q /\ get.answer = answer
    BY <2>4, <2>5 DEF GetsMade, NotSent
  <2>7. /\ asks' = [asks EXCEPT ![i] = get]
        /\ UNCHANGED <<created, active, question, arrived, list, total, toggles, blurred, hasty>>
    BY <1>7, <2>2, <2>3, <2>5 DEF ReadList, tenantRows
  <2>8. /\ asks' \in [Asks -> GetsMade \cup {NotSent}]
        /\ asks'[i] = get /\ \A j \in Asks \ {i} : asks'[j] = asks[j]
        /\ \A j \in Asks : asks'[j] # NotSent <=> asks[j] # NotSent
        /\ \A j \in Asks : asks[j] # NotSent => asks'[j].q = asks[j].q
    BY <1>1, <2>1, <2>2, <2>6, <2>7 DEF ListTypeOK
  <2>9. Asked(n)' /\ asks'[n].q = question
    BY <1>2, <2>8, PageAssumption DEF Asked, Asks
  <2>10. LastIsTheQuestion' /\ TurnsHaveRows' /\ SwitchesAreTold'
    BY <1>1, <2>7, <2>9 DEF LastIsTheQuestion, TurnsHaveRows, SwitchesAreTold, Beyond
  <2>11. AnswersAreTrue'
    BY <1>1, <2>4, <2>6, <2>7, <2>8 DEF AnswersAreTrue, Beyond
  <2>12. ListTypeOK'
    <3>1. {j \in Asks : asks'[j] # NotSent} = {j \in Asks : asks[j] # NotSent}
      BY <2>8
    <3>2. Newest' = Newest
      BY <3>1 DEF Newest
    <3> QED BY <1>1, <2>7, <2>8, <3>2 DEF ListTypeOK
  <2> QED BY <2>10, <2>11, <2>12 DEF ListInv
<1>8. ASSUME NEW i \in Asks, ListArrives(i) PROVE ListInv'
  <2>1. /\ asks[i] # NotSent /\ asks[i].at = "read" /\ asks[i].q \in Questions
        /\ asks[i].answer.items \in Seq(ListRows) /\ asks[i].answer.total \in Nat
    BY <1>8, <1>1, AskShape DEF ListArrives, NotSent
  <2>2. PICK get : get = [at |-> "over", q |-> asks[i].q]
    OBVIOUS
  <2>3. get \in GetsMade /\ get # NotSent /\ get.at = "over" /\ get.q = asks[i].q
    BY <2>1, <2>2 DEF GetsMade, NotSent
  <2>4. /\ asks' = [asks EXCEPT ![i] = get] /\ UNCHANGED <<created, active, question, toggles, hasty>>
        /\ \/ /\ list' = asks[i].answer.items /\ total' = asks[i].answer.total /\ arrived' = i
              /\ blurred' = (blurred \/ \E j \in DOMAIN list' : list'[j].active # active[list'[j].tenant])
           \/ UNCHANGED <<list, total, arrived, blurred>>
    BY <1>8, <2>2 DEF ListArrives, tenantRows
  <2>5. /\ asks' \in [Asks -> GetsMade \cup {NotSent}]
        /\ asks'[i] = get /\ \A j \in Asks \ {i} : asks'[j] = asks[j]
        /\ \A j \in Asks : asks'[j] # NotSent <=> asks[j] # NotSent
        /\ \A j \in Asks : asks[j] # NotSent => asks'[j].q = asks[j].q
    BY <1>1, <2>1, <2>3, <2>4 DEF ListTypeOK
  <2>6. Asked(n)' /\ asks'[n].q = question
    BY <1>2, <2>5, PageAssumption DEF Asked, Asks
  <2>7. LastIsTheQuestion' /\ TurnsHaveRows'
    BY <1>1, <2>4, <2>6 DEF LastIsTheQuestion, TurnsHaveRows, Beyond
  <2>8. /\ asks[i].answer.total = Len(created[asks[i].q.search])
        /\ Len(asks[i].answer.items) <= PageSize
        /\ asks[i].answer.items = <<>> => Beyond(asks[i].q)
    BY <1>1, <2>1 DEF AnswersAreTrue
  <2>9. \A j \in Asks : asks'[j].at = "read" => asks'[j] = asks[j]
    BY <2>3, <2>5
  <2>10. AnswersAreTrue'
    <3>1. CASE UNCHANGED <<list, total, arrived, blurred>>
      BY <1>1, <2>4, <2>5, <2>9, <3>1 DEF AnswersAreTrue, Beyond
    <3>2. CASE list' = asks[i].answer.items /\ total' = asks[i].answer.total /\ arrived' = i
      <4>1. i # 0 /\ asks'[i].q = asks[i].q /\ asks'[i] # NotSent
        BY <2>1, <2>5, PageAssumption DEF Asks
      <4> QED BY <1>1, <2>4, <2>8, <2>9, <3>2, <4>1 DEF AnswersAreTrue, Beyond
    <3> QED BY <2>4, <3>1, <3>2
  <2>11. ListTypeOK'
    <3>1. {j \in Asks : asks'[j] # NotSent} = {j \in Asks : asks[j] # NotSent}
      BY <2>5
    <3>2. Newest' = n
      BY <1>3, <3>1 DEF Newest
    <3>3. i \in 0..n
      BY <1>2, <1>3, <2>1, PageAssumption DEF Asked, Asks
    <3>4. /\ arrived' \in 0..n /\ list' \in Seq(ListRows) /\ Len(list') <= PageSize
          /\ total' \in {0, Len(created[FALSE]), Len(created[TRUE])} /\ blurred' \in BOOLEAN
      <4>1. CASE UNCHANGED <<list, total, arrived, blurred>>
        BY <1>1, <1>3, <4>1 DEF ListTypeOK
      <4>2. CASE /\ list' = asks[i].answer.items /\ total' = asks[i].answer.total /\ arrived' = i
                 /\ blurred' = (blurred \/ \E j \in DOMAIN list' : list'[j].active # active[list'[j].tenant])
        <5>1. asks[i].q.search \in BOOLEAN
          BY <1>1, <2>1, AskShape
        <5>2. total' \in {0, Len(created[FALSE]), Len(created[TRUE])}
          BY <2>8, <4>2, <5>1
        <5>3. blurred' \in BOOLEAN
          BY <4>2
        <5> QED BY <2>1, <2>8, <3>3, <4>2, <5>2, <5>3
      <4> QED BY <2>4, <4>1, <4>2
    <3> QED BY <1>1, <2>4, <2>5, <3>2, <3>4 DEF ListTypeOK
  <2>12. SwitchesAreTold'
    <3>1. CASE UNCHANGED <<list, total, arrived, blurred>>
      BY <1>1, <2>4, <3>1 DEF SwitchesAreTold
    <3>2. CASE blurred' = (blurred \/ \E j \in DOMAIN list' : list'[j].active # active[list'[j].tenant])
      BY <2>4, <3>2 DEF SwitchesAreTold
    <3> QED BY <2>4, <3>1, <3>2
  <2> QED BY <2>7, <2>10, <2>11, <2>12 DEF ListInv
<1>9. ASSUME NEW k \in Toggles, NEW i \in DOMAIN list, Toggle(k, list[i]) PROVE ListInv'
  <2>1. PICK row \in ListRows : row = list[i]
    BY <1>1 DEF ListTypeOK
  <2>2. PICK toggle : toggle = [at |-> "sent", tenant |-> row.tenant, active |-> ~row.active]
    OBVIOUS
  <2>3. toggle \in TogglesMade /\ toggle # NotSent
    BY <2>1, <2>2 DEF TogglesMade, ListRows, NotSent
  <2>4. /\ toggles[k] = NotSent /\ toggles' = [toggles EXCEPT ![k] = toggle]
        /\ UNCHANGED <<created, active, question, asks, arrived, list, total, blurred, hasty>>
    BY <1>9, <2>1, <2>2 DEF Toggle, tenantRows, screen
  <2>5. toggles' \in [Toggles -> TogglesMade \cup {NotSent}] /\ \A q \in Toggles \ {k} : toggles'[q] = toggles[q]
    BY <1>1, <2>3, <2>4 DEF ListTypeOK
  <2>6. ListTypeOK' /\ LastIsTheQuestion' /\ AnswersAreTrue' /\ TurnsHaveRows'
    BY <1>1, <2>4, <2>5, GetsUntouched DEF ListTypeOK
  <2>7. SwitchesAreTold'
    <3>1. \A q \in Toggles : toggles[q].at = "applied" => toggles'[q] = toggles[q]
      BY <2>4, <2>5 DEF NotSent
    <3> QED BY <1>1, <2>4, <3>1 DEF SwitchesAreTold
  <2> QED BY <2>6, <2>7 DEF ListInv
<1>10. ASSUME NEW k \in Toggles, SetActive(k) PROVE ListInv'
  <2>1. PICK old \in TogglesMade : old = toggles[k] /\ old.at = "sent" /\ old.tenant \in Tenants /\ old.active \in BOOLEAN
    BY <1>10, <1>1, ToggleShape DEF SetActive
  <2>2. PICK toggle : toggle = [old EXCEPT !.at = "applied"]
    OBVIOUS
  <2>3. toggle \in TogglesMade /\ toggle.at = "applied" /\ toggle.tenant = old.tenant
    BY <2>1, <2>2 DEF TogglesMade
  <2>4. /\ active' = [active EXCEPT ![old.tenant] = old.active] /\ toggles' = [toggles EXCEPT ![k] = toggle]
        /\ UNCHANGED <<created, question, asks, arrived, list, total, blurred, hasty>>
    BY <1>10, <2>1, <2>2 DEF SetActive, screen
  <2>5. /\ toggles' \in [Toggles -> TogglesMade \cup {NotSent}] /\ \A q \in Toggles \ {k} : toggles'[q] = toggles[q]
        /\ toggles'[k] = toggle
        /\ active' \in [Tenants -> BOOLEAN] /\ \A t \in Tenants \ {old.tenant} : active'[t] = active[t]
    BY <1>1, <2>1, <2>3, <2>4 DEF ListTypeOK
  <2>6. ListTypeOK' /\ LastIsTheQuestion' /\ AnswersAreTrue' /\ TurnsHaveRows'
    BY <1>1, <2>4, <2>5, GetsUntouched DEF ListTypeOK
  <2>7. SwitchesAreTold'
    <3> SUFFICES ASSUME ~blurred, NEW i \in DOMAIN list, list[i].active # active'[list[i].tenant]
                 PROVE  \E q \in Toggles : toggles'[q].at = "applied" /\ toggles'[q].tenant = list[i].tenant
      BY <2>4 DEF SwitchesAreTold
    <3>1. list[i].tenant \in Tenants
      <4>1. list[i] \in ListRows
        BY <1>1 DEF ListTypeOK
      <4> QED BY <4>1 DEF ListRows
    <3>2. CASE list[i].tenant = old.tenant
      BY <2>3, <2>5, <3>2
    <3>3. CASE list[i].tenant # old.tenant
      <4>1. PICK q \in Toggles : toggles[q].at = "applied" /\ toggles[q].tenant = list[i].tenant
        BY <1>1, <2>5, <3>1, <3>3 DEF SwitchesAreTold
      <4>2. q # k
        BY <2>1, <4>1
      <4> QED BY <2>5, <4>1, <4>2
    <3> QED BY <3>2, <3>3
  <2> QED BY <2>6, <2>7 DEF ListInv
<1>11. ASSUME NEW k \in Toggles, ToggleAnswered(k) PROVE ListInv'
  <2>1. PICK t \in Tenants, on \in BOOLEAN : t = toggles[k].tenant /\ on = toggles[k].active
    BY <1>11, <1>1, ToggleShape DEF ToggleAnswered
  <2>2. /\ toggles' = [toggles EXCEPT ![k] = NotSent]
        /\ UNCHANGED <<created, active, question, asks, arrived, total, hasty>>
        /\ \/ list' = Switched(t, on) /\ blurred' = (blurred \/ on # active[t])
           \/ UNCHANGED list /\ blurred' = TRUE
    BY <1>11, <2>1 DEF ToggleAnswered, tenantRows, Switched
  <2>3. toggles' \in [Toggles -> TogglesMade \cup {NotSent}] /\ \A q \in Toggles \ {k} : toggles'[q] = toggles[q]
    BY <1>1, <2>2 DEF ListTypeOK
  <2>4. CASE UNCHANGED list /\ blurred' = TRUE
    <3>1. ListTypeOK' /\ LastIsTheQuestion' /\ AnswersAreTrue' /\ TurnsHaveRows'
      BY <1>1, <2>2, <2>3, <2>4, GetsUntouched DEF ListTypeOK
    <3> QED BY <2>4, <3>1 DEF ListInv, SwitchesAreTold
  <2>5. CASE list' = Switched(t, on) /\ blurred' = (blurred \/ on # active[t])
    <3>1. /\ list' \in Seq(ListRows) /\ Len(list') = Len(list) /\ DOMAIN list' = DOMAIN list
          /\ list' = <<>> => list = <<>>
          /\ \A i \in DOMAIN list : /\ list'[i].tenant = list[i].tenant
                                    /\ list[i].tenant = t => list'[i].active = on
                                    /\ list[i].tenant # t => list'[i] = list[i]
      BY <1>1, <2>5, RowsStay DEF ListTypeOK
    <3>2. blurred' \in BOOLEAN
      BY <2>5
    <3>3. ListTypeOK' /\ LastIsTheQuestion' /\ AnswersAreTrue' /\ TurnsHaveRows'
      BY <1>1, <2>2, <2>3, <3>1, <3>2, GetsUntouched DEF ListTypeOK
    <3>4. SwitchesAreTold'
      <4> SUFFICES ASSUME ~blurred', NEW i \in DOMAIN list, list'[i].active # active[list[i].tenant]
                   PROVE  \E q \in Toggles : toggles'[q].at = "applied" /\ toggles'[q].tenant = list[i].tenant
        BY <2>2, <3>1 DEF SwitchesAreTold
      <4>1. ~blurred /\ on = active[t]
        BY <2>5
      <4>2. list[i].tenant # t /\ list'[i] = list[i]
        BY <3>1, <4>1
      <4>3. PICK q \in Toggles : toggles[q].at = "applied" /\ toggles[q].tenant = list[i].tenant
        BY <1>1, <4>1, <4>2 DEF SwitchesAreTold
      <4>4. q # k
        BY <2>1, <4>2, <4>3
      <4> QED BY <2>3, <4>3, <4>4
    <3> QED BY <3>3, <3>4 DEF ListInv
  <2> QED BY <2>2, <2>4, <2>5
<1>12. CASE UNCHANGED listVars
  BY <1>1, <1>12 DEF ListInv, ListTypeOK, LastIsTheQuestion, AnswersAreTrue, TurnsHaveRows, SwitchesAreTold,
     Asked, Beyond, Newest, listVars, tenantRows, screen
<1> QED BY <1>4, <1>5, <1>6, <1>7, <1>8, <1>9, <1>10, <1>11, <1>12 DEF ListNext

LEMMA ListInitial == ListInit => ListInv
<1> SUFFICES ASSUME ListInit PROVE ListInv
  OBVIOUS
<1>1. First \in Questions /\ First.page = 1 /\ 1 \in Asks
  BY PageAssumption DEF First, Questions, Asks
<1>2. /\ asks = [i \in Asks |-> IF i = 1 THEN [at |-> "sent", q |-> First] ELSE NotSent]
      /\ question = First /\ arrived = 0 /\ list = <<>> /\ total = 0 /\ hasty = FALSE /\ blurred = FALSE
      /\ toggles = [k \in Toggles |-> NotSent] /\ active \in [Tenants -> BOOLEAN]
  BY DEF ListInit
<1>3. Asked(1) /\ asks[1].q = question
  BY <1>1, <1>2, PageAssumption DEF Asked, Asks, NotSent
<1>4. \A i \in Asks : asks[i].at # "read" /\ asks[i] \in GetsMade \cup {NotSent}
  BY <1>1, <1>2 DEF GetsMade, NotSent
<1>5. created \in [BOOLEAN -> Seq(Tenants)]
  <2>1. ASSUME NEW S \in SUBSET Tenants, NEW s \in SetToSeqs(S) PROVE s \in Seq(Tenants)
    <3>1. Cardinality(S) \in Nat
      BY TenantsAssumption, FS_Subset, FS_CardinalityType
    <3>2. s \in [1..Cardinality(S) -> Tenants]
      BY DEF SetToSeqs
    <3> QED BY <3>1, <3>2
  <2>2. PICK all \in SetToSeqs(Tenants), found \in SetToSeqs(Tenants \cap Matching) :
            created = [search \in BOOLEAN |-> IF search THEN found ELSE all]
    BY DEF ListInit
  <2>3. all \in Seq(Tenants) /\ found \in Seq(Tenants)
    BY <2>1
  <2> QED BY <2>2, <2>3
<1>6. ListTypeOK
  <2>1. Newest = 1
    BY <1>3, NewestIs
  <2>2. list \in Seq(ListRows) /\ Len(list) <= PageSize /\ arrived \in 0..Newest
    BY <1>2, <2>1, PageAssumption, EmptySeq
  <2>3. asks \in [Asks -> GetsMade \cup {NotSent}] /\ toggles \in [Toggles -> TogglesMade \cup {NotSent}]
    BY <1>2, <1>4
  <2> QED BY <1>1, <1>2, <1>5, <2>2, <2>3 DEF ListTypeOK
<1> QED BY <1>1, <1>2, <1>3, <1>4, <1>6
       DEF ListInv, LastIsTheQuestion, AnswersAreTrue, TurnsHaveRows, SwitchesAreTold

LEMMA ListAlways == ListSpec => []ListInv
  BY ListInitial, ListStep, PTL DEF ListSpec

\* The rows, the GETs and the PATCHes of the list have their types (ListTypeOK).
THEOREM ListTypes == ListSpec => []ListTypeOK
<1>1. ListInv => ListTypeOK
  BY DEF ListInv
<1> QED BY <1>1, ListAlways, PTL

\* When the last GET that arrived is the last one sent, the list answers the question on the
\* screen, and is empty past the first page only if a button was clicked too early
\* (ListAnswersTheQuestion).
THEOREM ListAnswers == ListSpec => []ListAnswersTheQuestion
<1>1. ASSUME ListInv, arrived = Newest
      PROVE  asks[arrived].q = question /\ (list = <<>> => question.page = 1 \/ hasty)
  <2>1. PICK n \in Asks : Asked(n) /\ asks[n].q = question
    BY <1>1 DEF ListInv, LastIsTheQuestion
  <2>2. arrived = n /\ arrived # 0
    BY <1>1, <2>1, NewestIs, PageAssumption DEF Asks
  <2>3. list = <<>> => Beyond(question)
    BY <1>1, <2>1, <2>2 DEF ListInv, AnswersAreTrue
  <2> QED BY <1>1, <2>1, <2>2, <2>3 DEF ListInv, TurnsHaveRows
<1>2. ListInv => ListAnswersTheQuestion
  BY <1>1 DEF ListAnswersTheQuestion
<1> QED BY <1>2, ListAlways, PTL

\* With nothing under way, lost or overtaken the switches show which pizzerias are active
\* (SwitchesSettle).
THEOREM TheSwitchesSettle == ListSpec => []SwitchesSettle
<1>1. ASSUME ListInv, ~blurred, \A k \in Toggles : toggles[k] = NotSent, NEW i \in DOMAIN list
      PROVE  list[i].active = active[list[i].tenant]
  <2>1. \A k \in Toggles : toggles[k].at # "applied"
    BY <1>1 DEF NotSent
  <2> QED BY <1>1, <2>1 DEF ListInv, SwitchesAreTold
<1>2. ListInv => SwitchesSettle
  BY <1>1 DEF SwitchesSettle
<1> QED BY <1>2, ListAlways, PTL

-----------------------------------------------------------------------------
(* The form of a pizzeria. *)

\* What the form shows, with no choice of the administrator's, is the plan it knows the pizzeria has.
FormMeans ==
    form.open => /\ ~form.chosen /\ form.original # None => form.plan = form.original
                 /\ form.sub # "over" => form.tenant # None

\* The same of what was submitted; a second call changes a plan.
SavesMean ==
    \A s \in Saves : saves[s] # NoSave =>
        /\ ~saves[s].chosen /\ saves[s].original # None => saves[s].plan = saves[s].original
        /\ saves[s].at = "second" => saves[s].plan \notin {None, saves[s].original} /\ saves[s].tenant # None

FormInv == FormTypeOK /\ FormMeans /\ SavesMean

-----------------------------------------------------------------------------
\* What a submission carries.
LEMMA SaveShape ==
    ASSUME FormTypeOK, NEW s \in Saves, saves[s].at # "idle"
    PROVE  /\ saves[s] \in Submissions /\ saves[s] # NoSave
           /\ saves[s].at \in {"first", "second", "done"}
           /\ saves[s].tenant \in existing \cup {None}
           /\ saves[s].plan \in PlanChoices /\ saves[s].original \in PlanChoices
           /\ saves[s].chosen \in BOOLEAN
<1>1. saves[s] \in Submissions /\ saves[s] # NoSave
  BY DEF FormTypeOK, NoSave
<1> QED BY <1>1 DEF FormTypeOK, Submissions

LEMMA SubmissionMoves ==
    ASSUME NEW save \in Submissions, NEW at \in {"first", "second", "done"}
    PROVE  /\ [save EXCEPT !.at = at] \in Submissions
           /\ [save EXCEPT !.at = at].at = at
           /\ [save EXCEPT !.at = at].tenant = save.tenant
           /\ [save EXCEPT !.at = at].plan = save.plan
           /\ [save EXCEPT !.at = at].original = save.original
           /\ [save EXCEPT !.at = at].chosen = save.chosen
           /\ [save EXCEPT !.at = at] # NoSave
<1>1. [save EXCEPT !.at = at].at = at /\ at # "idle"
  BY DEF Submissions
<1> QED BY <1>1 DEF Submissions, NoSave

LEMMA TenantFormShape ==
    ASSUME FormTypeOK, form.open
    PROVE  /\ form \in TenantForms
           /\ form.tenant \in existing \cup {None} /\ form.plan \in PlanChoices
           /\ form.original \in PlanChoices /\ form.answer \in PlanChoices /\ form.chosen \in BOOLEAN
           /\ form.sub \in {"sent", "read", "over"} /\ form.save \in Saves \cup {None}
<1>1. form \in TenantForms
  BY DEF FormTypeOK, NoForm
<1> QED BY <1>1 DEF FormTypeOK, TenantForms

LEMMA FirstPlan == (IF PlanList = <<>> THEN None ELSE Head(PlanList)) \in PlanChoices
  BY OfferedAssumption DEF PlanChoices

\* A step of the form alone.
LEMMA FormMoves ==
    ASSUME FormInv, UNCHANGED <<existing, planOf, saves>>, FormMeans',
           view' \in {"tenants", "tenant-form", "plans"}, form'.open <=> view' = "tenant-form",
           form' \in TenantForms \cup {NoForm}, form'.open => form'.tenant \in existing \cup {None}
    PROVE  FormInv'
  BY DEF FormInv, FormTypeOK, SavesMean

\* A step of one submission, that may add a pizzeria and leaves the form alone, or closes it.
LEMMA SaveMoves ==
    ASSUME FormInv, NEW s \in Saves, NEW save \in Submissions \cup {NoSave},
           saves' = [saves EXCEPT ![s] = save],
           save # NoSave => /\ save.tenant \in existing' \cup {None}
                            /\ ~save.chosen /\ save.original # None => save.plan = save.original
                            /\ save.at = "second" => save.plan \notin {None, save.original} /\ save.tenant # None,
           existing \subseteq existing', existing' \subseteq Pizzerias,
           planOf' \in [Pizzerias -> PlanIds \cup {None}],
           FormMeans', view' \in {"tenants", "tenant-form", "plans"}, form'.open <=> view' = "tenant-form",
           form' \in TenantForms \cup {NoForm}, form'.open => form'.tenant \in existing' \cup {None}
    PROVE  FormInv'
<1>1. saves' \in [Saves -> Submissions \cup {NoSave}]
  BY DEF FormInv, FormTypeOK
<1>2. saves'[s] = save /\ \A q \in Saves \ {s} : saves'[q] = saves[q]
  BY DEF FormInv, FormTypeOK
<1>3. \A q \in Saves : saves'[q] # NoSave => saves'[q].tenant \in existing' \cup {None}
  BY <1>2 DEF FormInv, FormTypeOK
<1>4. SavesMean'
  BY <1>2 DEF FormInv, SavesMean
<1> QED BY <1>1, <1>3, <1>4 DEF FormInv, FormTypeOK

\* Every step of the form keeps the invariant.
LEMMA FormStep == FormInv /\ [FormNext]_formVars => FormInv'
<1> SUFFICES ASSUME FormInv, [FormNext]_formVars PROVE FormInv'
  OBVIOUS
<1>1. FormTypeOK /\ FormMeans /\ SavesMean
  BY DEF FormInv
<1>2. ASSUME NEW t \in existing \cup {None}, OpenForm(t) PROVE FormInv'
  <2>1. PICK plan \in PlanChoices : plan = IF PlanList = <<>> THEN None ELSE Head(PlanList)
    BY FirstPlan
  <2>2. form' = [open |-> TRUE, tenant |-> t, plan |-> plan, original |-> None, chosen |-> FALSE,
                 sub |-> IF t = None THEN "over" ELSE "sent", answer |-> None, save |-> None, error |-> FALSE]
    BY <1>2, <2>1 DEF OpenForm
  <2>3. form' \in TenantForms
    BY <1>1, <2>2 DEF TenantForms, PlanChoices, FormTypeOK
  <2>4. FormMeans' /\ form'.open /\ form'.tenant = t
    BY <2>2 DEF FormMeans
  <2> QED BY <1>2, <2>3, <2>4, FormMoves DEF OpenForm
<1>3. ASSUME NEW page \in {"tenants", "plans"}, Leave(page) PROVE FormInv'
  <2>1. form' = NoForm /\ ~form'.open
    BY <1>3 DEF Leave, NoForm
  <2> QED BY <1>3, <2>1, FormMoves DEF Leave, FormMeans
<1>4. ASSUME ReadSubscription PROVE FormInv'
  <2>1. form \in TenantForms /\ form.open /\ form.sub = "sent" /\ form.tenant \in existing
    BY <1>4, <1>1, TenantFormShape DEF ReadSubscription, FormMeans
  <2>2. PICK answer \in PlanChoices : answer = planOf[form.tenant]
    BY <1>1, <2>1 DEF FormTypeOK, PlanChoices
  <2>3. form' = [form EXCEPT !.sub = "read", !.answer = answer]
    BY <1>4, <2>2 DEF ReadSubscription
  <2>4. form' \in TenantForms /\ form'.open = form.open /\ form'.tenant = form.tenant
        /\ form'.plan = form.plan /\ form'.original = form.original /\ form'.chosen = form.chosen
    BY <2>1, <2>3 DEF TenantForms
  <2>5. FormMeans'
    BY <1>4, <1>1, <2>1, <2>4 DEF FormMeans, ReadSubscription
  <2> QED BY <1>4, <1>1, <2>1, <2>4, <2>5, FormMoves DEF ReadSubscription, FormTypeOK
<1>5. ASSUME SubscriptionAnswers PROVE FormInv'
  <2>1. form \in TenantForms /\ form.open /\ form.answer \in PlanChoices
    BY <1>5, <1>1, TenantFormShape DEF SubscriptionAnswers
  <2>2. form' \in TenantForms /\ form'.open = form.open /\ form'.tenant = form.tenant /\ form'.sub = "over"
    BY <1>5, <2>1 DEF SubscriptionAnswers, TenantForms
  <2>3. \/ form'.plan = form'.original
        \/ form'.plan = form.plan /\ form'.original = form.original /\ form'.chosen = form.chosen
    BY <1>5, <2>1 DEF SubscriptionAnswers, TenantForms
  <2>4. FormMeans'
    BY <1>1, <2>1, <2>2, <2>3 DEF FormMeans
  <2> QED BY <1>5, <1>1, <2>1, <2>2, <2>4, FormMoves DEF SubscriptionAnswers, FormTypeOK
<1>6. ASSUME NEW p \in PlanIds, Choose(p) PROVE FormInv'
  <2>1. form \in TenantForms /\ form.open
    BY <1>6, <1>1, TenantFormShape DEF Choose
  <2>2. form' \in TenantForms /\ form'.open = form.open /\ form'.tenant = form.tenant /\ form'.sub = form.sub
        /\ form'.chosen
    BY <1>6, <2>1 DEF Choose, TenantForms, PlanChoices
  <2>3. FormMeans'
    BY <1>1, <2>1, <2>2 DEF FormMeans
  <2> QED BY <1>6, <1>1, <2>1, <2>2, <2>3, FormMoves DEF Choose, FormTypeOK
<1>7. ASSUME NEW p \in PlanIds, NEW t \in Pizzerias, OtherPlan(t, p) PROVE FormInv'
  BY <1>7, <1>1 DEF OtherPlan, FormInv, FormTypeOK, FormMeans, SavesMean
<1>8. ASSUME NEW s \in Saves, Submit(s) PROVE FormInv'
  <2>1. form \in TenantForms /\ form.open /\ form.tenant \in existing \cup {None}
        /\ form.plan \in PlanChoices /\ form.original \in PlanChoices /\ form.chosen \in BOOLEAN
    BY <1>8, <1>1, TenantFormShape DEF Submit
  <2>2. PICK save : save = [at |-> "first", tenant |-> form.tenant, plan |-> form.plan,
                            original |-> form.original, chosen |-> form.chosen]
    OBVIOUS
  <2>3. save \in Submissions
    BY <1>1, <2>1, <2>2 DEF Submissions, FormTypeOK
  <2>4. /\ save.tenant = form.tenant /\ save.at = "first" /\ save.plan = form.plan
        /\ save.original = form.original /\ save.chosen = form.chosen
    BY <2>2
  <2>5. form' = [form EXCEPT !.save = s, !.error = FALSE] /\ saves' = [saves EXCEPT ![s] = save]
        /\ UNCHANGED <<existing, planOf, view>>
    BY <1>8, <2>2 DEF Submit
  <2>6. form' \in TenantForms /\ form'.open = form.open /\ form'.tenant = form.tenant /\ form'.sub = form.sub
        /\ form'.plan = form.plan /\ form'.original = form.original /\ form'.chosen = form.chosen
    BY <2>1, <2>5 DEF TenantForms
  <2>7. FormMeans'
    BY <1>1, <2>6 DEF FormMeans
  <2>8. /\ save.tenant \in existing' \cup {None}
        /\ ~save.chosen /\ save.original # None => save.plan = save.original
    BY <1>1, <2>1, <2>4, <2>5 DEF FormMeans
  <2>9. existing' \subseteq Pizzerias /\ planOf' \in [Pizzerias -> PlanIds \cup {None}]
        /\ view' = view /\ view \in {"tenants", "tenant-form", "plans"} /\ (form.open <=> view = "tenant-form")
    BY <1>1, <2>5 DEF FormTypeOK
  <2> QED BY <2>1, <2>3, <2>4, <2>5, <2>6, <2>7, <2>8, <2>9, SaveMoves
<1>9. ASSUME NEW s \in Saves, UpdateTenant(s) PROVE FormInv'
  <2>1. PICK at \in {"first", "second", "done"} :
            at = IF saves[s].plan \notin {None, saves[s].original} THEN "second" ELSE "done"
    OBVIOUS
  <2>2. PICK save : save = [saves[s] EXCEPT !.at = at]
    OBVIOUS
  <2>3. /\ saves[s] \in Submissions /\ saves[s] # NoSave /\ saves[s].tenant \in existing /\ saves[s].tenant # None
        /\ saves' = [saves EXCEPT ![s] = save] /\ UNCHANGED <<existing, planOf, view, form>>
    BY <1>9, <1>1, <2>1, <2>2, SaveShape DEF UpdateTenant
  <2>4. /\ save \in Submissions /\ save.tenant = saves[s].tenant /\ save.plan = saves[s].plan
        /\ save.original = saves[s].original /\ save.chosen = saves[s].chosen /\ save.at = at
    BY <2>2, <2>3, SubmissionMoves
  <2>5. /\ ~save.chosen /\ save.original # None => save.plan = save.original
        /\ save.at = "second" => save.plan \notin {None, save.original} /\ save.tenant # None
    BY <1>1, <2>1, <2>3, <2>4 DEF SavesMean
  <2>6. FormMeans' /\ form' = form /\ view' = view /\ existing' \subseteq Pizzerias
        /\ planOf' \in [Pizzerias -> PlanIds \cup {None}] /\ form' \in TenantForms \cup {NoForm}
        /\ view' \in {"tenants", "tenant-form", "plans"} /\ (form'.open <=> view' = "tenant-form")
        /\ (form'.open => form'.tenant \in existing' \cup {None})
    BY <1>1, <2>3 DEF FormTypeOK, FormMeans
  <2> QED BY <2>3, <2>4, <2>5, <2>6, SaveMoves
<1>10. ASSUME NEW s \in Saves, UpdateSubscription(s) PROVE FormInv'
  <2>1. PICK save : save = [saves[s] EXCEPT !.at = "done"]
    OBVIOUS
  <2>2. /\ saves[s] \in Submissions /\ saves[s] # NoSave /\ saves[s].tenant \in existing \cup {None}
        /\ saves' = [saves EXCEPT ![s] = save] /\ UNCHANGED <<existing, view, form>>
        /\ saves[s].plan \in PlanChoices /\ planOf' = [planOf EXCEPT ![saves[s].tenant] = saves[s].plan]
    BY <1>10, <1>1, <2>1, SaveShape DEF UpdateSubscription
  <2>3. /\ save \in Submissions /\ save.tenant = saves[s].tenant /\ save.plan = saves[s].plan
        /\ save.original = saves[s].original /\ save.chosen = saves[s].chosen /\ save.at = "done"
    BY <2>1, <2>2, SubmissionMoves
  <2>4. ~save.chosen /\ save.original # None => save.plan = save.original
    BY <1>1, <2>2, <2>3 DEF SavesMean
  <2>5. FormMeans' /\ existing' \subseteq Pizzerias
        /\ planOf' \in [Pizzerias -> PlanIds \cup {None}] /\ form' \in TenantForms \cup {NoForm}
        /\ view' \in {"tenants", "tenant-form", "plans"} /\ (form'.open <=> view' = "tenant-form")
        /\ (form'.open => form'.tenant \in existing' \cup {None})
    BY <1>1, <2>2 DEF FormTypeOK, FormMeans, PlanChoices
  <2> QED BY <2>2, <2>3, <2>4, <2>5, SaveMoves
<1>11. ASSUME NEW s \in Saves, NEW t \in Pizzerias, Onboard(s, t) PROVE FormInv'
  <2>1. PICK save : save = [saves[s] EXCEPT !.at = "done"]
    OBVIOUS
  <2>2. /\ saves[s] \in Submissions /\ saves[s] # NoSave /\ saves[s].tenant \in existing \cup {None}
        /\ saves' = [saves EXCEPT ![s] = save] /\ UNCHANGED <<view, form>> /\ existing' = existing \cup {t}
        /\ saves[s].plan \in PlanChoices /\ planOf' = [planOf EXCEPT ![t] = saves[s].plan]
    BY <1>11, <1>1, <2>1, SaveShape DEF Onboard
  <2>3. /\ save \in Submissions /\ save.tenant = saves[s].tenant /\ save.plan = saves[s].plan
        /\ save.original = saves[s].original /\ save.chosen = saves[s].chosen /\ save.at = "done"
    BY <2>1, <2>2, SubmissionMoves
  <2>4. ~save.chosen /\ save.original # None => save.plan = save.original
    BY <1>1, <2>2, <2>3 DEF SavesMean
  <2>5. FormMeans' /\ existing' \subseteq Pizzerias
        /\ planOf' \in [Pizzerias -> PlanIds \cup {None}] /\ form' \in TenantForms \cup {NoForm}
        /\ view' \in {"tenants", "tenant-form", "plans"} /\ (form'.open <=> view' = "tenant-form")
        /\ (form'.open => form'.tenant \in existing' \cup {None})
    BY <1>1, <2>2 DEF FormTypeOK, FormMeans, PlanChoices
  <2> QED BY <2>2, <2>3, <2>4, <2>5, SaveMoves
<1>12. ASSUME NEW s \in Saves, Saved(s) PROVE FormInv'
  <2>1. form' = NoForm /\ ~form'.open /\ view' = "tenants" /\ saves' = [saves EXCEPT ![s] = NoSave]
        /\ UNCHANGED <<existing, planOf>>
    BY <1>12 DEF Saved, NoForm
  <2>2. FormMeans' /\ existing' \subseteq Pizzerias /\ planOf' \in [Pizzerias -> PlanIds \cup {None}]
    BY <1>1, <2>1 DEF FormMeans, FormTypeOK
  <2> QED BY <2>1, <2>2, SaveMoves
<1>13. ASSUME NEW s \in Saves, SaveFails(s) PROVE FormInv'
  <2>1. saves' = [saves EXCEPT ![s] = NoSave] /\ UNCHANGED <<existing, planOf, view>>
    BY <1>13 DEF SaveFails
  <2>2. /\ form' \in TenantForms \cup {NoForm} /\ form'.open = form.open
        /\ form.open => /\ form'.tenant = form.tenant /\ form'.sub = form.sub /\ form'.plan = form.plan
                        /\ form'.original = form.original /\ form'.chosen = form.chosen
    <3>1. CASE form' = form
      BY <1>1, <3>1 DEF FormTypeOK
    <3>2. CASE form.open /\ form' = [form EXCEPT !.save = None, !.error = TRUE]
      <4>1. form \in TenantForms
        BY <1>1, <3>2, TenantFormShape
      <4> QED BY <3>2, <4>1 DEF TenantForms
    <3> QED BY <1>13, <3>1, <3>2 DEF SaveFails
  <2>3. FormMeans'
    BY <1>1, <2>2 DEF FormMeans
  <2>4. existing' \subseteq Pizzerias /\ planOf' \in [Pizzerias -> PlanIds \cup {None}]
        /\ view' \in {"tenants", "tenant-form", "plans"} /\ (form'.open <=> view' = "tenant-form")
        /\ (form'.open => form'.tenant \in existing' \cup {None})
    BY <1>1, <2>1, <2>2 DEF FormTypeOK
  <2> QED BY <2>1, <2>2, <2>3, <2>4, SaveMoves
<1>14. CASE UNCHANGED formVars
  BY <1>1, <1>14 DEF FormInv, FormTypeOK, FormMeans, SavesMean, formVars
<1> QED BY <1>2, <1>3, <1>4, <1>5, <1>6, <1>7, <1>8, <1>9, <1>10, <1>11, <1>12, <1>13, <1>14 DEF FormNext

LEMMA FormInitial == FormInit => FormInv
<1> SUFFICES ASSUME FormInit PROVE FormInv
  OBVIOUS
<1>1. form = NoForm /\ ~form.open /\ \A s \in Saves : saves[s] = NoSave
  BY DEF FormInit, NoForm
<1> QED BY <1>1 DEF FormInit, FormInv, FormTypeOK, FormMeans, SavesMean

LEMMA FormAlways == FormSpec => []FormInv
  BY FormInitial, FormStep, PTL DEF FormSpec

\* The pizzerias, their plans, the form and the submissions have their types (FormTypeOK).
THEOREM FormTypes == FormSpec => []FormTypeOK
<1>1. FormInv => FormTypeOK
  BY DEF FormInv
<1> QED BY <1>1, FormAlways, PTL

\* No submission moves a pizzeria from the plan the form knew it has to one nobody chose
\* (KnownPlansAreKept).
THEOREM PlansAreChosen == FormSpec => KnownPlansAreKept
<1>1. ASSUME FormInv, NEW s \in Saves, UpdateSubscription(s)
      PROVE  saves[s].chosen \/ saves[s].original = None
  <2>1. saves[s] # NoSave /\ saves[s].at = "second"
    BY <1>1, SaveShape DEF UpdateSubscription, FormInv
  <2> QED BY <1>1, <2>1 DEF FormInv, SavesMean
<1>2. FormInv /\ [FormNext]_formVars =>
        [\A s \in Saves : UpdateSubscription(s) => saves[s].chosen \/ saves[s].original = None]_formVars
  BY <1>1
<1> QED BY <1>2, FormAlways, PTL DEF FormSpec, KnownPlansAreKept

-----------------------------------------------------------------------------
(* The plans. *)

\* A plan of the copy, of a call or of a form that is not of a new plan exists: none is deleted.
PlansExist ==
    /\ \A c \in Codes : copy[c] # NoPlan => planRows[c] # NoPlan
    /\ planForm.open /\ ~planForm.new => planRows[planForm.code] # NoPlan
    /\ \A e \in PlanEdits : planEdits[e] # NoEdit /\ (planEdits[e].at = "applied" \/ ~planEdits[e].form \/ ~planEdits[e].new)
            => planRows[planEdits[e].code] # NoPlan

\* A form and its submission say of the offer what was so when the form was opened.
OfferIsKept ==
    /\ planForm.open /\ ~planForm.new => planForm.body.active \in offers
    /\ \A e \in PlanEdits :
            planEdits[e].at = "sent" /\ planEdits[e].form /\ ~planEdits[e].new =>
                planEdits[e].body.active \in planEdits[e].offers

\* The copy is what the server has, or an answer about it is on its way.
CopyIsTold ==
    \A c \in Codes \ disordered :
        copy[c] = planRows[c] \/ \E e \in PlanEdits : planEdits[e].at = "applied" /\ planEdits[e].code = c

PlansInv == PlansTypeOK /\ PlansExist /\ OfferIsKept /\ CopyIsTold

-----------------------------------------------------------------------------
Forming ==
    [at : {"sent"}, form : {TRUE}, new : BOOLEAN, code : Codes, body : PlanBodies, offers : SUBSET BOOLEAN]

\* What a call, a form and a plan carry.
LEMMA EditShape ==
    ASSUME PlansTypeOK, NEW e \in PlanEdits
    PROVE  /\ planEdits[e].at \in {"idle", "sent", "applied"}
           /\ planEdits[e] = NoEdit <=> planEdits[e].at = "idle"
           /\ planEdits[e].at # "idle" => planEdits[e].code \in Codes /\ planEdits[e].form \in BOOLEAN
           /\ planEdits[e].at = "applied" => planEdits[e].row \in PlanBodies
           /\ planEdits[e].at = "sent" /\ planEdits[e].form =>
                /\ planEdits[e].new \in BOOLEAN /\ planEdits[e].offers \subseteq BOOLEAN
                /\ planEdits[e].body \in PlanBodies
           /\ planEdits[e].at = "sent" /\ ~planEdits[e].form => planEdits[e].active \in BOOLEAN
<1>1. PICK edit : edit = planEdits[e]
  OBVIOUS
<1>2. edit \in EditsMade \cup {NoEdit}
  BY <1>1 DEF PlansTypeOK
<1>3. CASE edit = NoEdit
  BY <1>1, <1>3 DEF NoEdit
<1>4. CASE edit \in Forming
  <2>1. edit.at = "sent" /\ edit.form /\ edit.form \in BOOLEAN /\ edit.code \in Codes /\ edit.new \in BOOLEAN
        /\ edit.offers \subseteq BOOLEAN /\ edit.body \in PlanBodies
    BY <1>4 DEF Forming
  <2> QED BY <1>1, <1>4, <2>1 DEF NoEdit
<1>5. CASE edit \in [at : {"sent"}, form : {FALSE}, code : Codes, active : BOOLEAN]
  <2>1. edit.at = "sent" /\ ~edit.form /\ edit.form \in BOOLEAN /\ edit.code \in Codes /\ edit.active \in BOOLEAN
    BY <1>5
  <2> QED BY <1>1, <2>1 DEF NoEdit
<1>6. CASE edit \in [at : {"applied"}, form : BOOLEAN, code : Codes, row : PlanBodies]
  <2>1. edit.at = "applied" /\ edit.form \in BOOLEAN /\ edit.code \in Codes /\ edit.row \in PlanBodies
    BY <1>6
  <2> QED BY <1>1, <2>1 DEF NoEdit
<1> QED BY <1>2, <1>3, <1>4, <1>5, <1>6 DEF EditsMade, Forming

LEMMA PlanFormShape ==
    ASSUME PlansTypeOK
    PROVE  /\ planForm.open \in BOOLEAN
           /\ planForm.open =>
                /\ planForm \in PlanForms
                /\ planForm.code \in Codes /\ planForm.new \in BOOLEAN /\ planForm.body \in PlanBodies
<1>1. planForm \in PlanForms \cup {NoPlanForm}
  BY DEF PlansTypeOK
<1>2. CASE planForm = NoPlanForm
  BY <1>2 DEF NoPlanForm
<1>3. CASE planForm \in PlanForms
  <2>1. planForm.open = TRUE /\ planForm.code \in Codes /\ planForm.new \in BOOLEAN /\ planForm.body \in PlanBodies
    BY <1>3 DEF PlanForms
  <2> QED BY <1>3, <2>1
<1> QED BY <1>1, <1>2, <1>3

LEMMA PlanShape ==
    ASSUME NEW body \in PlanBodies, NEW offered \in BOOLEAN, NEW content \in Contents
    PROVE  /\ [body EXCEPT !.active = offered] \in PlanBodies
           /\ [body EXCEPT !.content = content] \in PlanBodies
           /\ [body EXCEPT !.content = content].active = body.active
           /\ body # NoPlan
  BY NoPlanAssumption DEF PlanBodies

\* One call moves on, and stays one.
LEMMA OneEdit ==
    ASSUME PlansTypeOK, NEW e \in PlanEdits, NEW edit \in EditsMade \cup {NoEdit},
           planEdits' = [planEdits EXCEPT ![e] = edit]
    PROVE  /\ planEdits' \in [PlanEdits -> EditsMade \cup {NoEdit}]
           /\ planEdits'[e] = edit
           /\ \A d \in PlanEdits \ {e} : planEdits'[d] = planEdits[d]
  BY DEF PlansTypeOK

\* Every step of the plans keeps the types.
LEMMA PlansTypesStep == ASSUME PlansTypeOK, PlansExist, PlansNext PROVE PlansTypeOK'
<1> USE NoPlanAssumption
<1>1. ASSUME CancelForm PROVE PlansTypeOK'
  BY <1>1 DEF CancelForm, PlansTypeOK
<1>2. ASSUME NEW content \in Contents, Change(content) PROVE PlansTypeOK'
  <2>1. planForm' \in PlanForms
    <3>1. planForm \in PlanForms
      BY <1>2, PlanFormShape DEF Change
    <3> QED BY <1>2, <3>1 DEF Change, PlanForms, PlanBodies
  <2> QED BY <1>2, <2>1 DEF Change, PlansTypeOK
<1>3. ASSUME NEW c \in Codes, StartCreate(c) PROVE PlansTypeOK'
  <2>1. planForm' \in PlanForms
    BY <1>3 DEF StartCreate, PlanForms, PlanBodies
  <2> QED BY <1>3, <2>1 DEF StartCreate, PlansTypeOK
<1>4. ASSUME NEW c \in Codes, StartEdit(c) PROVE PlansTypeOK'
  <2>1. planForm' \in PlanForms
    BY <1>4 DEF StartEdit, PlanForms, PlansTypeOK
  <2>2. offers' \subseteq BOOLEAN
    <3>1. copy[c] \in PlanBodies
      BY <1>4 DEF StartEdit, PlansTypeOK
    <3> QED BY <1>4, <3>1 DEF StartEdit, OffersOf, PlanBodies
  <2> QED BY <1>4, <2>1, <2>2 DEF StartEdit, PlansTypeOK
<1>5. ASSUME NEW c \in Codes, NEW e \in PlanEdits, TogglePlan(e, c) PROVE PlansTypeOK'
  <2>1. PICK edit : edit = [at |-> "sent", form |-> FALSE, code |-> c, active |-> ~copy[c].active]
    OBVIOUS
  <2>2. edit \in EditsMade
    BY <2>1 DEF EditsMade
  <2> QED BY <1>5, <2>1, <2>2, OneEdit DEF TogglePlan, Send, PlansTypeOK
<1>6. ASSUME NEW e \in PlanEdits, SubmitForm(e) PROVE PlansTypeOK'
  <2>1. PICK edit : edit = [at |-> "sent", form |-> TRUE, new |-> planForm.new, code |-> planForm.code,
                            body |-> planForm.body, offers |-> offers]
    OBVIOUS
  <2>2. edit \in EditsMade
    BY <1>6, <2>1, PlanFormShape DEF SubmitForm, EditsMade, PlansTypeOK
  <2> QED BY <1>6, <2>1, <2>2, OneEdit DEF SubmitForm, Send, PlansTypeOK
<1>7. ASSUME NEW e \in PlanEdits, CreatePlan(e) PROVE PlansTypeOK'
  <2>1. /\ planEdits[e].code \in Codes /\ planEdits[e].body \in PlanBodies
    BY <1>7, EditShape DEF CreatePlan
  <2>2. PICK edit : edit = [at |-> "applied", form |-> TRUE, code |-> planEdits[e].code,
                            row |-> planEdits[e].body]
    OBVIOUS
  <2>3. edit \in EditsMade
    BY <2>1, <2>2 DEF EditsMade
  <2>4. planEdits' \in [PlanEdits -> EditsMade \cup {NoEdit}] /\ planRows' \in [Codes -> PlanBodies \cup {NoPlan}]
    BY <1>7, <2>1, <2>2, <2>3 DEF CreatePlan, PlansTypeOK
  <2> QED BY <1>7, <2>4 DEF CreatePlan, PlansTypeOK
<1>8. ASSUME NEW e \in PlanEdits, UpdatePlan(e) PROVE PlansTypeOK'
  <2>1. PICK row : row = IF planEdits[e].form THEN planEdits[e].body
                         ELSE [planRows[planEdits[e].code] EXCEPT !.active = planEdits[e].active]
    OBVIOUS
  <2>2. planEdits[e].code \in Codes /\ planEdits[e].form \in BOOLEAN
    BY <1>8, EditShape DEF UpdatePlan
  <2>3. row \in PlanBodies
    <3>1. CASE planEdits[e].form
      BY <1>8, <2>1, <3>1, EditShape DEF UpdatePlan
    <3>2. CASE ~planEdits[e].form
      <4>1. planEdits[e].active \in BOOLEAN /\ planRows[planEdits[e].code] \in PlanBodies
        BY <1>8, <2>2, <3>2, EditShape DEF UpdatePlan, PlansExist, PlansTypeOK
      <4> QED BY <2>1, <3>2, <4>1 DEF PlanBodies
    <3> QED BY <3>1, <3>2
  <2>4. PICK edit : edit = [at |-> "applied", form |-> planEdits[e].form, code |-> planEdits[e].code, row |-> row]
    OBVIOUS
  <2>5. edit \in EditsMade
    BY <2>2, <2>3, <2>4 DEF EditsMade
  <2>6. planEdits' \in [PlanEdits -> EditsMade \cup {NoEdit}]
    <3>1. planEdits' = [planEdits EXCEPT ![e] = edit]
      BY <1>8, <2>1, <2>4 DEF UpdatePlan
    <3> QED BY <2>5, <3>1, OneEdit
  <2>7. planRows' \in [Codes -> PlanBodies \cup {NoPlan}]
    BY <1>8, <2>1, <2>2, <2>3 DEF UpdatePlan, PlansTypeOK
  <2> QED BY <1>8, <2>6, <2>7 DEF UpdatePlan, PlansTypeOK
<1>9. ASSUME NEW e \in PlanEdits, PlanAnswered(e) PROVE PlansTypeOK'
  <2>1. planEdits[e].code \in Codes /\ planEdits[e].row \in PlanBodies
    BY <1>9, EditShape DEF PlanAnswered
  <2> QED BY <1>9, <2>1 DEF PlanAnswered, PlansTypeOK
<1>10. ASSUME NEW e \in PlanEdits, PlanEditFails(e) PROVE PlansTypeOK'
  <2>1. planEdits[e].code \in Codes
    BY <1>10, EditShape DEF PlanEditFails
  <2> QED BY <1>10, <2>1 DEF PlanEditFails, PlansTypeOK
<1> QED BY <1>1, <1>2, <1>3, <1>4, <1>5, <1>6, <1>7, <1>8, <1>9, <1>10 DEF PlansNext

\* Of calls that stay as they were, what the invariant says stays; the rows the calls are of
\* are as they were too.
LEMMA EditUntouched ==
    ASSUME PlansInv, NEW e \in PlanEdits, planEdits'[e] = planEdits[e], UNCHANGED planRows
    PROVE  /\ planEdits'[e] # NoEdit
                /\ (planEdits'[e].at = "applied" \/ ~planEdits'[e].form \/ ~planEdits'[e].new)
              => planRows'[planEdits'[e].code] # NoPlan
           /\ planEdits'[e].at = "sent" /\ planEdits'[e].form /\ ~planEdits'[e].new =>
                planEdits'[e].body.active \in planEdits'[e].offers
  BY DEF PlansInv, PlansExist, OfferIsKept

\* The same of the open form.
LEMMA FormUntouched ==
    ASSUME PlansInv, UNCHANGED <<planForm, planRows, offers>>
    PROVE  /\ planForm'.open /\ ~planForm'.new => planRows'[planForm'.code] # NoPlan
           /\ planForm'.open /\ ~planForm'.new => planForm'.body.active \in offers'
  BY DEF PlansInv, PlansExist, OfferIsKept

\* Every step of the plans keeps the rest.
LEMMA PlansStep == ASSUME PlansInv, PlansNext PROVE PlansExist' /\ OfferIsKept' /\ CopyIsTold'
<1> USE DEF PlansInv
<1>1. ASSUME CancelForm PROVE PlansExist' /\ OfferIsKept' /\ CopyIsTold'
  <2>1. ~planForm'.open /\ UNCHANGED <<planRows, copy, planEdits, disordered>>
    BY <1>1 DEF CancelForm, NoPlanForm
  <2> QED BY <2>1 DEF PlansExist, OfferIsKept, CopyIsTold
<1>2. ASSUME NEW content \in Contents, Change(content) PROVE PlansExist' /\ OfferIsKept' /\ CopyIsTold'
  <2>1. planForm \in PlanForms
    BY <1>2, PlanFormShape DEF Change
  <2>2. /\ planForm'.open /\ planForm'.new = planForm.new /\ planForm'.code = planForm.code
        /\ planForm'.body.active = planForm.body.active
    BY <1>2, <2>1 DEF Change, PlanForms, PlanBodies
  <2>3. planForm.open /\ UNCHANGED <<planRows, offers, copy, planEdits, disordered>>
    BY <1>2 DEF Change
  <2> QED BY <2>2, <2>3 DEF PlansExist, OfferIsKept, CopyIsTold
<1>3. ASSUME NEW c \in Codes, StartCreate(c) PROVE PlansExist' /\ OfferIsKept' /\ CopyIsTold'
  <2>1. planForm'.new /\ UNCHANGED <<planRows, copy, planEdits, disordered>>
    BY <1>3 DEF StartCreate
  <2> QED BY <2>1 DEF PlansExist, OfferIsKept, CopyIsTold
<1>4. ASSUME NEW c \in Codes, StartEdit(c) PROVE PlansExist' /\ OfferIsKept' /\ CopyIsTold'
  <2>1. /\ planForm'.code = c /\ planForm'.body = copy[c] /\ copy[c] # NoPlan
        /\ UNCHANGED <<planRows, copy, planEdits, disordered>>
    BY <1>4 DEF StartEdit
  <2>2. planRows[c] # NoPlan
    BY <2>1 DEF PlansExist
  <2>3. copy[c].active \in offers'
    <3>1. copy[c] \in PlanBodies
      BY <2>1 DEF PlansTypeOK
    <3> QED BY <1>4, <3>1 DEF StartEdit, OffersOf, PlanBodies
  <2> QED BY <2>1, <2>2, <2>3 DEF PlansExist, OfferIsKept, CopyIsTold
<1>5. ASSUME NEW c \in Codes, NEW e \in PlanEdits, TogglePlan(e, c) PROVE PlansExist' /\ OfferIsKept' /\ CopyIsTold'
  <2>1. /\ planEdits'[e] = [at |-> "sent", form |-> FALSE, code |-> c, active |-> ~copy[c].active]
        /\ planEdits[e] = NoEdit /\ \A d \in PlanEdits \ {e} : planEdits'[d] = planEdits[d]
        /\ copy[c] # NoPlan /\ UNCHANGED <<planRows, offers, copy, planForm, disordered>>
    BY <1>5 DEF TogglePlan, Send, PlansTypeOK
  <2>2. PlansExist' /\ OfferIsKept'
    <3>1. planEdits'[e].form = FALSE /\ planEdits'[e].code = c /\ planRows'[c] # NoPlan
      BY <2>1 DEF PlansExist
    <3>2. ~(planEdits'[e].form /\ ~planEdits'[e].new)
      BY <3>1
    <3> QED BY <2>1, <3>1, <3>2, EditUntouched, FormUntouched DEF PlansExist, OfferIsKept
  <2>3. CopyIsTold'
    BY <2>1 DEF CopyIsTold, NoEdit
  <2> QED BY <2>2, <2>3
<1>6. ASSUME NEW e \in PlanEdits, SubmitForm(e) PROVE PlansExist' /\ OfferIsKept' /\ CopyIsTold'
  <2>1. /\ planEdits'[e] = [at |-> "sent", form |-> TRUE, new |-> planForm.new, code |-> planForm.code,
                            body |-> planForm.body, offers |-> offers]
        /\ planEdits[e] = NoEdit /\ \A d \in PlanEdits \ {e} : planEdits'[d] = planEdits[d]
        /\ planForm.open /\ UNCHANGED <<planRows, offers, copy, planForm, disordered>>
    BY <1>6 DEF SubmitForm, Send, PlansTypeOK
  <2>2. PlansExist' /\ OfferIsKept'
    <3>1. /\ planEdits'[e].at = "sent" /\ planEdits'[e].form /\ planEdits'[e].new = planForm.new
          /\ planEdits'[e].code = planForm.code /\ planEdits'[e].body = planForm.body
          /\ planEdits'[e].offers = offers
      BY <2>1
    <3>2. /\ ~planEdits'[e].new => planRows'[planEdits'[e].code] # NoPlan
          /\ ~planEdits'[e].new => planEdits'[e].body.active \in planEdits'[e].offers
      BY <2>1, <3>1 DEF PlansExist, OfferIsKept
    <3> QED BY <2>1, <3>1, <3>2, EditUntouched, FormUntouched DEF PlansExist, OfferIsKept
  <2>3. CopyIsTold'
    BY <2>1 DEF CopyIsTold, NoEdit
  <2> QED BY <2>2, <2>3
<1>7. ASSUME NEW e \in PlanEdits, CreatePlan(e) PROVE PlansExist' /\ OfferIsKept' /\ CopyIsTold'
  <2>1. PICK c \in Codes : c = planEdits[e].code
    BY <1>7, EditShape DEF CreatePlan
  <2>2. /\ planEdits[e].at = "sent" /\ planEdits[e].body \in PlanBodies
        /\ UNCHANGED <<offers, copy, planForm, disordered>>
    BY <1>7, EditShape DEF CreatePlan
  <2>3. CASE planRows[c] = NoPlan
    <3>1. /\ planEdits'[e] = [at |-> "applied", form |-> TRUE, code |-> c, row |-> planEdits[e].body]
          /\ \A d \in PlanEdits \ {e} : planEdits'[d] = planEdits[d]
          /\ planRows'[c] = planEdits[e].body /\ \A d \in Codes \ {c} : planRows'[d] = planRows[d]
      BY <1>7, <2>1, <2>3 DEF CreatePlan, PlansTypeOK
    <3>2. planRows'[c] # NoPlan /\ planEdits'[e].code = c /\ planEdits'[e].at = "applied"
      BY <2>2, <3>1, NoPlanAssumption
    <3>3. planForm.open /\ ~planForm.new => planForm.code \in Codes /\ planForm.code # c
      BY <2>3, PlanFormShape DEF PlansExist
    <3>4. ASSUME NEW d \in PlanEdits \ {e}, planEdits[d] # NoEdit,
                 planEdits[d].at = "applied" \/ ~planEdits[d].form \/ ~planEdits[d].new
          PROVE  planEdits[d].code \in Codes \ {c}
      BY <2>3, <3>4, EditShape DEF PlansExist
    <3>5. PlansExist'
      BY <2>2, <3>1, <3>2, <3>3, <3>4 DEF PlansExist
    <3>6. OfferIsKept'
      <4>1. \A d \in PlanEdits : planEdits'[d].at = "sent" => planEdits'[d] = planEdits[d]
        BY <3>1, <3>2
      <4> QED BY <2>2, <4>1 DEF OfferIsKept
    <3>7. CopyIsTold'
      <4> SUFFICES ASSUME NEW d \in Codes \ disordered, copy[d] # planRows'[d]
                   PROVE  \E q \in PlanEdits : planEdits'[q].at = "applied" /\ planEdits'[q].code = d
        BY <2>2 DEF CopyIsTold
      <4>1. CASE d = c
        BY <3>2, <4>1
      <4>2. CASE d # c
        BY <2>2, <3>1, <4>2 DEF CopyIsTold
      <4> QED BY <4>1, <4>2
    <3> QED BY <3>5, <3>6, <3>7
  <2>4. CASE planRows[c] # NoPlan
    <3>1. /\ planEdits'[e] = NoEdit /\ \A d \in PlanEdits \ {e} : planEdits'[d] = planEdits[d]
          /\ UNCHANGED planRows
      BY <1>7, <2>1, <2>4 DEF CreatePlan, PlansTypeOK
    <3>2. PlansExist' /\ OfferIsKept'
      <4>1. planEdits'[e].at # "sent"
        BY <3>1 DEF NoEdit
      <4> QED BY <2>2, <3>1, <4>1, EditUntouched, FormUntouched DEF PlansExist, OfferIsKept
    <3>3. CopyIsTold'
      BY <2>2, <3>1 DEF CopyIsTold
    <3> QED BY <3>2, <3>3
  <2> QED BY <2>3, <2>4
<1>8. ASSUME NEW e \in PlanEdits, UpdatePlan(e) PROVE PlansExist' /\ OfferIsKept' /\ CopyIsTold'
  <2>1. PICK c \in Codes : c = planEdits[e].code
    BY <1>8, EditShape DEF UpdatePlan
  <2>2. PICK row : row = IF planEdits[e].form THEN planEdits[e].body
                         ELSE [planRows[c] EXCEPT !.active = planEdits[e].active]
    OBVIOUS
  <2>3. /\ planEdits[e].at = "sent" /\ UNCHANGED <<offers, copy, planForm, disordered>>
        /\ planRows'[c] = row /\ \A d \in Codes \ {c} : planRows'[d] = planRows[d]
    BY <1>8, <2>1, <2>2 DEF UpdatePlan, PlansTypeOK
  <2>4. planRows'[c] # NoPlan
    <3>1. PlansTypeOK'
      BY PlansTypesStep
    <3>2. planEdits[e].form => row \in PlanBodies
      BY <2>2, <2>3, EditShape
    <3>3. ~planEdits[e].form => row \in PlanBodies
      <4>1. ~planEdits[e].form => planEdits[e].active \in BOOLEAN /\ planRows[c] \in PlanBodies
        BY <2>1, <2>3, EditShape DEF PlansExist, PlansTypeOK, NoEdit
      <4> QED BY <2>2, <4>1 DEF PlanBodies
    <3> QED BY <2>3, <3>2, <3>3, NoPlanAssumption
  <2>5. /\ planEdits'[e].at = "applied" /\ planEdits'[e].code = c
        /\ \A d \in PlanEdits \ {e} : planEdits'[d] = planEdits[d]
    BY <1>8, <2>1 DEF UpdatePlan, PlansTypeOK
  <2>6. PlansExist'
    <3>1. \A d \in Codes : copy'[d] # NoPlan => planRows'[d] # NoPlan
      BY <2>3, <2>4 DEF PlansExist
    <3>2. planForm'.open /\ ~planForm'.new => planRows'[planForm'.code] # NoPlan
      BY <2>3, <2>4, PlanFormShape DEF PlansExist
    <3>3. ASSUME NEW d \in PlanEdits, planEdits'[d] # NoEdit,
                 planEdits'[d].at = "applied" \/ ~planEdits'[d].form \/ ~planEdits'[d].new
          PROVE  planRows'[planEdits'[d].code] # NoPlan
      <4>1. CASE d = e
        BY <2>4, <2>5, <4>1
      <4>2. CASE d # e
        <5>1. planEdits'[d] = planEdits[d] /\ planEdits[d].code \in Codes /\ planRows[planEdits[d].code] # NoPlan
          BY <2>5, <3>3, <4>2, EditShape DEF PlansExist
        <5> QED BY <2>3, <2>4, <5>1
      <4> QED BY <4>1, <4>2
    <3> QED BY <3>1, <3>2, <3>3 DEF PlansExist
  <2>7. OfferIsKept'
    <3>1. \A d \in PlanEdits : planEdits'[d].at = "sent" => planEdits'[d] = planEdits[d]
      BY <2>5
    <3> QED BY <2>3, <3>1 DEF OfferIsKept
  <2>8. CopyIsTold'
    <3> SUFFICES ASSUME NEW d \in Codes \ disordered, copy[d] # planRows'[d]
                 PROVE  \E q \in PlanEdits : planEdits'[q].at = "applied" /\ planEdits'[q].code = d
      BY <2>3 DEF CopyIsTold
    <3>1. CASE d = c
      BY <2>5, <3>1
    <3>2. CASE d # c
      <4>1. PICK q \in PlanEdits : planEdits[q].at = "applied" /\ planEdits[q].code = d
        BY <2>3, <3>2 DEF CopyIsTold
      <4>2. q # e
        BY <2>3, <4>1
      <4> QED BY <2>5, <4>1, <4>2
    <3> QED BY <3>1, <3>2
  <2> QED BY <2>6, <2>7, <2>8
<1>9. ASSUME NEW e \in PlanEdits, PlanAnswered(e) PROVE PlansExist' /\ OfferIsKept' /\ CopyIsTold'
  <2>1. PICK c \in Codes : c = planEdits[e].code
    BY <1>9, EditShape DEF PlanAnswered
  <2>2. PICK row \in PlanBodies : row = planEdits[e].row
    BY <1>9, EditShape DEF PlanAnswered
  <2>3. /\ planEdits[e].at = "applied" /\ UNCHANGED <<planRows, offers>>
        /\ planEdits'[e] = NoEdit /\ \A d \in PlanEdits \ {e} : planEdits'[d] = planEdits[d]
        /\ copy'[c] = row /\ \A d \in Codes \ {c} : copy'[d] = copy[d]
        /\ planForm' \in {planForm, NoPlanForm}
        /\ disordered' = IF row = planRows[c] THEN disordered \ {c} ELSE disordered \cup {c}
    BY <1>9, <2>1, <2>2 DEF PlanAnswered, PlansTypeOK
  <2>4. /\ planForm'.open /\ ~planForm'.new => planRows'[planForm'.code] # NoPlan
        /\ planForm'.open /\ ~planForm'.new => planForm'.body.active \in offers'
    <3>1. CASE planForm' = planForm
      BY <2>3, <3>1, FormUntouched
    <3>2. CASE planForm' = NoPlanForm
      BY <3>2 DEF NoPlanForm
    <3> QED BY <2>3, <3>1, <3>2
  <2>5. planEdits'[e].at # "sent"
    BY <2>3 DEF NoEdit
  <2>6. planRows[c] # NoPlan
    BY <2>1, <2>3, EditShape DEF PlansExist
  <2>7. PlansExist' /\ OfferIsKept'
    BY <2>3, <2>4, <2>5, <2>6, EditUntouched DEF PlansExist, OfferIsKept
  <2>8. CopyIsTold'
    <3> SUFFICES ASSUME NEW d \in Codes \ disordered', copy'[d] # planRows[d]
                 PROVE  \E q \in PlanEdits : planEdits'[q].at = "applied" /\ planEdits'[q].code = d
      BY <2>3 DEF CopyIsTold
    <3>1. d # c
      BY <2>3
    <3>2. PICK q \in PlanEdits : planEdits[q].at = "applied" /\ planEdits[q].code = d
      BY <2>3, <3>1 DEF CopyIsTold
    <3> QED BY <2>1, <2>3, <3>1, <3>2
  <2> QED BY <2>7, <2>8
<1>10. ASSUME NEW e \in PlanEdits, PlanEditFails(e) PROVE PlansExist' /\ OfferIsKept' /\ CopyIsTold'
  <2>1. /\ planEdits'[e] = NoEdit /\ \A d \in PlanEdits \ {e} : planEdits'[d] = planEdits[d]
        /\ planEdits[e].at = "sent" => disordered' = disordered
        /\ planEdits[e].at # "sent" => disordered' = disordered \cup {planEdits[e].code}
        /\ UNCHANGED <<planRows, offers, copy, planForm>>
    BY <1>10 DEF PlanEditFails, PlansTypeOK
  <2>2. planEdits'[e].at # "sent"
    BY <2>1 DEF NoEdit
  <2>3. PlansExist' /\ OfferIsKept'
    BY <2>1, <2>2, EditUntouched, FormUntouched DEF PlansExist, OfferIsKept
  <2>4. CopyIsTold'
    BY <2>1 DEF CopyIsTold
  <2> QED BY <2>3, <2>4
<1> QED BY <1>1, <1>2, <1>3, <1>4, <1>5, <1>6, <1>7, <1>8, <1>9, <1>10 DEF PlansNext

LEMMA PlansInvStep == PlansInv /\ [PlansNext]_plansVars => PlansInv'
<1>1. ASSUME PlansInv, PlansNext PROVE PlansInv'
  BY <1>1, PlansTypesStep, PlansStep DEF PlansInv
<1>2. ASSUME PlansInv, UNCHANGED plansVars PROVE PlansInv'
  BY <1>2 DEF PlansInv, PlansTypeOK, PlansExist, OfferIsKept, CopyIsTold, plansVars
<1> QED BY <1>1, <1>2

LEMMA PlansInitial == PlansInit => PlansInv
<1> SUFFICES ASSUME PlansInit PROVE PlansInv
  OBVIOUS
<1>1. \A e \in PlanEdits : planEdits[e] = NoEdit /\ planEdits[e].at = "idle"
  BY DEF PlansInit, NoEdit
<1>2. planForm = NoPlanForm /\ ~planForm.open
  BY DEF PlansInit, NoPlanForm
<1>3. PlansTypeOK
  BY <1>2 DEF PlansInit, PlansTypeOK
<1> QED BY <1>1, <1>2, <1>3 DEF PlansInit, PlansInv, PlansExist, OfferIsKept, CopyIsTold

LEMMA PlansAlways == PlansSpec => []PlansInv
  BY PlansInitial, PlansInvStep, PTL DEF PlansSpec

\* The plans, the copy, the form and the calls have their types (PlansTypeOK).
THEOREM PlansTypes == PlansSpec => []PlansTypeOK
<1>1. PlansInv => PlansTypeOK
  BY DEF PlansInv
<1> QED BY <1>1, PlansAlways, PTL

\* With no call under way App's copy of the plans is what the server has, but for plans of
\* which an answer was lost or overtaken (CopySettles).
THEOREM TheCopySettles == PlansSpec => []CopySettles
<1>1. ASSUME PlansInv, \A e \in PlanEdits : planEdits[e] = NoEdit, NEW c \in Codes \ disordered
      PROVE  copy[c] = planRows[c]
  <2>1. \A e \in PlanEdits : planEdits[e].at # "applied"
    BY <1>1 DEF NoEdit
  <2> QED BY <1>1, <2>1 DEF PlansInv, CopyIsTold
<1>2. PlansInv => CopySettles
  BY <1>1 DEF CopySettles
<1> QED BY <1>2, PlansAlways, PTL

\* Who edits a plan leaves it as it was offered when the form was opened, unless that was on
\* a copy of the past (EditsKeepTheOffer).
THEOREM EditsKeepOffers == PlansSpec => EditsKeepTheOffer
<1>1. ASSUME PlansInv, NEW e \in PlanEdits, UpdatePlan(e), planEdits[e].form
      PROVE  planRows'[planEdits[e].code].active \in planEdits[e].offers
  <2>1. planEdits[e].at = "sent" /\ ~planEdits[e].new /\ planEdits[e].code \in Codes
    BY <1>1, EditShape DEF UpdatePlan, PlansInv
  <2>2. planRows'[planEdits[e].code] = planEdits[e].body
    BY <1>1, <2>1 DEF UpdatePlan, PlansInv, PlansTypeOK
  <2> QED BY <1>1, <2>1, <2>2 DEF PlansInv, OfferIsKept
<1>2. PlansInv /\ [PlansNext]_plansVars =>
        [\A e \in PlanEdits : UpdatePlan(e) /\ planEdits[e].form =>
            planRows'[planEdits[e].code].active \in planEdits[e].offers]_plansVars
  BY <1>1
<1> QED BY <1>2, PlansAlways, PTL DEF PlansSpec, EditsKeepTheOffer

-----------------------------------------------------------------------------
(* The sales. *)

\* The GETs were sent one after the other.
SentInTurn == \E n \in 0..MaxQueries : Sent = 1..n

Latest(i, kind) == i \in OfKind(kind) /\ \A j \in OfKind(kind) : j <= i

\* The last GETs to be sent are for what the screen names.
LastAsked ==
    selected # Nil =>
        /\ \E i \in Queries : Latest(i, "sales") /\ Query(i).shop = selected
        /\ usersVisible => \E i \in Queries : Latest(i, "users") /\ Query(i) = UsersQuery(selected, users)

\* What the screen shows is what the last answer was asked for.
LastArrived ==
    /\ sales # Nil => \E i \in OfKind("sales") : queries[i].last /\ Query(i).shop = sales
    /\ people # Nil => \E i \in OfKind("users") : queries[i].last /\ Query(i) = people

SalesInv == SalesTypeOK /\ SentInTurn /\ LastAsked /\ LastArrived

-----------------------------------------------------------------------------
Wanted == OfUsers \cup OfSales

\* What a GET carries.
LEMMA QueryShape ==
    ASSUME SalesTypeOK, NEW i \in Sent
    PROVE  /\ i \in Queries /\ queries[i] \in QueriesMade
           /\ Query(i) \in Wanted /\ queries[i].last \in BOOLEAN
           /\ Query(i).kind = "users" => Query(i) \in OfUsers
           /\ Query(i).kind = "sales" => Query(i) \in OfSales /\ Query(i).shop \in Shops
           /\ Query(i).kind \in {"users", "sales"}
<1>1. queries[i] \in QueriesMade /\ i \in Queries
  BY DEF Sent, SalesTypeOK
<1>2. Query(i) \in Wanted /\ queries[i].last \in BOOLEAN
  BY <1>1 DEF QueriesMade, Query, Wanted
<1> QED BY <1>1, <1>2 DEF Wanted, OfUsers, OfSales

\* AskAll adds its queries after those that were sent.
LEMMA AskAdds ==
    ASSUME SalesTypeOK, SentInTurn, NEW qs \in Seq(Wanted), AskAll(qs)
    PROVE  \E n \in 0..MaxQueries :
            /\ Sent = 1..n /\ Sent' = 1..(n + Len(qs)) /\ n + Len(qs) \in 0..MaxQueries
            /\ \A i \in 1..n : i \in Queries /\ queries'[i] = queries[i]
            /\ \A i \in 1..Len(qs) : n + i \in Queries /\ queries'[n + i] = [at |-> "sent", q |-> qs[i], last |-> FALSE]
            /\ queries' \in [Queries -> QueriesMade \cup {Unsent}]
<1>1. PICK n \in 0..MaxQueries : Sent = 1..n
  BY DEF SentInTurn
<1>2. Cardinality(Sent) = n
  BY <1>1, RolesAssumption, FS_Interval
<1>3. PICK len \in Nat : len = Len(qs)
  OBVIOUS
<1>4. n + len \in 0..MaxQueries /\ n \in Nat /\ MaxQueries \in Nat
  BY <1>2, <1>3, RolesAssumption DEF AskAll
<1>5. queries' = [i \in Queries |->
            IF i \in n + 1 .. n + len THEN [at |-> "sent", q |-> qs[i - n], last |-> FALSE]
            ELSE queries[i]]
  BY <1>2, <1>3 DEF AskAll
<1>6. ASSUME NEW i \in 1..n PROVE i \in Queries /\ queries'[i] = queries[i]
  BY <1>4, <1>5 DEF Queries
<1>7. ASSUME NEW k \in n + 1 .. n + len
      PROVE  /\ k \in Queries /\ queries'[k] = [at |-> "sent", q |-> qs[k - n], last |-> FALSE]
             /\ queries'[k] \in QueriesMade /\ queries'[k] # Unsent
  <2>1. k \in Queries /\ k - n \in 1..len
    BY <1>4 DEF Queries
  <2>2. queries'[k] = [at |-> "sent", q |-> qs[k - n], last |-> FALSE]
    BY <1>5, <2>1
  <2>3. qs[k - n] \in Wanted
    BY <1>3, <2>1
  <2> QED BY <2>1, <2>2, <2>3 DEF QueriesMade, Wanted, Unsent
<1>8. ASSUME NEW i \in Queries, i > n + len PROVE queries'[i] = Unsent
  BY <1>1, <1>4, <1>5, <1>8 DEF Queries, Sent
<1>9. ASSUME NEW i \in Queries
      PROVE  i \in 1..n \/ i > n + len \/ i \in n + 1 .. n + len
  BY <1>4 DEF Queries
<1>10. ASSUME NEW i \in Queries
       PROVE  queries'[i] \in QueriesMade \cup {Unsent} /\ (queries'[i] # Unsent <=> i \in 1..(n + len))
  <2>1. CASE i \in 1..n
    <3>1. i \in Sent /\ queries'[i] = queries[i] /\ i \in 1..(n + len)
      BY <1>1, <1>4, <1>6, <2>1
    <3> QED BY <3>1, QueryShape DEF Sent
  <2>2. CASE i > n + len
    BY <1>4, <1>8, <2>2
  <2>3. CASE i \in n + 1 .. n + len
    <3>1. i \in 1..(n + len)
      BY <1>4, <2>3
    <3>2. queries'[i] \in QueriesMade /\ queries'[i] # Unsent
      BY <1>7, <2>3
    <3> QED BY <3>1, <3>2
  <2> QED BY <1>9, <2>1, <2>2, <2>3
<1>11. Sent' = 1..(n + len)
  <2>1. 1..(n + len) \subseteq Queries
    BY <1>4 DEF Queries
  <2> QED BY <1>10, <2>1 DEF Sent
<1>12. queries' \in [Queries -> QueriesMade \cup {Unsent}]
  BY <1>5, <1>10
<1>13. ASSUME NEW i \in 1..len
       PROVE  n + i \in Queries /\ queries'[n + i] = [at |-> "sent", q |-> qs[i], last |-> FALSE]
  <2>1. n + i \in n + 1 .. n + len /\ (n + i) - n = i
    BY <1>4
  <2> QED BY <1>7, <2>1
<1> QED BY <1>1, <1>3, <1>4, <1>6, <1>11, <1>12, <1>13

\* What was asked stays, whatever else is asked.
LEMMA AskKeeps ==
    ASSUME SalesInv, NEW qs \in Seq(Wanted), AskAll(qs), sales' \in {sales, Nil}, people' \in {people, Nil}
    PROVE  SentInTurn' /\ LastArrived'
<1>1. PICK n \in 0..MaxQueries :
            /\ Sent = 1..n /\ Sent' = 1..(n + Len(qs)) /\ n + Len(qs) \in 0..MaxQueries
            /\ \A i \in 1..n : i \in Queries /\ queries'[i] = queries[i]
  BY AskAdds DEF SalesInv
<1>2. Sent \subseteq Sent' /\ \A i \in Sent : queries'[i] = queries[i]
  BY <1>1
<1>3. LastArrived'
  BY <1>2 DEF SalesInv, LastArrived, OfKind, Query
<1> QED BY <1>1, <1>3 DEF SentInTurn

\* The users asked for are the last.
LEMMA AskForUsers ==
    ASSUME SalesInv, selected # Nil, Ask(UsersQuery(selected, users')), users' \in [role : Roles, page : Nat \ {0}],
           UNCHANGED <<selected, sales, people>>
    PROVE  queries' \in [Queries -> QueriesMade \cup {Unsent}] /\ SentInTurn' /\ LastAsked' /\ LastArrived'
<1>1. PICK q : q = UsersQuery(selected, users')
  OBVIOUS
<1>2. q \in OfUsers /\ q.kind = "users" /\ <<q>> \in Seq(Wanted) /\ Len(<<q>>) = 1 /\ <<q>>[1] = q
  BY <1>1 DEF SalesInv, SalesTypeOK, UsersQuery, OfUsers, Wanted
<1>3. AskAll(<<q>>)
  BY <1>1 DEF Ask
<1>4. PICK n \in 0..MaxQueries :
            /\ Sent = 1..n /\ Sent' = 1..(n + 1) /\ n + 1 \in 0..MaxQueries
            /\ \A i \in 1..n : i \in Queries /\ queries'[i] = queries[i]
            /\ n + 1 \in Queries /\ queries'[n + 1] = [at |-> "sent", q |-> q, last |-> FALSE]
            /\ queries' \in [Queries -> QueriesMade \cup {Unsent}]
  <2>1. PICK qs \in Seq(Wanted) : qs = <<q>>
    BY <1>2
  <2>2. AskAll(qs) /\ Len(qs) = 1 /\ qs[1] = q
    BY <1>2, <1>3, <2>1
  <2>3. PICK n \in 0..MaxQueries :
            /\ Sent = 1..n /\ Sent' = 1..(n + Len(qs)) /\ n + Len(qs) \in 0..MaxQueries
            /\ \A i \in 1..n : i \in Queries /\ queries'[i] = queries[i]
            /\ \A i \in 1..Len(qs) :
                    n + i \in Queries /\ queries'[n + i] = [at |-> "sent", q |-> qs[i], last |-> FALSE]
            /\ queries' \in [Queries -> QueriesMade \cup {Unsent}]
    BY <2>2, AskAdds DEF SalesInv
  <2>4. 1 \in 1..Len(qs)
    BY <2>2
  <2> QED BY <2>2, <2>3, <2>4
<1>5. Query(n + 1)' = q
  BY <1>4 DEF Query
<1>6. \A i \in Sent' : i = n + 1 \/ (i \in Sent /\ i < n + 1 /\ Query(i)' = Query(i))
  BY <1>4 DEF Query
<1>7. OfKind("sales")' = OfKind("sales") /\ \A i \in OfKind("sales") : Query(i)' = Query(i)
  BY <1>2, <1>4, <1>5, <1>6 DEF OfKind
<1>8. Latest(n + 1, "users")'
  BY <1>2, <1>4, <1>5, <1>6 DEF Latest, OfKind
<1>9. LastAsked'
  <2>1. PICK i \in Queries : Latest(i, "sales") /\ Query(i).shop = selected
    BY DEF SalesInv, LastAsked
  <2>2. Latest(i, "sales")' /\ Query(i)'.shop = selected
    BY <1>7, <2>1 DEF Latest
  <2> QED BY <1>1, <1>4, <1>5, <1>8, <2>2 DEF LastAsked, UsersQuery
<1> QED BY <1>2, <1>3, <1>4, <1>9, AskKeeps

\* An answer is the last of its kind, and changes nothing else of the GETs.
LEMMA ArrivedShape ==
    ASSUME SalesTypeOK, SentInTurn, NEW i \in Queries, queries[i].at = "sent", queries' = Arrived(i)
    PROVE  /\ i \in Sent /\ queries' \in [Queries -> QueriesMade \cup {Unsent}] /\ Sent' = Sent
           /\ \A j \in Sent : Query(j)' = Query(j)
           /\ queries'[i].last
           /\ \A j \in Sent : Query(j).kind # Query(i).kind => queries'[j] = queries[j]
<1>1. i \in Sent
  BY DEF Sent, Unsent
<1>2. PICK query \in QueriesMade : query = queries[i]
  BY <1>1, QueryShape
<1>3. queries'[i] = [query EXCEPT !.at = "over", !.last = TRUE]
  BY <1>2 DEF Arrived
<1>4. queries'[i] \in QueriesMade /\ queries'[i].q = query.q /\ queries'[i].last /\ queries'[i] # Unsent
  BY <1>3 DEF QueriesMade, Unsent
<1>5. ASSUME NEW j \in Queries \ {i}
      PROVE  /\ queries'[j] = queries[j] \/ queries'[j] = [queries[j] EXCEPT !.last = FALSE]
             /\ queries'[j] # queries[j] => j \in Sent /\ Query(j).kind = Query(i).kind
  BY <1>5 DEF Arrived, OfKind
<1>6. ASSUME NEW j \in Queries \ {i}
      PROVE  /\ queries'[j] \in QueriesMade \cup {Unsent} /\ (queries'[j] = Unsent <=> queries[j] = Unsent)
             /\ j \in Sent => queries'[j].q = queries[j].q
  <2>1. CASE queries'[j] = queries[j]
    BY <2>1 DEF SalesTypeOK
  <2>2. CASE queries'[j] # queries[j]
    <3>1. PICK old \in QueriesMade : old = queries[j]
      BY <1>5, <2>2, QueryShape
    <3>2. queries'[j] = [old EXCEPT !.last = FALSE]
      BY <1>5, <2>2, <3>1
    <3>3. queries'[j] \in QueriesMade /\ queries'[j].q = old.q /\ queries'[j] # Unsent
      BY <3>2 DEF QueriesMade, Unsent
    <3> QED BY <1>5, <2>2, <3>1, <3>3 DEF Sent
  <2> QED BY <2>1, <2>2
<1>7. Sent' = Sent
  BY <1>1, <1>4, <1>6 DEF Sent
<1>8. queries' \in [Queries -> QueriesMade \cup {Unsent}]
  <2>1. queries' = [j \in Queries |-> queries'[j]]
    BY DEF Arrived
  <2> QED BY <1>4, <1>6, <2>1
<1>9. ASSUME NEW j \in Sent PROVE Query(j)' = Query(j)
  BY <1>2, <1>4, <1>6, <1>9 DEF Query, Sent
<1>10. ASSUME NEW j \in Sent, Query(j).kind # Query(i).kind PROVE queries'[j] = queries[j]
  BY <1>5, <1>10 DEF Sent
<1> QED BY <1>1, <1>4, <1>7, <1>8, <1>9, <1>10

\* Every step of the sales keeps the invariant.
LEMMA SalesStep == SalesInv /\ [SalesNext]_salesVars => SalesInv'
<1> SUFFICES ASSUME SalesInv, [SalesNext]_salesVars PROVE SalesInv'
  OBVIOUS
<1>1. SalesTypeOK /\ SentInTurn /\ LastAsked /\ LastArrived
  BY DEF SalesInv
<1>2. FirstUsers \in [role : Roles, page : Nat \ {0}]
  BY RolesAssumption DEF FirstUsers, AnyRole
<1>3. ASSUME VisitSales PROVE SalesInv'
  <2>1. Sent' = 1..0 /\ selected' = Nil /\ sales' = Nil /\ people' = Nil
    BY <1>3 DEF VisitSales, Sent
  <2>2. SentInTurn' /\ LastAsked' /\ LastArrived'
    BY <2>1, RolesAssumption DEF SentInTurn, LastAsked, LastArrived
  <2>3. SalesTypeOK'
    BY <1>3, <1>2 DEF VisitSales, SalesTypeOK
  <2> QED BY <2>2, <2>3 DEF SalesInv
<1>4. ASSUME SelectNone PROVE SalesInv'
  <2>1. SalesTypeOK' /\ LastAsked'
    BY <1>4, <1>1 DEF SelectNone, SalesTypeOK, LastAsked
  <2>2. UNCHANGED <<queries, people>> /\ sales' = Nil
    BY <1>4 DEF SelectNone
  <2>3. SentInTurn' /\ LastArrived'
    BY <1>1, <2>2 DEF SentInTurn, LastArrived, Sent, OfKind, Query
  <2> QED BY <2>1, <2>3 DEF SalesInv
<1>5. ASSUME ToggleUsers PROVE SalesInv'
  <2>1. /\ selected # Nil /\ users' \in [role : Roles, page : Nat \ {0}] /\ usersVisible' \in BOOLEAN
        /\ UNCHANGED <<selected, sales, loading, people>>
    BY <1>5, <1>1 DEF ToggleUsers, Shown, SalesTypeOK
  <2>2. CASE usersVisible'
    <3>1. Ask(UsersQuery(selected, users')) /\ usersLoading' = TRUE
      BY <1>5, <2>1, <2>2 DEF ToggleUsers
    <3>2. queries' \in [Queries -> QueriesMade \cup {Unsent}] /\ SentInTurn' /\ LastAsked' /\ LastArrived'
      BY <2>1, <3>1, AskForUsers
    <3> QED BY <1>1, <2>1, <3>1, <3>2 DEF SalesInv, SalesTypeOK
  <2>3. CASE ~usersVisible'
    <3>1. UNCHANGED <<queries, usersLoading>>
      BY <1>5, <2>1, <2>3 DEF ToggleUsers
    <3>2. LastAsked' /\ SentInTurn' /\ LastArrived'
      BY <1>1, <2>1, <2>3, <3>1 DEF LastAsked, SentInTurn, LastArrived, Latest, Sent, OfKind, Query
    <3> QED BY <1>1, <2>1, <3>1, <3>2 DEF SalesInv, SalesTypeOK
  <2> QED BY <2>1, <2>2, <2>3
<1>6. ASSUME NEW s \in Shops, Select(s) PROVE SalesInv'
  <2>1. PICK qs : qs = <<SalesQuery(s)>> \o IF usersVisible THEN <<UsersQuery(s, users)>> ELSE <<>>
    OBVIOUS
  <2>2. SalesQuery(s) \in Wanted /\ UsersQuery(s, users) \in Wanted
    BY <1>1 DEF SalesQuery, UsersQuery, Wanted, OfSales, OfUsers, SalesTypeOK
  <2>3. /\ qs \in Seq(Wanted) /\ Len(qs) \in 1..2 /\ qs[1] = SalesQuery(s)
        /\ Len(qs) = 2 => qs[2] = UsersQuery(s, users)
    <3>1. CASE usersVisible
      BY <2>1, <2>2, <3>1
    <3>2. CASE ~usersVisible
      BY <2>1, <2>2, <3>2
    <3> QED BY <3>1, <3>2
  <2>4. /\ AskAll(qs) /\ selected' = s /\ loading' = TRUE /\ UNCHANGED sales
        /\ usersVisible' = FALSE /\ users' = FirstUsers /\ people' = Nil
        /\ usersLoading' = (usersLoading \/ usersVisible)
    BY <1>6, <2>1 DEF Select
  <2>5. PICK n \in 0..MaxQueries :
            /\ Sent = 1..n /\ Sent' = 1..(n + Len(qs)) /\ n + Len(qs) \in 0..MaxQueries
            /\ \A i \in 1..n : i \in Queries /\ queries'[i] = queries[i]
            /\ \A i \in 1..Len(qs) :
                    n + i \in Queries /\ queries'[n + i] = [at |-> "sent", q |-> qs[i], last |-> FALSE]
            /\ queries' \in [Queries -> QueriesMade \cup {Unsent}]
    BY <1>1, <2>3, <2>4, AskAdds
  <2>6. SentInTurn' /\ LastArrived'
    BY <2>3, <2>4, AskKeeps
  <2>7. n + 1 \in Queries /\ n + 1 \in Sent' /\ Query(n + 1)' = SalesQuery(s)
    <3>1. 1 \in 1..Len(qs) /\ n \in Nat
      BY <2>3, RolesAssumption
    <3>2. queries'[n + 1] = [at |-> "sent", q |-> qs[1], last |-> FALSE] /\ n + 1 \in Queries
      BY <2>5, <3>1
    <3>3. n + 1 \in 1..(n + Len(qs))
      BY <2>3, <3>1
    <3> QED BY <2>3, <2>5, <3>2, <3>3 DEF Query
  <2>8. ASSUME NEW i \in Sent', i > n + 1 PROVE Query(i)'.kind = "users"
    <3>1. i = n + 2 /\ Len(qs) = 2 /\ 2 \in 1..Len(qs)
      BY <2>3, <2>5, <2>8, RolesAssumption
    <3>2. queries'[n + 2] = [at |-> "sent", q |-> qs[2], last |-> FALSE]
      BY <2>5, <3>1
    <3> QED BY <2>3, <3>1, <3>2 DEF Query, UsersQuery
  <2>9. Latest(n + 1, "sales")' /\ Query(n + 1)'.shop = s
    <3>1. Query(n + 1)'.kind = "sales" /\ Query(n + 1)'.shop = s
      BY <2>7 DEF SalesQuery
    <3>2. \A i \in Sent' : i \in Int /\ (Query(i)'.kind = "sales" => i <= n + 1)
      BY <2>5, <2>8, RolesAssumption
    <3> QED BY <2>7, <3>1, <3>2 DEF Latest, OfKind
  <2>10. LastAsked'
    BY <2>4, <2>7, <2>9 DEF LastAsked
  <2>11. SalesTypeOK'
    BY <1>1, <1>2, <2>4, <2>5 DEF SalesTypeOK
  <2> QED BY <2>6, <2>10, <2>11 DEF SalesInv
<1>7. ASSUME NEW r \in Roles, SelectRole(r) PROVE SalesInv'
  <2>1. /\ selected # Nil /\ users' \in [role : Roles, page : Nat \ {0}]
        /\ UNCHANGED <<selected, sales, loading, usersVisible, people>>
        /\ Ask(UsersQuery(selected, users')) /\ usersLoading' = TRUE
    BY <1>7, <1>1 DEF SelectRole, Shown, SalesTypeOK
  <2>2. queries' \in [Queries -> QueriesMade \cup {Unsent}] /\ SentInTurn' /\ LastAsked' /\ LastArrived'
    BY <2>1, AskForUsers
  <2> QED BY <1>1, <2>1, <2>2 DEF SalesInv, SalesTypeOK
<1>8. ASSUME people # Nil, NEW page \in 1 .. TotalUserPages, TurnUsers(page) PROVE SalesInv'
  <2>1. TotalUserPages \in Nat
    <3>1. people \in OfUsers
      BY <1>8, <1>1 DEF SalesTypeOK
    <3>2. people.shop \in Shops /\ people.role \in Roles
      BY <3>1 DEF OfUsers
    <3> QED BY <3>2, PagesAssumption DEF TotalUserPages
  <2>2. page \in Nat \ {0}
    BY <2>1
  <2>3. users' \in [role : Roles, page : Nat \ {0}]
    <3>1. users \in [role : Roles, page : Nat \ {0}] /\ users' = [users EXCEPT !.page = page]
      BY <1>8, <1>1 DEF TurnUsers, SalesTypeOK
    <3> QED BY <2>2, <3>1
  <2>4. /\ selected # Nil /\ UNCHANGED <<selected, sales, loading, usersVisible, people>>
        /\ Ask(UsersQuery(selected, users')) /\ usersLoading' = TRUE
    BY <1>8 DEF TurnUsers, Shown
  <2>5. queries' \in [Queries -> QueriesMade \cup {Unsent}] /\ SentInTurn' /\ LastAsked' /\ LastArrived'
    BY <2>3, <2>4, AskForUsers
  <2> QED BY <1>1, <2>3, <2>4, <2>5 DEF SalesInv, SalesTypeOK
<1>9. ASSUME NEW i \in Queries, SalesArrive(i) \/ UsersArrive(i) PROVE SalesInv'
  <2>1. /\ queries[i].at = "sent" /\ queries' = Arrived(i) /\ UNCHANGED <<selected, usersVisible, users>>
        /\ \/ /\ Query(i).kind = "sales" /\ sales' \in {Query(i).shop, Nil} /\ loading' = FALSE
              /\ UNCHANGED <<people, usersLoading>>
           \/ /\ Query(i).kind = "users" /\ people' \in {Query(i), Nil} /\ usersLoading' = FALSE
              /\ UNCHANGED <<sales, loading>>
    BY <1>9 DEF SalesArrive, UsersArrive
  <2>2. /\ i \in Sent /\ queries' \in [Queries -> QueriesMade \cup {Unsent}] /\ Sent' = Sent
        /\ \A j \in Sent : Query(j)' = Query(j)
        /\ queries'[i].last
        /\ \A j \in Sent : Query(j).kind # Query(i).kind => queries'[j] = queries[j]
    BY <1>1, <2>1, ArrivedShape
  <2>3. \A kind \in {"sales", "users"} : OfKind(kind)' = OfKind(kind)
    BY <2>2 DEF OfKind
  <2>4. ASSUME NEW j \in Queries, NEW kind \in {"sales", "users"}, Latest(j, kind)
        PROVE  Latest(j, kind)' /\ Query(j)' = Query(j)
    BY <2>2, <2>3, <2>4 DEF Latest, OfKind
  <2>5. LastAsked'
    BY <1>1, <2>1, <2>4 DEF LastAsked
  <2>6. LastArrived'
    <3>1. sales' # Nil => \E j \in OfKind("sales")' : queries'[j].last /\ Query(j)'.shop = sales'
      <4>1. CASE Query(i).kind = "sales"
        BY <2>1, <2>2, <2>3, <4>1 DEF OfKind
      <4>2. CASE Query(i).kind = "users"
        BY <1>1, <2>1, <2>2, <2>3, <4>2 DEF OfKind, LastArrived
      <4> QED BY <2>1, <4>1, <4>2
    <3>2. people' # Nil => \E j \in OfKind("users")' : queries'[j].last /\ Query(j)' = people'
      <4>1. CASE Query(i).kind = "users"
        BY <2>1, <2>2, <2>3, <4>1 DEF OfKind
      <4>2. CASE Query(i).kind = "sales"
        BY <1>1, <2>1, <2>2, <2>3, <4>2 DEF OfKind, LastArrived
      <4> QED BY <2>1, <4>1, <4>2
    <3> QED BY <3>1, <3>2 DEF LastArrived
  <2>7. SalesTypeOK'
    <3>1. /\ Query(i).kind = "sales" => Query(i).shop \in Shops
          /\ Query(i).kind = "users" => Query(i) \in OfUsers
      BY <1>1, <2>2, QueryShape
    <3>2. sales' \in Shops \cup {Nil} /\ people' \in OfUsers \cup {Nil}
      BY <1>1, <2>1, <3>1 DEF SalesTypeOK
    <3>3. loading' \in BOOLEAN /\ usersLoading' \in BOOLEAN
      BY <1>1, <2>1 DEF SalesTypeOK
    <3> QED BY <1>1, <2>1, <2>2, <3>2, <3>3 DEF SalesTypeOK
  <2>8. SentInTurn'
    BY <1>1, <2>2 DEF SentInTurn
  <2> QED BY <2>5, <2>6, <2>7, <2>8 DEF SalesInv
<1>10. CASE UNCHANGED salesVars
  BY <1>1, <1>10 DEF SalesInv, SalesTypeOK, SentInTurn, LastAsked, LastArrived, Latest, Sent, OfKind, Query,
     salesVars
<1> QED BY <1>3, <1>4, <1>5, <1>6, <1>7, <1>8, <1>9, <1>10 DEF SalesNext

LEMMA SalesInitial == SalesInit => SalesInv
<1> SUFFICES ASSUME SalesInit PROVE SalesInv
  OBVIOUS
<1>1. FirstUsers \in [role : Roles, page : Nat \ {0}]
  BY RolesAssumption DEF FirstUsers, AnyRole
<1>2. Sent = 1..0
  BY DEF SalesInit, Sent
<1>3. SentInTurn
  BY <1>2, RolesAssumption DEF SentInTurn
<1> QED BY <1>1, <1>3 DEF SalesInit, SalesInv, SalesTypeOK, LastAsked, LastArrived

LEMMA SalesAlways == SalesSpec => []SalesInv
  BY SalesInitial, SalesStep, PTL DEF SalesSpec

\* What is selected and shown, and the GETs, have their types (SalesTypeOK).
THEOREM SalesTypes == SalesSpec => []SalesTypeOK
<1>1. SalesInv => SalesTypeOK
  BY DEF SalesInv
<1> QED BY <1>1, SalesAlways, PTL

\* The figures and the users on the screen are of the pizzeria, the role and the page it names,
\* once the answer that came last is to the last question (SalesAreOfTheSelected).
THEOREM SalesAreTheSelected == SalesSpec => []SalesAreOfTheSelected
<1>1. ASSUME SalesInv, NEW i, NEW kind, Latest(i, kind)
      PROVE  Max(OfKind(kind)) = i
  <2>1. OfKind(kind) \subseteq Int
    BY <1>1, RolesAssumption DEF OfKind, Sent, Queries
  <2>2. \A j \in OfKind(kind) : (\A h \in OfKind(kind) : j >= h) => j = i
    BY <1>1, <2>1 DEF Latest
  <2>3. i \in OfKind(kind) /\ \A j \in OfKind(kind) : i >= j
    BY <1>1, <2>1 DEF Latest
  <2> QED BY <2>2, <2>3 DEF Max
<1>2. ASSUME SalesInv, Shown, InOrder("sales") PROVE sales = selected
  <2>1. PICK i \in Queries : Latest(i, "sales") /\ Query(i).shop = selected
    BY <1>2 DEF SalesInv, LastAsked, Shown
  <2>2. PICK j \in OfKind("sales") : queries[j].last /\ Query(j).shop = sales
    BY <1>2 DEF SalesInv, LastArrived, Shown
  <2> QED BY <1>1, <1>2, <2>1, <2>2 DEF InOrder
<1>3. ASSUME SalesInv, Shown, usersVisible, people # Nil, InOrder("users")
      PROVE  people = UsersQuery(selected, users)
  <2>1. PICK i \in Queries : Latest(i, "users") /\ Query(i) = UsersQuery(selected, users)
    BY <1>3 DEF SalesInv, LastAsked, Shown
  <2>2. PICK j \in OfKind("users") : queries[j].last /\ Query(j) = people
    BY <1>3 DEF SalesInv, LastArrived
  <2> QED BY <1>1, <1>3, <2>1, <2>2 DEF InOrder
<1>4. SalesInv => SalesAreOfTheSelected
  BY <1>2, <1>3 DEF SalesAreOfTheSelected
<1> QED BY <1>4, SalesAlways, PTL

-----------------------------------------------------------------------------
(* The four side by side. *)

\* Each of the four behaves as it does alone.
LEMMA AdminsAreFour ==
    AdminSpec => /\ ListInit /\ [][ListNext]_listVars
                 /\ FormInit /\ [][FormNext]_formVars
                 /\ PlansInit /\ [][PlansNext]_plansVars
                 /\ SalesInit /\ [][SalesNext]_salesVars
<1>1. AdminInit => ListInit /\ FormInit /\ PlansInit /\ SalesInit
  BY DEF AdminInit
<1>2. [AdminNext]_adminVars => /\ [ListNext]_listVars /\ [FormNext]_formVars
                               /\ [PlansNext]_plansVars /\ [SalesNext]_salesVars
  BY DEF AdminNext, adminVars
<1> QED
  BY <1>1, <1>2, PTL DEF AdminSpec

\* Pizzerias, plans, forms, copies and the calls over them have their types (AdminTypeOK).
THEOREM AdminTypes == AdminSpec => []AdminTypeOK
<1>1. ListTypeOK /\ FormTypeOK /\ PlansTypeOK /\ SalesTypeOK => AdminTypeOK
  BY DEF AdminTypeOK
<1> QED
  BY <1>1, AdminsAreFour, ListTypes, FormTypes, PlansTypes, SalesTypes, PTL
     DEF ListSpec, FormSpec, PlansSpec, SalesSpec

\* With nothing under way, and nothing lost or overtaken, every screen of the administrator's
\* app shows what the server has (ScreensSettle).
THEOREM AllScreensSettle == AdminSpec => []ScreensSettle
<1>1. SwitchesSettle /\ CopySettles /\ SalesAreOfTheSelected => ScreensSettle
  BY DEF ScreensSettle
<1> QED
  BY <1>1, AdminsAreFour, TheSwitchesSettle, TheCopySettles, SalesAreTheSelected, PTL
     DEF ListSpec, PlansSpec, SalesSpec

=============================================================================
