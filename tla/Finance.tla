-------------------------------- MODULE Finance --------------------------------
(***************************************************************************)
(* The finance screen (Financial.tsx) over GET /financial/revenue and the  *)
(* four calls of /financial/expenses.                                      *)
(*                                                                         *)
(* Every choice of a period asks for its expenses, and forgets none of the *)
(* GETs before; they are answered in any order, and so are the calls that  *)
(* save and remove.  The other figures of the screen (revenue, orders and  *)
(* the totals of the period before) are asked for alike, and nothing here  *)
(* writes to them: they are left out.                                      *)
(*                                                                         *)
(* A period is its number of days, an expense its age: a GET has those not *)
(* older than the period.  Nothing is disabled while a call is under way.  *)
(***************************************************************************)
EXTENDS Naturals, Sequences

CONSTANTS
    ExpenseIds,
    Ages,
    Periods,
    MaxChoices,     \* bound: choices of a period in one visit
    ExpenseCalls,   \* slots: POSTs, PATCHes and DELETEs under way
    Unset

ASSUME PeriodsAssumption == Periods \subseteq Nat /\ Ages \subseteq Nat
ASSUME UnsetAssumption == Unset \notin Nat \cup ExpenseIds

VARIABLES
    expenses,      \* expenses: their age (Unset: no row)
    choices,       \* the periods chosen in this visit, in order
    gets,          \* the GET of each choice
    listOf,        \* the period of the list that came last (Unset: none yet)
    listed,        \* the component's expenses, by id
    expenseForm,
    expenseCalls,
    twice,         \* expenses that the list has in two rows, which change alike
    misfiled,      \* history: listed expenses put there with a date outside the list's period
    lastSaves,     \* history: calls that wrote the last of an expense, and are not answered
    overtaken,     \* history: a GET not answered yet, and an expense written since it was served
    strayed        \* history: expenses of which the list may not show what is stored

screenGets == <<choices, gets, listOf>>
expenseList == <<listed, twice, misfiled, strayed>>
financeVars == <<expenses, screenGets, expenseList, expenseForm, expenseCalls, lastSaves, overtaken>>

Ledger == [ExpenseIds -> Ages \cup {Unset}]
GetSent == [at |-> "sent"]
Gets == [at : {"sent", "over"}] \cup [at : {"served"}, rows : Ledger]

Blank == [open |-> FALSE]
Editors == {Blank} \cup [open : {TRUE}, editing : ExpenseIds \cup {Unset}, age : Ages]

\* A call; the expense of a new one is known once it is stored.
ExpenseSent ==
    [at : {"sent", "applied"}, kind : {"save"}, expense : ExpenseIds \cup {Unset}, age : Ages, new : BOOLEAN] \cup
    [at : {"sent", "applied"}, kind : {"remove"}, expense : ExpenseIds, new : {FALSE}, edited : BOOLEAN]
NoCalls == [k \in ExpenseCalls |-> [at |-> "idle"]]
NoneListed == [e \in ExpenseIds |-> Unset]

Period == choices[Len(choices)]

Within(ages, period) == [e \in ExpenseIds |-> IF ages[e] # Unset /\ ages[e] <= period THEN ages[e] ELSE Unset]

FinanceInit ==
    /\ expenses \in Ledger
    /\ \E p \in Periods : choices = <<p>>
    /\ gets = <<GetSent>>
    /\ listOf = Unset
    /\ listed = NoneListed
    /\ expenseForm = Blank
    /\ expenseCalls = NoCalls
    /\ twice = {} /\ misfiled = {} /\ lastSaves = {} /\ overtaken = {}
    /\ strayed = ExpenseIds

-----------------------------------------------------------------------------
\* setPeriodDays, and the effect of the render it causes.
ChoosePeriod(p) ==
    /\ p # Period /\ Len(choices) < MaxChoices
    /\ choices' = Append(choices, p)
    /\ gets' = Append(gets, GetSent)
    /\ UNCHANGED <<expenses, listOf, expenseList, expenseForm, expenseCalls, lastSaves, overtaken>>

\* ExpensesService.list.
ServeList(t) ==
    /\ gets[t].at = "sent"
    /\ gets' = [gets EXCEPT ![t] = [at |-> "served", rows |-> Within(expenses, choices[t])]]
    /\ UNCHANGED <<expenses, choices, listOf, expenseList, expenseForm, expenseCalls, lastSaves, overtaken>>

\* The GET is over; what has been written since it was served no longer matters.
GetOver(t) ==
    /\ gets' = [gets EXCEPT ![t] = [at |-> "over"]]
    /\ overtaken' = {o \in overtaken : o[1] # t}
    /\ UNCHANGED <<expenses, choices, expenseForm, expenseCalls, lastSaves>>

\* Mutant of ListArrives: the answer is added to the list, row by row.
ListArrivesOnTop(t) ==
    /\ gets[t].at = "served"
    /\ listed' = [e \in ExpenseIds |-> IF gets[t].rows[e] = Unset THEN listed[e] ELSE gets[t].rows[e]]
    /\ listOf' = choices[t]
    /\ twice' = {} /\ misfiled' = {}
    /\ strayed' = {e \in ExpenseIds : <<t, e>> \in overtaken}
    /\ GetOver(t)

\* setExpenses, whichever period is chosen by now.
ListArrives(t) ==
    /\ gets[t].at = "served"
    /\ listed' = gets[t].rows
    /\ listOf' = choices[t]
    /\ twice' = {} /\ misfiled' = {}
    /\ strayed' = {e \in ExpenseIds : <<t, e>> \in overtaken}
    /\ GetOver(t)

\* The list stays what it was.
ListFails(t) ==
    /\ gets[t].at # "over"
    /\ GetOver(t)
    /\ UNCHANGED <<listOf, expenseList>>

-----------------------------------------------------------------------------
Editor(form) ==
    /\ expenseForm' = form
    /\ UNCHANGED <<expenses, screenGets, expenseList, expenseCalls, lastSaves, overtaken>>

\* "Nova Despesa" keeps what is typed; of that, the date is the expense's age.
AddExpense == \E a \in Ages : Editor([open |-> TRUE, editing |-> Unset, age |-> a])

StartEdit(e) ==
    /\ listed[e] # Unset
    /\ Editor([open |-> TRUE, editing |-> e, age |-> listed[e]])

SetDate(a) == expenseForm.open /\ Editor([expenseForm EXCEPT !.age = a])

ResetForm == expenseForm.open /\ Editor(Blank)

CallExpenses(k, call) ==
    /\ expenseCalls[k].at = "idle"
    /\ expenseCalls' = [expenseCalls EXCEPT ![k] = call]
    /\ UNCHANGED <<expenses, screenGets, expenseList, expenseForm, lastSaves, overtaken>>

\* handleSaveExpense.
SaveExpense(k) ==
    /\ expenseForm.open
    /\ CallExpenses(k, [at |-> "sent", kind |-> "save", expense |-> expenseForm.editing,
                        age |-> expenseForm.age, new |-> expenseForm.editing = Unset])

\* removeExpense: it remembers what was being edited when it was clicked.
RemoveExpense(k, e) ==
    /\ listed[e] # Unset
    /\ CallExpenses(k, [at |-> "sent", kind |-> "remove", expense |-> e, new |-> FALSE,
                        edited |-> expenseForm.open /\ expenseForm.editing = e])

-----------------------------------------------------------------------------
Stored(k, e, row) ==
    /\ expenseCalls[k].at = "sent"
    /\ expenses' = [expenses EXCEPT ![e] = row]
    /\ expenseCalls' = [expenseCalls EXCEPT ![k].at = "applied", ![k].expense = e]
    /\ lastSaves' = {q \in lastSaves : expenseCalls[q].expense # e} \cup {k}
    /\ overtaken' = overtaken \cup {<<t, e>> : t \in {t \in 1..Len(gets) : gets[t].at = "served"}}
    /\ UNCHANGED <<screenGets, expenseList, expenseForm>>

\* An id that nothing on the way refers to.
Unseen(e) ==
    /\ expenses[e] = Unset /\ listed[e] = Unset
    /\ expenseForm.open => expenseForm.editing # e
    /\ \A k \in ExpenseCalls : expenseCalls[k].at # "idle" => expenseCalls[k].expense # e
    /\ \A t \in 1..Len(gets) : gets[t].at = "served" => gets[t].rows[e] = Unset

\* ExpensesService.create.
CreateExpense(k, e) ==
    /\ expenseCalls[k].at = "sent" /\ expenseCalls[k].new
    /\ Unseen(e)
    /\ Stored(k, e, expenseCalls[k].age)

\* ExpensesService.update and remove: one that is gone is refused.
ChangeExpense(k) ==
    LET call == expenseCalls[k] IN
    /\ call.at = "sent" /\ ~call.new
    /\ expenses[call.expense] # Unset
    /\ Stored(k, call.expense, IF call.kind = "save" THEN call.age ELSE Unset)

Answered(k) ==
    /\ expenseCalls' = [expenseCalls EXCEPT ![k] = [at |-> "idle"]]
    /\ lastSaves' = lastSaves \ {k}
    /\ UNCHANGED <<expenses, screenGets, overtaken>>

InListsPeriod(age) == listOf # Unset /\ age <= listOf

\* A new expense is put first; another is found in the list, or the answer changes nothing.
Placed(k) == expenseCalls[k].new \/ listed[expenseCalls[k].expense] # Unset

\* The new expense first, even if the list has it by now, or the row in its place: whatever
\* period it is of, and whatever period is on the screen.  The form is reset, whichever it is.
ExpenseSaved(k) ==
    LET e == expenseCalls[k].expense
        row == expenseCalls[k].age IN
    /\ expenseCalls[k].at = "applied" /\ expenseCalls[k].kind = "save"
    /\ listed' = IF Placed(k) THEN [listed EXCEPT ![e] = row] ELSE listed
    /\ twice' = IF expenseCalls[k].new /\ listed[e] # Unset THEN twice \cup {e} ELSE twice
    /\ misfiled' = IF InListsPeriod(row) THEN misfiled \ {e}
                   ELSE IF Placed(k) THEN misfiled \cup {e} ELSE misfiled
    /\ strayed' = IF Placed(k) /\ k \in lastSaves /\ e \notin twice' THEN strayed \ {e}
                  ELSE IF Placed(k) \/ (k \in lastSaves /\ InListsPeriod(row)) THEN strayed \cup {e}
                  ELSE strayed
    /\ expenseForm' = Blank
    /\ Answered(k)

ExpenseRemoved(k) ==
    LET e == expenseCalls[k].expense IN
    /\ expenseCalls[k].at = "applied" /\ expenseCalls[k].kind = "remove"
    /\ listed' = [listed EXCEPT ![e] = Unset]
    /\ twice' = twice \ {e} /\ misfiled' = misfiled \ {e}
    /\ strayed' = IF k \in lastSaves THEN strayed \ {e} ELSE strayed \cup {e}
    /\ expenseForm' = IF expenseCalls[k].edited THEN Blank ELSE expenseForm
    /\ Answered(k)

\* Refused, or lost on the way or on the way back: nobody catches it.
ExpenseFails(k) ==
    /\ expenseCalls[k].at # "idle"
    /\ strayed' = IF k \in lastSaves THEN strayed \cup {expenseCalls[k].expense} ELSE strayed
    /\ Answered(k)
    /\ UNCHANGED <<listed, twice, misfiled, expenseForm>>

FinanceNext ==
    \/ AddExpense \/ ResetForm
    \/ \E p \in Periods : ChoosePeriod(p)
    \/ \E t \in 1..Len(choices) : ServeList(t) \/ ListArrives(t) \/ ListFails(t)
    \/ \E a \in Ages : SetDate(a)
    \/ \E e \in ExpenseIds : StartEdit(e)
    \/ \E k \in ExpenseCalls :
        \/ SaveExpense(k) \/ ChangeExpense(k) \/ ExpenseSaved(k) \/ ExpenseRemoved(k) \/ ExpenseFails(k)
        \/ \E e \in ExpenseIds : RemoveExpense(k, e) \/ CreateExpense(k, e)

FinanceSpec == FinanceInit /\ [][FinanceNext]_financeVars

-----------------------------------------------------------------------------
FinanceTypeOK ==
    /\ expenses \in Ledger /\ listed \in Ledger
    /\ choices \in Seq(Periods) /\ gets \in Seq(Gets)
    /\ Len(choices) >= 1 /\ Len(gets) = Len(choices)
    /\ listOf \in Periods \cup {Unset}
    /\ expenseForm \in Editors
    /\ expenseCalls \in [ExpenseCalls -> ExpenseSent \cup {[at |-> "idle"]}]
    /\ \A k \in ExpenseCalls : expenseCalls[k].at # "idle" =>
            \/ expenseCalls[k].expense \in ExpenseIds
            \/ expenseCalls[k].at = "sent" /\ expenseCalls[k].new
    /\ misfiled \subseteq ExpenseIds /\ twice \subseteq ExpenseIds /\ strayed \subseteq ExpenseIds
    /\ lastSaves \subseteq ExpenseCalls
    /\ overtaken \subseteq (Nat \X ExpenseIds)

\* The list may be believed about the expense: it was not overtaken, and waits for nothing.
ListKnows(e) == e \notin strayed /\ \A k \in lastSaves : expenseCalls[k].expense # e

\* '"expenses" ja vem escopada ao periodo atual pelo backend -- sem filtro client-side':
\* whatever GETs and saves cross, the list, and so what is added up, is of one period, that
\* of the GET answered last, but for the expenses a save put there with another date.  And it
\* is all of that period, as it is stored, each expense once; except for an expense that was
\* written after that GET was served, of which the answer was lost or overtaken, that came in
\* the list before it was put there, or that was moved into the period from out of the list.
ListIsOfOnePeriod ==
    listOf # Unset =>
        \A e \in ExpenseIds :
            /\ listed[e] # Unset /\ e \notin misfiled => listed[e] <= listOf
            /\ ListKnows(e) =>
                /\ listed[e] = IF e \in misfiled THEN expenses[e] ELSE Within(expenses, listOf)[e]
                /\ e \notin twice

=============================================================================
