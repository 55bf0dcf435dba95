----------------------------- MODULE OrderStatus -----------------------------
(***************************************************************************)
(* PATCH /orders/:id/status: OrdersService.updateStatus of apps/api.       *)
(*                                                                         *)
(* Each PATCH is one READ COMMITTED transaction (TenantContextInterceptor):*)
(* it reads the order, checks the transition against the table of          *)
(* order-status.ts, updates the row by its id alone, records the change in *)
(* audit_logs and commits.  The UPDATE locks the row until the transaction *)
(* ends, the SELECT before it does not: between the two another PATCH may  *)
(* commit.  audit keeps, per order, the metadata {from, to} of its         *)
(* order.status_change rows in commit order.                               *)
(***************************************************************************)
EXTENDS Naturals, Sequences

CONSTANTS
    Orders,     \* orders of the shop, all of them placed
    Patches     \* the PATCH requests the API will receive

OrderStatuses == {"pending", "preparing", "delivery", "completed", "cancelled"}

Transitions ==
    [s \in OrderStatuses |->
        CASE s = "pending"   -> {"preparing", "cancelled"}
          [] s = "preparing" -> {"delivery", "cancelled"}
          [] s = "delivery"  -> {"completed", "cancelled"}
          [] OTHER           -> {}]

FinalStatuses == {s \in OrderStatuses : Transitions[s] = {}}

Changes == [from : OrderStatuses, to : OrderStatuses]

Stages == {"idle", "checked", "written", "done", "refused", "failed"}

VARIABLES
    status,     \* committed status of each order
    audit,      \* committed status changes of each order
    stage,      \* where each PATCH stands
    target,     \* the order it changes
    change      \* the status it read and the one it writes

vars == <<status, audit, stage, target, change>>

Init ==
    /\ status = [o \in Orders |-> "pending"]
    /\ audit = [o \in Orders |-> <<>>]
    /\ stage = [p \in Patches |-> "idle"]
    /\ target \in [Patches -> Orders]
    /\ change = [p \in Patches |-> [from |-> "pending", to |-> "pending"]]

Goto(p, s) == stage' = [stage EXCEPT ![p] = s]

-----------------------------------------------------------------------------
\* Mutant of LocksRow: a lock that outlives its transaction.
LocksRowForever(p) == stage[p] \in {"written", "done", "failed"}

\* The UPDATE's lock on the order's row.
LocksRow(p) == stage[p] = "written"

\* Mutant of ReadAndCheck: the read sees what another PATCH has not committed.
ReadUncommitted(p, next) ==
    /\ stage[p] = "idle"
    /\ \E from \in {status[target[p]]} \cup
                     {change[q].to : q \in {r \in Patches : LocksRow(r) /\ target[r] = target[p]}} :
            /\ next \in Transitions[from]
            /\ change' = [change EXCEPT ![p] = [from |-> from, to |-> next]]
    /\ Goto(p, "checked")
    /\ UNCHANGED <<status, audit, target>>

\* findUnique and assertValidTransition: an invalid transition is a 400.
ReadAndCheck(p, next) ==
    /\ stage[p] = "idle"
    /\ change' = [change EXCEPT ![p] = [from |-> status[target[p]], to |-> next]]
    /\ Goto(p, IF next \in Transitions[status[target[p]]] THEN "checked" ELSE "refused")
    /\ UNCHANGED <<status, audit, target>>

\* order.update WHERE id, then the audit row: waits for the row's lock only.
Write(p) ==
    /\ stage[p] = "checked"
    /\ ~\E q \in Patches : LocksRow(q) /\ target[q] = target[p]
    /\ Goto(p, "written")
    /\ UNCHANGED <<status, audit, target, change>>

\* Mutant of Commit: the audit row is not part of the transaction and is lost.
CommitWithoutLog(p) ==
    /\ stage[p] = "written"
    /\ Goto(p, "done")
    /\ status' = [status EXCEPT ![target[p]] = change[p].to]
    /\ \/ audit' = [audit EXCEPT ![target[p]] = Append(@, change[p])]
       \/ UNCHANGED audit
    /\ UNCHANGED <<target, change>>

\* The transaction ends: the status and its audit row appear together.
Commit(p) ==
    /\ stage[p] = "written"
    /\ Goto(p, "done")
    /\ status' = [status EXCEPT ![target[p]] = change[p].to]
    /\ audit' = [audit EXCEPT ![target[p]] = Append(@, change[p])]
    /\ UNCHANGED <<target, change>>

\* Prisma's transaction timeout, a lost connection, a failed audit insert.
Rollback(p) ==
    /\ stage[p] \in {"checked", "written"}
    /\ Goto(p, "failed")
    /\ UNCHANGED <<status, audit, target, change>>

Handle(p) == Write(p) \/ Commit(p)

Next ==
    \E p \in Patches :
        \/ \E next \in OrderStatuses : ReadAndCheck(p, next)
        \/ Handle(p)
        \/ Rollback(p)

\* A transaction that runs is driven to its end by the event loop and the
\* database; nobody is obliged to send a PATCH.
Fairness == \A p \in Patches : WF_vars(Handle(p))

Spec == Init /\ [][Next]_vars /\ Fairness

-----------------------------------------------------------------------------
TypeOK ==
    /\ status \in [Orders -> OrderStatuses]
    /\ audit \in [Orders -> Seq(Changes)]
    /\ stage \in [Patches -> Stages]
    /\ target \in [Patches -> Orders]
    /\ change \in [Patches -> Changes]

\* The statuses order o has had, as its log tells them, oldest first.
History(o) ==
    [i \in 1 .. Len(audit[o]) + 1 |-> IF i = 1 THEN "pending" ELSE audit[o][i - 1].to]

\* "rollback da mudanca de status leva o log junto": the log and the order never
\* disagree on what the order's status is, whoever wrote last.
LogTellsTheStatus ==
    \A o \in Orders : status[o] = History(o)[Len(audit[o]) + 1]

\* Every recorded change is a transition of the table out of a status the order
\* really had before it.
LoggedChangesWereLegal ==
    \A o \in Orders : \A i \in 1 .. Len(audit[o]) :
        /\ audit[o][i].to \in Transitions[audit[o][i].from]
        /\ \E j \in 1 .. i : History(o)[j] = audit[o][i].from

\* A PATCH that passed the check ends: row locks are always released.
EveryPatchEnds ==
    \A p \in Patches : stage[p] = "checked" ~> stage[p] \in {"done", "failed"}

-----------------------------------------------------------------------------
\* "todo PATCH .../status passa por assertValidTransition antes de escrever no
\* banco": an order that was completed or cancelled is never given another status.
FinalStatusIsFinal ==
    \A o \in Orders : \A i \in 1 .. Len(audit[o]) : History(o)[i] \notin FinalStatuses

=============================================================================
