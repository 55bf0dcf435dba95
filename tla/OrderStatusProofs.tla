-------------------------- MODULE OrderStatusProofs --------------------------
(***************************************************************************)
(* What PATCH /orders/:id/status keeps true for any number of orders and   *)
(* of concurrent PATCHes: the types, and that the audit log and the status *)
(* of an order agree.  Then what the screens over it show, for any number  *)
(* of polls in flight.                                                     *)
(***************************************************************************)
EXTENDS OrderViews, TLAPS

\* The types are kept by every PATCH of updateStatus.
LEMMA TypeStep == TypeOK /\ [Next]_vars => TypeOK'
<1> SUFFICES ASSUME TypeOK, [Next]_vars PROVE TypeOK'
  OBVIOUS
<1>1. ASSUME NEW p \in Patches, NEW next \in OrderStatuses, ReadAndCheck(p, next)
      PROVE TypeOK'
  BY <1>1 DEF ReadAndCheck, TypeOK, Goto, Changes, Stages
<1>2. ASSUME NEW p \in Patches, Write(p) PROVE TypeOK'
  BY <1>2 DEF Write, TypeOK, Goto, Stages
<1>3. ASSUME NEW p \in Patches, Commit(p) PROVE TypeOK'
  <2>1. change[p] \in Changes /\ change[p].to \in OrderStatuses /\ target[p] \in Orders
    BY DEF TypeOK, Changes
  <2>2. Append(audit[target[p]], change[p]) \in Seq(Changes)
    BY <2>1 DEF TypeOK
  <2> QED
    BY <1>3, <2>1, <2>2 DEF Commit, TypeOK, Goto, Stages
<1>4. ASSUME NEW p \in Patches, Rollback(p) PROVE TypeOK'
  BY <1>4 DEF Rollback, TypeOK, Goto, Stages
<1>5. CASE UNCHANGED vars
  BY <1>5 DEF vars, TypeOK
<1> QED
  BY <1>1, <1>2, <1>3, <1>4, <1>5 DEF Next, Handle

\* The types hold, however many PATCHes of updateStatus there are.
THEOREM TypeCorrect == Spec => []TypeOK
<1>1. Init => TypeOK
  BY DEF Init, TypeOK, OrderStatuses, Stages, Changes
<1> QED
  BY <1>1, TypeStep, PTL DEF Spec

-----------------------------------------------------------------------------
\* What a PATCH that passed the check carries to its commit: a transition of
\* the table out of a status its order has had.
Carried(p) ==
    stage[p] \in {"checked", "written"} =>
        /\ change[p].to \in Transitions[change[p].from]
        /\ \E j \in 1 .. Len(audit[target[p]]) + 1 : History(target[p])[j] = change[p].from

Inv ==
    /\ TypeOK
    /\ LogTellsTheStatus
    /\ LoggedChangesWereLegal
    /\ \A p \in Patches : Carried(p)

\* The entries of a history: "pending", then what each logged change wrote.
LEMMA HistoryEntries ==
    ASSUME NEW o, Len(audit[o]) \in Nat, NEW i \in 1 .. Len(audit[o]) + 1
    PROVE  History(o)[i] = IF i = 1 THEN "pending" ELSE audit[o][i - 1].to
BY DEF History

LEMMA NextHistoryEntries ==
    ASSUME NEW o, Len(audit'[o]) \in Nat, NEW i \in 1 .. Len(audit'[o]) + 1
    PROVE  History(o)'[i] = IF i = 1 THEN "pending" ELSE audit'[o][i - 1].to
BY DEF History

\* The history of an order whose log does not change does not change.
LEMMA SameHistory ==
    ASSUME UNCHANGED audit
    PROVE  \A o \in Orders : History(o)' = History(o)
BY DEF History

LEMMA InitInv == Init => Inv
<1> SUFFICES ASSUME Init PROVE Inv
  OBVIOUS
<1>1. TypeOK
  BY DEF Init, TypeOK, OrderStatuses, Stages, Changes
<1>2. ASSUME NEW o \in Orders PROVE status[o] = History(o)[Len(audit[o]) + 1]
  <2>1. status[o] = "pending" /\ Len(audit[o]) = 0
    BY DEF Init
  <2> QED
    BY <2>1, HistoryEntries
<1>3. LoggedChangesWereLegal
  BY DEF Init, LoggedChangesWereLegal
<1>4. \A p \in Patches : Carried(p)
  BY DEF Init, Carried
<1> QED
  BY <1>1, <1>2, <1>3, <1>4 DEF Inv, LogTellsTheStatus

\* The status a PATCH reads is the last of the history the log tells.
LEMMA ReadAndCheckInv ==
    ASSUME Inv, TypeOK', NEW p \in Patches, NEW next \in OrderStatuses, ReadAndCheck(p, next)
    PROVE  Inv'
<1>1. UNCHANGED <<status, audit, target>>
  BY DEF ReadAndCheck
<1>2. \A o \in Orders : History(o)' = History(o)
  BY <1>1, SameHistory
<1>3. LogTellsTheStatus'
  BY <1>1, <1>2 DEF Inv, LogTellsTheStatus
<1>4. LoggedChangesWereLegal'
  BY <1>1, <1>2 DEF Inv, LoggedChangesWereLegal
<1>5. ASSUME NEW q \in Patches PROVE Carried(q)'
  <2>1. target[q] \in Orders /\ Len(audit[target[q]]) \in Nat
    BY DEF Inv, TypeOK
  <2>2. CASE q = p
    <3>1. change'[p] = [from |-> status[target[p]], to |-> next]
      BY DEF ReadAndCheck, Inv, TypeOK
    <3>2. stage'[p] = "checked" => next \in Transitions[status[target[p]]]
      BY DEF ReadAndCheck, Goto, Inv, TypeOK
    <3>3. stage'[p] \in {"checked", "refused"}
      BY DEF ReadAndCheck, Goto, Inv, TypeOK
    <3>4. History(target[p])[Len(audit[target[p]]) + 1] = status[target[p]]
      BY <2>1, <2>2 DEF Inv, LogTellsTheStatus
    <3>5. Len(audit[target[p]]) + 1 \in 1 .. Len(audit[target[p]]) + 1
      BY <2>1, <2>2
    <3> QED
      BY <1>1, <1>2, <2>1, <2>2, <3>1, <3>2, <3>3, <3>4, <3>5 DEF Carried
  <2>3. CASE q # p
    <3>1. stage'[q] = stage[q] /\ change'[q] = change[q]
      BY <2>3 DEF ReadAndCheck, Goto, Inv, TypeOK
    <3> QED
      BY <1>1, <1>2, <2>1, <3>1 DEF Carried, Inv
  <2> QED
    BY <2>2, <2>3
<1> QED
  BY <1>3, <1>4, <1>5 DEF Inv

\* Waiting for the lock and rolling back touch no table.
LEMMA QuietInv ==
    ASSUME Inv, TypeOK', NEW p \in Patches, Write(p) \/ Rollback(p)
    PROVE  Inv'
<1>1. UNCHANGED <<status, audit, target, change>>
  BY DEF Write, Rollback
<1>2. \A o \in Orders : History(o)' = History(o)
  BY <1>1, SameHistory
<1>3. LogTellsTheStatus'
  BY <1>1, <1>2 DEF Inv, LogTellsTheStatus
<1>4. LoggedChangesWereLegal'
  BY <1>1, <1>2 DEF Inv, LoggedChangesWereLegal
<1>5. ASSUME NEW q \in Patches PROVE Carried(q)'
  <2>1. stage'[q] \in {"checked", "written"} => stage[q] \in {"checked", "written"}
    BY DEF Write, Rollback, Goto, Inv, TypeOK
  <2>2. target[q] \in Orders
    BY DEF Inv, TypeOK
  <2> QED
    BY <1>1, <1>2, <2>1, <2>2 DEF Carried, Inv
<1> QED
  BY <1>3, <1>4, <1>5 DEF Inv

\* What a commit does to the histories: one entry more in that of its order.
LEMMA CommitHistory ==
    ASSUME TypeOK, NEW p \in Patches, Commit(p), NEW o, o = target[p]
    PROVE  /\ Len(audit'[o]) = Len(audit[o]) + 1
           /\ \A j \in 1 .. Len(audit[o]) + 1 : History(o)'[j] = History(o)[j]
           /\ History(o)'[Len(audit[o]) + 2] = change[p].to
           /\ \A x \in Orders \ {o} : audit'[x] = audit[x] /\ History(x)' = History(x)
<1> DEFINE n == Len(audit[o])
<1>1. o \in Orders /\ n \in Nat /\ change[p] \in Changes /\ audit[o] \in Seq(Changes)
  BY DEF TypeOK
<1>2. audit' = [audit EXCEPT ![o] = Append(@, change[p])]
  BY DEF Commit
<1>3. /\ Len(audit'[o]) = n + 1
      /\ \A i \in 1 .. n : audit'[o][i] = audit[o][i]
      /\ audit'[o][n + 1] = change[p]
  BY <1>1, <1>2 DEF TypeOK
<1>4. ASSUME NEW x \in Orders, x # o
      PROVE  audit'[x] = audit[x] /\ History(x)' = History(x)
  BY <1>2, <1>4 DEF TypeOK, History
<1>5. ASSUME NEW j \in 1 .. n + 1 PROVE History(o)'[j] = History(o)[j]
  <2>1. History(o)[j] = IF j = 1 THEN "pending" ELSE audit[o][j - 1].to
    BY <1>1, HistoryEntries
  <2>2. Len(audit'[o]) \in Nat /\ j \in 1 .. Len(audit'[o]) + 1
    BY <1>1, <1>3
  <2>3. History(o)'[j] = IF j = 1 THEN "pending" ELSE audit'[o][j - 1].to
    BY <2>2, NextHistoryEntries
  <2>4. j # 1 => audit'[o][j - 1] = audit[o][j - 1]
    BY <1>1, <1>3
  <2> QED
    BY <2>1, <2>3, <2>4
<1>6. History(o)'[n + 2] = change[p].to
  <2>1. /\ Len(audit'[o]) \in Nat /\ n + 2 \in 1 .. Len(audit'[o]) + 1
        /\ n + 2 # 1 /\ (n + 2) - 1 = n + 1
    BY <1>1, <1>3
  <2>2. History(o)'[n + 2] = audit'[o][n + 1].to
    BY <2>1, NextHistoryEntries
  <2> QED
    BY <1>3, <2>2
<1> QED
  BY <1>3, <1>4, <1>5, <1>6

\* A commit adds to the log exactly the status it writes, and the history of
\* the order only grows: what other PATCHes carry stays in it.
LEMMA CommitInv ==
    ASSUME Inv, TypeOK', NEW p \in Patches, Commit(p)
    PROVE  Inv'
<1>0. PICK o : o = target[p]
  OBVIOUS
<1> DEFINE n == Len(audit[o])
<1>1. o \in Orders /\ n \in Nat /\ change[p] \in Changes /\ audit[o] \in Seq(Changes)
  BY <1>0 DEF Inv, TypeOK
<1>2. /\ target' = target /\ change' = change
      /\ status' = [status EXCEPT ![o] = change[p].to]
      /\ audit' = [audit EXCEPT ![o] = Append(@, change[p])]
      /\ stage[p] = "written" /\ stage' = [stage EXCEPT ![p] = "done"]
  BY <1>0 DEF Commit, Goto
<1>3. /\ Len(audit'[o]) = n + 1
      /\ \A i \in 1 .. n : audit'[o][i] = audit[o][i]
      /\ audit'[o][n + 1] = change[p]
  BY <1>1, <1>2 DEF Inv, TypeOK
<1>4. ASSUME NEW x \in Orders, x # o
      PROVE  audit'[x] = audit[x] /\ status'[x] = status[x] /\ History(x)' = History(x)
  BY <1>0, <1>2, <1>4, CommitHistory DEF Inv, TypeOK
<1>5. ASSUME NEW j \in 1 .. n + 1 PROVE History(o)'[j] = History(o)[j]
  BY <1>0, <1>5, CommitHistory DEF Inv
<1>6. History(o)'[n + 2] = change[p].to
  BY <1>0, CommitHistory DEF Inv
<1>7. LogTellsTheStatus'
  <2> SUFFICES ASSUME NEW x \in Orders
               PROVE  status'[x] = History(x)'[Len(audit'[x]) + 1]
    BY DEF LogTellsTheStatus
  <2>1. CASE x = o
    <3>1. status'[o] = change[p].to
      BY <1>1, <1>2 DEF Inv, TypeOK
    <3>2. Len(audit'[o]) + 1 = n + 2
      BY <1>1, <1>3
    <3> QED
      BY <1>6, <2>1, <3>1, <3>2
  <2>2. CASE x # o
    BY <1>4, <2>2 DEF Inv, LogTellsTheStatus
  <2> QED
    BY <2>1, <2>2
<1>8. LoggedChangesWereLegal'
  <2> SUFFICES ASSUME NEW x \in Orders, NEW i \in 1 .. Len(audit'[x])
               PROVE  /\ audit'[x][i].to \in Transitions[audit'[x][i].from]
                      /\ \E j \in 1 .. i : History(x)'[j] = audit'[x][i].from
    BY DEF LoggedChangesWereLegal
  <2>1. CASE x # o
    BY <1>4, <2>1 DEF Inv, LoggedChangesWereLegal
  <2>2. CASE x = o /\ i \in 1 .. n
    <3>1. PICK j \in 1 .. i : History(o)[j] = audit[o][i].from
      BY <2>2 DEF Inv, LoggedChangesWereLegal
    <3>2. j \in 1 .. n + 1
      BY <1>1, <2>2, <3>1
    <3>3. audit[o][i].to \in Transitions[audit[o][i].from]
      BY <1>1, <2>2 DEF Inv, LoggedChangesWereLegal
    <3>4. History(x)'[j] = audit'[x][i].from
      BY <1>3, <1>5, <2>2, <3>1, <3>2
    <3> QED
      BY <1>3, <2>2, <3>1, <3>3, <3>4
  <2>3. CASE x = o /\ i = n + 1
    <3>1. change[p].to \in Transitions[change[p].from]
      BY <1>0, <1>2 DEF Inv, Carried
    <3>2. PICK j \in 1 .. n + 1 : History(o)[j] = change[p].from
      BY <1>0, <1>2 DEF Inv, Carried
    <3>3. j \in 1 .. i /\ History(x)'[j] = audit'[x][i].from
      BY <1>3, <1>5, <2>3, <3>2
    <3> QED
      BY <1>3, <2>3, <3>1, <3>3
  <2>4. x = o => i \in 1 .. n \/ i = n + 1
    BY <1>1, <1>3
  <2> QED
    BY <2>1, <2>2, <2>3, <2>4
<1>9. ASSUME NEW q \in Patches PROVE Carried(q)'
  <2> SUFFICES ASSUME stage'[q] \in {"checked", "written"} PROVE Carried(q)'
    BY DEF Carried
  <2>1. stage[q] \in {"checked", "written"} /\ target[q] \in Orders
    BY <1>2 DEF Inv, TypeOK
  <2>2. /\ change[q].to \in Transitions[change[q].from]
        /\ \E j \in 1 .. Len(audit[target[q]]) + 1 : History(target[q])[j] = change[q].from
    BY <2>1 DEF Inv, Carried
  <2>3. CASE target[q] = o
    <3>1. PICK j \in 1 .. n + 1 : History(o)[j] = change[q].from
      BY <2>2, <2>3
    <3>2. j \in 1 .. Len(audit'[o]) + 1 /\ History(o)'[j] = change[q].from
      BY <1>1, <1>3, <1>5, <3>1
    <3> QED
      BY <1>2, <2>2, <2>3, <3>2 DEF Carried
  <2>4. CASE target[q] # o
    BY <1>2, <1>4, <2>1, <2>2, <2>4 DEF Carried
  <2> QED
    BY <2>3, <2>4
<1> QED
  BY <1>7, <1>8, <1>9 DEF Inv

LEMMA InvStep == ASSUME Inv, TypeOK', [Next]_vars PROVE Inv'
<1>1. CASE UNCHANGED vars
  <2>1. UNCHANGED <<status, audit, stage, target, change>>
    BY <1>1 DEF vars
  <2>2. \A o \in Orders : History(o)' = History(o)
    BY <2>1, SameHistory
  <2>3. \A p \in Patches : target[p] \in Orders
    BY DEF Inv, TypeOK
  <2>4. LogTellsTheStatus' /\ LoggedChangesWereLegal'
    BY <2>1, <2>2 DEF Inv, LogTellsTheStatus, LoggedChangesWereLegal
  <2>5. \A p \in Patches : Carried(p)'
    BY <2>1, <2>2, <2>3 DEF Inv, Carried
  <2> QED
    BY <2>4, <2>5 DEF Inv
<1> QED
  BY <1>1, ReadAndCheckInv, QuietInv, CommitInv DEF Next, Handle

\* The invariant of concurrent PATCHes.
THEOREM InvHolds == Spec => []Inv
BY InvStep, InitInv, TypeCorrect, PTL DEF Spec

\* The audit log of an order always tells its status: updateStatus writes both
\* in one transaction, and lost updates are logged as what they did.
THEOREM LogAgrees == Spec => []LogTellsTheStatus
BY InvHolds, PTL DEF Inv

\* Every change in the log is a transition of order-status.ts out of a status
\* the order has had: assertValidTransition ran before every write.
THEOREM LogIsLegal == Spec => []LoggedChangesWereLegal
BY InvHolds, PTL DEF Inv

-----------------------------------------------------------------------------
\* The screens add nothing to what PATCHes do: a step of theirs is a step of
\* updateStatus, or none.
LEMMA ViewsStep ==
    ASSUME ViewsTypeOK, [ViewsNext]_allVars
    PROVE  [Next]_vars
<1>1. ASSUME NEW p \in PanelPatches, HandleAdvance(p) \/ AdvanceAnswered(p) PROVE UNCHANGED vars
  BY <1>1 DEF HandleAdvance, AdvanceAnswered
<1>2. ASSUME NEW p \in PanelPatches, PanelPatch(p) PROVE Next
  <2>1. p \in Patches /\ asked[p] \in OrderStatuses
    BY <1>2, ScreensAssumption DEF PanelPatch, ViewsTypeOK
  <2> QED
    BY <1>2, <2>1 DEF PanelPatch, Next
<1>3. ASSUME NEW p \in Patches, OtherPatch(p) \/ Server(p) PROVE Next
  BY <1>3 DEF OtherPatch, Server, Next
<1>4. ASSUME NEW i \in Polls,
             \/ PanelPollRead(i) \/ PanelPollArrives(i) \/ PanelPollFails(i)
             \/ TrackPollRead(i) \/ TrackPollArrives(i) \/ TrackPollFails(i)
      PROVE  UNCHANGED vars
  BY <1>4 DEF PanelPollRead, PanelPollArrives, PanelPollFails,
              TrackPollRead, TrackPollArrives, TrackPollFails
<1>5. CASE UNCHANGED allVars
  BY <1>5 DEF allVars
<1> QED
  BY <1>1, <1>2, <1>3, <1>4, <1>5 DEF ViewsNext

\* The types of the two screens are kept by every click and every answer.
LEMMA ViewsTypeStep == ViewsTypeOK /\ [ViewsNext]_allVars => ViewsTypeOK'
<1> SUFFICES ASSUME ViewsTypeOK, [ViewsNext]_allVars PROVE ViewsTypeOK'
  OBVIOUS
<1>0. TypeOK'
  BY ViewsStep, TypeStep DEF ViewsTypeOK
<1> USE <1>0
<1>1. ASSUME NEW p \in PanelPatches, HandleAdvance(p) PROVE ViewsTypeOK'
  <2>1. target[p] \in Orders /\ panel[target[p]] \in OrderStatuses
    BY ScreensAssumption DEF ViewsTypeOK, TypeOK
  <2>2. NextOf(panel[target[p]]) \in OrderStatuses
    BY <1>1, <2>1 DEF HandleAdvance, NextOf, OrderStatuses
  <2> QED
    BY <1>1, <2>1, <2>2 DEF HandleAdvance, ViewsTypeOK, trackVars
<1>2. ASSUME NEW p \in PanelPatches, PanelPatch(p) PROVE ViewsTypeOK'
  BY <1>2 DEF PanelPatch, ViewsTypeOK, panelVars, trackVars
<1>3. ASSUME NEW p \in PanelPatches, AdvanceAnswered(p) PROVE ViewsTypeOK'
  <2>1. target[p] \in Orders /\ change[p].to \in OrderStatuses
    BY ScreensAssumption DEF ViewsTypeOK, TypeOK, Changes
  <2> QED
    BY <1>3, <2>1 DEF AdvanceAnswered, ViewsTypeOK, trackVars
<1>4. ASSUME NEW p \in Patches, OtherPatch(p) \/ Server(p) PROVE ViewsTypeOK'
  BY <1>4 DEF OtherPatch, Server, ViewsTypeOK, panelVars, trackVars
<1>5. ASSUME NEW i \in Polls, PanelPollRead(i) \/ PanelPollArrives(i) \/ PanelPollFails(i)
      PROVE  ViewsTypeOK'
  <2>1. status \in [Orders -> OrderStatuses] /\ panelPoll[i] \in [Orders -> OrderStatuses] \cup {None}
    BY DEF ViewsTypeOK, TypeOK
  <2> QED
    BY <1>5, <2>1 DEF PanelPollRead, PanelPollArrives, PanelPollFails, ViewsTypeOK, trackVars
<1>6. ASSUME NEW i \in Polls, TrackPollRead(i) \/ TrackPollArrives(i) \/ TrackPollFails(i)
      PROVE  ViewsTypeOK'
  <2>1. status[Tracked] \in OrderStatuses /\ trackPoll[i] \in OrderStatuses \cup {None}
    BY ScreensAssumption DEF ViewsTypeOK, TypeOK
  <2> QED
    BY <1>6, <2>1 DEF TrackPollRead, TrackPollArrives, TrackPollFails, ViewsTypeOK, panelVars
<1>7. CASE UNCHANGED allVars
  BY <1>7 DEF allVars, ViewsTypeOK, panelVars, trackVars
<1> QED
  BY <1>1, <1>2, <1>3, <1>4, <1>5, <1>6, <1>7 DEF ViewsNext

\* What a panel poll or a tracking poll brings, and what a PATCH that was
\* committed answers, are statuses the order has had.
AnswersHappened ==
    /\ \A i \in Polls : panelPoll[i] # None => \A o \in Orders : Had(o, panelPoll[i][o])
    /\ \A i \in Polls : trackPoll[i] # None => Had(Tracked, trackPoll[i])
    /\ \A p \in Patches : stage[p] = "done" => Had(target[p], change[p].to)

ViewsInv == ViewsTypeOK /\ Inv /\ ScreensShowWhatHappened /\ AnswersHappened

\* The status of an order is one it has had.
LEMMA StatusHappened == ASSUME Inv, NEW o \in Orders PROVE Had(o, status[o])
<1>1. Len(audit[o]) \in Nat
  BY DEF Inv, TypeOK
<1> QED
  BY <1>1 DEF Inv, LogTellsTheStatus, Had

\* What an order has had it has had ever since: no step takes from its history.
LEMMA HadStays ==
    ASSUME Inv, [Next]_vars, NEW o \in Orders, NEW s, Had(o, s)
    PROVE  Had(o, s)'
<1>1. PICK j \in 1 .. Len(audit[o]) + 1 : History(o)[j] = s
  BY DEF Had
<1>2. CASE UNCHANGED audit
  BY <1>1, <1>2, SameHistory DEF Had
<1>3. ASSUME NEW p \in Patches, Commit(p) PROVE Had(o, s)'
  <2>1. CASE o = target[p]
    <3>1. /\ Len(audit'[o]) = Len(audit[o]) + 1
          /\ History(o)'[j] = s
      BY <1>1, <1>3, <2>1, CommitHistory DEF Inv
    <3>2. Len(audit[o]) \in Nat
      BY DEF Inv, TypeOK
    <3>3. j \in 1 .. Len(audit'[o]) + 1
      BY <1>1, <3>1, <3>2
    <3> QED
      BY <3>1, <3>3 DEF Had
  <2>2. CASE o # target[p]
    <3>1. audit'[o] = audit[o] /\ History(o)' = History(o)
      BY <1>3, <2>2, CommitHistory DEF Inv
    <3> QED
      BY <1>1, <3>1 DEF Had
  <2> QED
    BY <2>1, <2>2
<1> QED
  BY <1>2, <1>3 DEF Next, Handle, ReadAndCheck, Write, Rollback, vars

\* A commit answers with the status it has just written.
LEMMA DoneHappened ==
    ASSUME Inv, Inv', [Next]_vars, NEW q \in Patches, stage'[q] = "done",
           stage[q] = "done" => Had(target[q], change[q].to)
    PROVE  Had(target[q], change[q].to)'
<1>0. target[q] \in Orders /\ target' = target
  BY DEF Inv, TypeOK, Next, Handle, ReadAndCheck, Write, Commit, Rollback, vars
<1>1. CASE stage[q] = "done"
  <2>1. change'[q] = change[q]
    BY <1>1 DEF Inv, TypeOK, Next, Handle, ReadAndCheck, Write, Commit, Rollback, vars
  <2> DEFINE o == target[q]
  <2>2. PICK x, s : x = target[q] /\ s = change[q].to
    OBVIOUS
  <2>3. Had(x, s)'
    BY <1>0, <1>1, <2>2, HadStays
  <2> QED
    BY <1>0, <2>1, <2>2, <2>3 DEF Had, History
<1>2. CASE stage[q] # "done"
  <2>1. Commit(q)
    BY <1>2 DEF Inv, TypeOK, Next, Handle, ReadAndCheck, Write, Commit, Rollback, vars, Goto
  <2>2. change' = change /\ status'[target[q]] = change[q].to
    BY <1>0, <2>1 DEF Commit, Inv, TypeOK
  <2>3. PICK x : x = target[q]
    OBVIOUS
  <2>4. Len(audit'[x]) \in Nat /\ status'[x] = History(x)'[Len(audit'[x]) + 1]
    BY <1>0, <2>3 DEF Inv, TypeOK, LogTellsTheStatus
  <2> QED
    BY <1>0, <2>2, <2>3, <2>4 DEF Had, History
<1> QED
  BY <1>1, <1>2

LEMMA ViewsInitInv == ViewsInit => ViewsInv
<1> SUFFICES ASSUME ViewsInit PROVE ViewsInv
  OBVIOUS
<1>1. Inv
  BY InitInv DEF ViewsInit
<1>2. ViewsTypeOK
  BY <1>1, ScreensAssumption DEF ViewsInit, ViewsTypeOK, Inv, OrderStatuses
<1>3. ASSUME NEW o \in Orders PROVE Had(o, "pending")
  BY <1>1, StatusHappened DEF ViewsInit, Init
<1>4. ScreensShowWhatHappened
  BY <1>3, ScreensAssumption DEF ViewsInit, ScreensShowWhatHappened
<1>5. AnswersHappened
  BY DEF ViewsInit, Init, AnswersHappened
<1> QED
  BY <1>1, <1>2, <1>4, <1>5 DEF ViewsInv

\* Nothing is on its way, and so nothing ever shown, that an order has not had.
LEMMA ViewsInvStep ==
    ASSUME ViewsInv, Inv', ViewsTypeOK', [Next]_vars, [ViewsNext]_allVars
    PROVE  ViewsInv'
<1>1. ASSUME NEW o \in Orders, NEW s, Had(o, s) PROVE Had(o, s)'
  BY <1>1, HadStays DEF ViewsInv
<1>2. \A o \in Orders : Had(o, status[o])
  BY StatusHappened DEF ViewsInv
<1>3. \A p \in Patches : stage'[p] = "done" => Had(target[p], change[p].to)'
  BY DoneHappened DEF ViewsInv, AnswersHappened
<1>4. ASSUME NEW o \in Orders PROVE Had(o, panel[o])'
  <2>1. PICK s : s = panel'[o]
    OBVIOUS
  <2>2. \/ s = panel[o]
        \/ \E p \in Patches : stage[p] = "done" /\ target[p] = o /\ s = change[p].to
        \/ \E i \in Polls : panelPoll[i] # None /\ s = panelPoll[i][o]
    BY <2>1, ScreensAssumption
       DEF ViewsInv, ViewsTypeOK, ViewsNext, HandleAdvance, PanelPatch, AdvanceAnswered, OtherPatch,
           Server, PanelPollRead, PanelPollArrives, PanelPollFails, TrackPollRead,
           TrackPollArrives, TrackPollFails, panelVars, allVars
  <2>3. Had(o, s)
    BY <2>2 DEF ViewsInv, ScreensShowWhatHappened, AnswersHappened
  <2> QED
    BY <1>1, <2>1, <2>3 DEF Had
<1>5. Had(Tracked, shown)'
  <2>1. PICK s : s = shown'
    OBVIOUS
  <2>2. s = shown \/ \E i \in Polls : trackPoll[i] # None /\ s = trackPoll[i]
    BY <2>1 DEF ViewsNext, HandleAdvance, PanelPatch, AdvanceAnswered, OtherPatch,
                Server, PanelPollRead, PanelPollArrives, PanelPollFails, TrackPollRead,
                TrackPollArrives, TrackPollFails, trackVars, allVars
  <2>3. Had(Tracked, s)
    BY <2>2 DEF ViewsInv, ScreensShowWhatHappened, AnswersHappened
  <2> QED
    BY <1>1, <2>1, <2>3, ScreensAssumption DEF Had
<1>6. ASSUME NEW i \in Polls, panelPoll'[i] # None, NEW o \in Orders
      PROVE  Had(o, panelPoll[i][o])'
  <2>1. PICK s : s = panelPoll'[i][o]
    OBVIOUS
  <2>2. s = status[o] \/ (panelPoll[i] # None /\ s = panelPoll[i][o])
    BY <1>6, <2>1
       DEF ViewsInv, ViewsTypeOK, ViewsNext, HandleAdvance, PanelPatch, AdvanceAnswered, OtherPatch,
           Server, PanelPollRead, PanelPollArrives, PanelPollFails, TrackPollRead,
           TrackPollArrives, TrackPollFails, panelVars, allVars
  <2>3. Had(o, s)
    BY <1>2, <2>2 DEF ViewsInv, AnswersHappened
  <2> QED
    BY <1>1, <2>1, <2>3 DEF Had
<1>7. ASSUME NEW i \in Polls, trackPoll'[i] # None PROVE Had(Tracked, trackPoll[i])'
  <2>1. PICK s : s = trackPoll'[i]
    OBVIOUS
  <2>2. s = status[Tracked] \/ (trackPoll[i] # None /\ s = trackPoll[i])
    BY <1>7, <2>1
       DEF ViewsInv, ViewsTypeOK, ViewsNext, HandleAdvance, PanelPatch, AdvanceAnswered, OtherPatch,
           Server, PanelPollRead, PanelPollArrives, PanelPollFails, TrackPollRead,
           TrackPollArrives, TrackPollFails, trackVars, allVars
  <2>3. Had(Tracked, s)
    BY <1>2, <2>2, ScreensAssumption DEF ViewsInv, AnswersHappened
  <2> QED
    BY <1>1, <2>1, <2>3, ScreensAssumption DEF Had
<1>8. ScreensShowWhatHappened'
  BY <1>4, <1>5 DEF ScreensShowWhatHappened
<1>9. AnswersHappened'
  BY <1>3, <1>6, <1>7 DEF AnswersHappened
<1> QED
  BY <1>8, <1>9 DEF ViewsInv

LEMMA ViewsAlways == ViewsSpec => []ViewsInv
<1>1. ViewsInv /\ [ViewsNext]_allVars => ViewsInv'
  <2> SUFFICES ASSUME ViewsInv, [ViewsNext]_allVars PROVE ViewsInv'
    OBVIOUS
  <2>1. [Next]_vars
    BY ViewsStep DEF ViewsInv
  <2>2. TypeOK'
    BY <2>1, TypeStep DEF ViewsInv, Inv
  <2>3. Inv'
    BY <2>1, <2>2, InvStep DEF ViewsInv
  <2>4. ViewsTypeOK'
    BY ViewsTypeStep DEF ViewsInv
  <2> QED
    BY <2>1, <2>3, <2>4, ViewsInvStep
<1> QED
  BY <1>1, ViewsInitInv, PTL DEF ViewsSpec

\* The types of the panel and of the tracking screen.
THEOREM ViewsTypes == ViewsSpec => []ViewsTypeOK
BY ViewsAlways, PTL DEF ViewsInv

\* OrdersPanel and OrderConfirmation show no status their order never had, in whatever
\* order their polls and the answers of their PATCHes arrive.
THEOREM ScreensAreTrue == ViewsSpec => []ScreensShowWhatHappened
BY ViewsAlways, PTL DEF ViewsInv

\* What is proved of updateStatus alone holds under the screens that call it: what they do
\* to it are steps of its own.
THEOREM ScreensOnlyPatch == ViewsSpec => Init /\ [][Next]_vars
<1>1. ViewsTypeOK /\ [ViewsNext]_allVars => [Next]_vars
  BY ViewsStep
<1>2. ViewsInit => Init
  BY DEF ViewsInit
<1> QED
  BY <1>1, <1>2, ViewsTypes, PTL DEF ViewsSpec

\* The log agrees with the orders the panel and the customer look at.
THEOREM ViewsLogAgrees == ViewsSpec => []LogTellsTheStatus /\ []LoggedChangesWereLegal
BY ViewsAlways, PTL DEF ViewsInv, Inv

=============================================================================
