---------------------------- MODULE SessionsProofs ----------------------------
(***************************************************************************)
(* Proofs about Sessions, for any number of accounts, requests and updates.*)
(***************************************************************************)
EXTENDS Sessions, TLAPS

\* A step of refresh, login or logout preserves the types.
LEMMA RequestType ==
    ASSUME TypeOK, NEW r \in Requests,
           \/ \E a \in Accounts : Login(r, a)
           \/ \E t \in rows : ReadToken(r, t) \/ Logout(r, t)
           \/ RevokeFamily(r) \/ RevokeOne(r) \/ CheckActive(r) \/ Issue(r) \/ Fail(r)
    PROVE  TypeOK'
<1> USE StaffAssumption, NoneAssumption DEF TypeOK, sessions, requests, updates, history,
        Stages, Ended, Goto
<1>1. ASSUME NEW a \in Accounts, Login(r, a) PROVE TypeOK'
  <2>1. overlaps' \subseteq Requests \X Updates
    BY <1>1 DEF Login, RunningOn
  <2> QED
    BY <1>1, <2>1 DEF Login
<1>2. ASSUME NEW t \in rows, ReadToken(r, t) PROVE TypeOK'
  <2>1. r # t /\ r \notin rows
    BY <1>2 DEF ReadToken
  <2>2. doubled' \subseteq Requests
    BY <1>2 DEF ReadToken
  <2>3. /\ pc' \in [Requests -> Stages]
        /\ owner' = [owner EXCEPT ![r] = owner[t]]
        /\ family' = [family EXCEPT ![r] = family[t]]
        /\ presented' = [presented EXCEPT ![r] = t]
        /\ \A q \in Requests : q # r => pc'[q] = pc[q]
        /\ pc[r] = "idle" /\ pc'[r] \in {"reused", "refused", "valid"}
        /\ UNCHANGED <<active, rows, revoked, updates, overlaps>>
    BY <1>2 DEF ReadToken
  <2>4. t \in Requests /\ owner[t] \in Accounts /\ family[t] \in Requests
    OBVIOUS
  <2>5. rows' \subseteq {q \in Requests : pc'[q] = "done"}
    BY <2>1, <2>3
  <2>6. \A q \in Requests :
            /\ pc'[q] = "ready" \/ q \in rows' => owner'[q] # None /\ family'[q] # None
            /\ pc'[q] \in {"reused", "valid", "rotating"} =>
                /\ presented'[q] # None
                /\ owner'[q] = owner'[presented'[q]] /\ family'[q] = family'[presented'[q]]
    <3> TAKE q \in Requests
    <3>1. CASE q = r
      BY <2>1, <2>3, <2>4, <3>1
    <3>2. CASE q # r
      <4>1. /\ pc'[q] = pc[q] /\ owner'[q] = owner[q] /\ family'[q] = family[q]
            /\ presented'[q] = presented[q] /\ rows' = rows
        BY <2>3, <3>2
      <4>2. presented[q] # None => presented[q] \in rows /\ presented[q] # r
        BY <2>1
      <4>3. presented[q] # None =>
                owner'[presented[q]] = owner[presented[q]] /\ family'[presented[q]] = family[presented[q]]
        BY <2>3, <4>2
      <4> QED
        BY <4>1, <4>2, <4>3
    <3> QED
      BY <3>1, <3>2
  <2> QED
    BY <2>2, <2>3, <2>4, <2>5, <2>6
<1>3. ASSUME NEW t \in rows, Logout(r, t) PROVE TypeOK'
  <2>1. FamilyOf(t) \subseteq rows
    BY DEF FamilyOf
  <2> QED
    BY <1>3, <2>1 DEF Logout
<1>4. ASSUME RevokeFamily(r) PROVE TypeOK'
  <2>1. FamilyOf(presented[r]) \subseteq rows
    BY DEF FamilyOf
  <2> QED
    BY <1>4, <2>1 DEF RevokeFamily
<1>5. ASSUME RevokeOne(r) PROVE TypeOK'
  <2>1. presented[r] \in rows
    BY <1>5 DEF RevokeOne
  <2> QED
    BY <1>5, <2>1 DEF RevokeOne
<1>6. ASSUME CheckActive(r) PROVE TypeOK'
  <2>1. owner[r] # None /\ family[r] # None
    BY <1>6 DEF CheckActive
  <2>2. overlaps' \subseteq Requests \X Updates
    BY <1>6 DEF CheckActive, RunningOn
  <2>3. pc' \in [Requests -> Stages] /\ pc'[r] \in {"ready", "refused"}
    BY <1>6 DEF CheckActive
  <2>4. \A q \in Requests : q # r => pc'[q] = pc[q]
    BY <1>6 DEF CheckActive
  <2> QED
    BY <1>6, <2>1, <2>2, <2>3, <2>4 DEF CheckActive
<1>7. ASSUME Issue(r) PROVE TypeOK'
  BY <1>7 DEF Issue
<1>8. ASSUME Fail(r) PROVE TypeOK'
  BY <1>8 DEF Fail
<1> QED
  BY <1>1, <1>2, <1>3, <1>4, <1>5, <1>6, <1>7, <1>8

\* A step of a staff update preserves the types.
LEMMA UpdateType ==
    ASSUME TypeOK, NEW u \in Updates,
           \/ \E on \in BOOLEAN : ReadStaff(u, on)
           \/ WriteStaff(u) \/ RevokeAll(u) \/ CommitStaff(u) \/ RollbackStaff(u)
    PROVE  TypeOK'
<1> USE StaffAssumption DEF TypeOK, sessions, requests, updates, history,
        UpdateStages, Running, UpdateTo
<1>1. ASSUME NEW on \in BOOLEAN, ReadStaff(u, on) PROVE TypeOK'
  <2>1. active[target[u]] \in BOOLEAN
    OBVIOUS
  <2>2. overlaps' \subseteq Requests \X Updates
    BY <1>1 DEF ReadStaff
  <2> QED
    BY <1>1, <2>1, <2>2 DEF ReadStaff
<1>2. ASSUME WriteStaff(u) PROVE TypeOK'
  BY <1>2 DEF WriteStaff
<1>3. ASSUME RevokeAll(u) PROVE TypeOK'
  BY <1>3 DEF RevokeAll, Live
<1>4. ASSUME CommitStaff(u) PROVE TypeOK'
  BY <1>4 DEF CommitStaff
<1>5. ASSUME RollbackStaff(u) PROVE TypeOK'
  BY <1>5 DEF RollbackStaff
<1> QED
  BY <1>1, <1>2, <1>3, <1>4, <1>5

LEMMA InitType == Init => TypeOK
BY StaffAssumption DEF Init, TypeOK, Stages, UpdateStages

LEMMA NextType == TypeOK /\ [Next]_vars => TypeOK'
<1> SUFFICES ASSUME TypeOK, [Next]_vars PROVE TypeOK'
  OBVIOUS
<1>1. CASE Next
  BY <1>1, RequestType, UpdateType DEF Next
<1>2. CASE UNCHANGED vars
  BY <1>2 DEF TypeOK, vars, sessions, requests, updates, history
<1> QED
  BY <1>1, <1>2

\* Every variable of the session protocol keeps its type: what a request has
\* presented, whose it is and what it has issued agree with the table.
THEOREM TypeCorrect == Spec => []TypeOK
BY InitType, NextType, PTL DEF Spec

-----------------------------------------------------------------------------
\* One of the family's places: a token that works, or a request that will
\* insert one because it has already revoked, or never needed, another.
Holds(r) == r \in Live \/ pc[r] \in {"rotating", "ready"}

HoldersUnique ==
    \A s, t \in Requests :
        Holds(s) /\ Holds(t) /\ family[s] = family[t] => s = t \/ family[s] \in doubled

\* Whoever is about to revoke a token is alone with it.
ValidAlone ==
    \A r, s \in Requests :
        pc[r] = "valid" /\ family[r] \notin doubled /\ family[s] = family[r] =>
            /\ Holds(s) => s = presented[r]
            /\ pc[s] = "valid" => s = r

\* A family begins with a login that has been received.
FamilyBegan == \A s \in Requests : family[s] # None => pc[family[s]] # "idle"

RotationInv == TypeOK /\ HoldersUnique /\ ValidAlone /\ FamilyBegan

-----------------------------------------------------------------------------
\* Being issued while a PATCH that turned the account off was running.
Excused(t) ==
    \E u \in Updates : stage[u] = "committed" /\ ~want[u] /\ <<t, u>> \in overlaps

\* A token that works, or is about to be inserted.
Coming(t) == t \in Live \/ pc[t] = "ready"

SurvivorsExcused == \A t \in Requests : Coming(t) /\ ~active[owner[t]] => Excused(t)

IssuersOverlap ==
    \A r \in Requests, u \in Updates :
        pc[r] = "ready" /\ stage[u] \in Running /\ target[u] = owner[r] => <<r, u>> \in overlaps

RevokedAllItSaw ==
    \A t \in Live, u \in Updates :
        stage[u] = "revoked" /\ owner[t] = target[u] => t \in held[u] \/ <<t, u>> \in overlaps

\* A PATCH that read the account as already off revokes nothing: what it finds
\* has its excuse from the PATCH before it.
OffBefore ==
    \A t \in Live, u \in Updates :
        stage[u] \in Running /\ ~was[u] /\ owner[t] = target[u] =>
            <<t, u>> \in overlaps \/ Excused(t)

OthersStayOn == \A a \in Accounts \ Staff : active[a]

SurvivalInv ==
    /\ TypeOK /\ SurvivorsExcused /\ IssuersOverlap
    /\ RevokedAllItSaw /\ OffBefore /\ OthersStayOn

-----------------------------------------------------------------------------
\* A step of r that begins no refresh and adds no holder keeps the rotation.
LEMMA RotationKept ==
    ASSUME RotationInv, TypeOK', NEW r \in Requests,
           pc'[r] \notin {"valid", "idle"},
           \A s \in Requests : s # r => pc'[s] = pc[s],
           revoked \subseteq revoked', rows' \subseteq rows \cup {r},
           UNCHANGED <<family, presented, doubled>>,
           Holds(r)' => Holds(r)
    PROVE  RotationInv'
<1>1. \A s \in Requests : Holds(s)' => Holds(s)
  BY DEF Holds, Live
<1>2. HoldersUnique'
  BY <1>1 DEF RotationInv, HoldersUnique
<1>3. ValidAlone'
  BY <1>1 DEF RotationInv, ValidAlone
<1>4. FamilyBegan'
  BY NoneAssumption DEF RotationInv, FamilyBegan, TypeOK
<1> QED
  BY <1>2, <1>3, <1>4 DEF RotationInv

-----------------------------------------------------------------------------
\* A step of refresh, login or logout keeps the family's place to one holder.
LEMMA RequestRotation ==
    ASSUME RotationInv, TypeOK', NEW r \in Requests,
           \/ \E a \in Accounts : Login(r, a)
           \/ \E t \in rows : ReadToken(r, t) \/ Logout(r, t)
           \/ RevokeFamily(r) \/ RevokeOne(r) \/ CheckActive(r) \/ Issue(r) \/ Fail(r)
    PROVE  RotationInv'
<1> USE NoneAssumption DEF RotationInv
<1>1. ASSUME NEW a \in Accounts, Login(r, a) PROVE RotationInv'
  <2> USE DEF Login, sessions, requests, updates, history, Goto
  <2>1. CASE pc'[r] = "refused"
    <3>1. /\ \A s \in Requests : family'[s] = family[s]
          /\ \A s \in Requests : s # r => pc'[s] = pc[s]
          /\ UNCHANGED <<family, presented, rows, revoked, doubled>>
      BY <1>1, <2>1 DEF TypeOK
    <3>2. \A s \in Requests : Holds(s)' => Holds(s)
      BY <1>1, <2>1, <3>1 DEF Holds, Live
    <3>3. HoldersUnique'
      BY <3>1, <3>2 DEF HoldersUnique
    <3>4. ValidAlone'
      BY <1>1, <2>1, <3>1, <3>2 DEF ValidAlone
    <3>5. FamilyBegan'
      BY <1>1, <2>1, <3>1 DEF FamilyBegan, TypeOK
    <3> QED
      BY <3>3, <3>4, <3>5
  <2>2. CASE pc'[r] # "refused"
    <3>1. /\ pc[r] = "idle" /\ pc'[r] = "ready" /\ family'[r] = r
          /\ \A s \in Requests : s # r => pc'[s] = pc[s] /\ family'[s] = family[s]
          /\ UNCHANGED <<presented, rows, revoked, doubled>>
      BY <1>1, <2>2 DEF TypeOK
    <3>2. \A s \in Requests : s # r => (Holds(s)' => Holds(s)) /\ family'[s] # r
      BY <3>1 DEF Holds, Live, FamilyBegan, TypeOK
    <3>3. HoldersUnique'
      BY <3>1, <3>2 DEF HoldersUnique
    <3>4. ValidAlone'
      BY <3>1, <3>2 DEF ValidAlone
    <3>5. FamilyBegan'
      BY <3>1 DEF FamilyBegan, TypeOK
    <3> QED
      BY <3>3, <3>4, <3>5
  <2> QED
    BY <2>1, <2>2
<1>2. ASSUME NEW t \in rows, ReadToken(r, t) PROVE RotationInv'
  <2>1. /\ pc[r] = "idle" /\ pc'[r] \in {"reused", "refused", "valid"}
        /\ family'[r] = family[t] /\ presented'[r] = t
        /\ \A s \in Requests : s # r =>
              pc'[s] = pc[s] /\ family'[s] = family[s] /\ presented'[s] = presented[s]
        /\ UNCHANGED <<rows, revoked>>
        /\ doubled \subseteq doubled'
    BY <1>2 DEF ReadToken, sessions, Goto, TypeOK
  <2>2. /\ t \in Requests /\ family[t] \in Requests /\ family[t] # None /\ r \notin rows /\ r # t
    BY <2>1, NoneAssumption DEF TypeOK
  <2>3. ~Holds(r)' /\ \A s \in Requests : s # r => (Holds(s)' <=> Holds(s))
    BY <2>1, <2>2 DEF Holds, Live
  <2>4. HoldersUnique'
    BY <2>1, <2>3 DEF HoldersUnique
  <2>5. FamilyBegan'
    BY <2>1, <2>2 DEF FamilyBegan, TypeOK
  <2>6. CASE pc'[r] = "valid"
    <3>1. /\ t \in Live
          /\ doubled' = doubled \cup
                {family[t] : q \in {p \in Requests : pc[p] = "valid" /\ presented[p] = t}}
      BY <1>2, <2>1, <2>6 DEF ReadToken, Goto, Live, TypeOK
    <3>2. Holds(t)
      BY <3>1 DEF Holds
    <3>3. ASSUME family[t] \notin doubled'
          PROVE  \A s \in Requests : family[s] = family[t] =>
                    (Holds(s) => s = t) /\ pc[s] # "valid"
      <4>1. family[t] \notin doubled
        BY <2>1, <3>3
      <4>2. \A q \in Requests : ~(pc[q] = "valid" /\ presented[q] = t)
        BY <3>1, <3>3
      <4> QED
        BY <2>2, <3>2, <4>1, <4>2 DEF HoldersUnique, ValidAlone
    <3>4. ValidAlone'
      <4> SUFFICES ASSUME NEW p \in Requests, NEW s \in Requests, pc'[p] = "valid",
                          family'[p] \notin doubled', family'[s] = family'[p]
                   PROVE  (Holds(s)' => s = presented'[p]) /\ (pc'[s] = "valid" => s = p)
        BY DEF ValidAlone
      <4>1. CASE p = r
        BY <2>1, <2>2, <2>3, <3>3, <4>1
      <4>2. CASE p # r /\ s = r
        BY <2>1, <2>3, <3>3, <4>2
      <4>3. CASE p # r /\ s # r
        BY <2>1, <2>3, <4>3 DEF ValidAlone
      <4> QED
        BY <4>1, <4>2, <4>3
    <3> QED
      BY <2>4, <2>5, <3>4
  <2>7. CASE pc'[r] # "valid"
    <3>1. ValidAlone'
      BY <2>1, <2>3, <2>7 DEF ValidAlone
    <3> QED
      BY <2>4, <2>5, <3>1
  <2> QED
    BY <2>6, <2>7
<1>3. ASSUME RevokeOne(r) PROVE RotationInv'
  <2>1. /\ pc[r] = "valid" /\ pc'[r] = "rotating"
        /\ \A s \in Requests : s # r => pc'[s] = pc[s]
        /\ revoked' = revoked \cup {presented[r]}
        /\ UNCHANGED <<rows, family, presented, doubled>>
    BY <1>3 DEF RevokeOne, requests, updates, history, Goto, TypeOK
  <2>2. \A s \in Requests : s # r /\ Holds(s)' => Holds(s) /\ s # presented[r]
    BY <2>1 DEF Holds, Live, TypeOK
  <2>3. \A s \in Requests :
            s # r /\ family[s] = family[r] /\ family[r] \notin doubled =>
                ~Holds(s)' /\ pc[s] # "valid"
    BY <2>1, <2>2 DEF ValidAlone
  <2>4. HoldersUnique'
    BY <2>1, <2>2, <2>3 DEF HoldersUnique
  <2>5. ValidAlone'
    BY <2>1, <2>2, <2>3 DEF ValidAlone
  <2>6. FamilyBegan'
    BY <2>1 DEF FamilyBegan, TypeOK
  <2> QED
    BY <2>4, <2>5, <2>6
<1>4. ASSUME \/ \E t \in rows : Logout(r, t)
             \/ RevokeFamily(r) \/ CheckActive(r) \/ Issue(r) \/ Fail(r)
      PROVE  RotationInv'
  <2>1. /\ pc'[r] \notin {"valid", "idle"}
        /\ \A s \in Requests : s # r => pc'[s] = pc[s]
        /\ revoked \subseteq revoked'
        /\ UNCHANGED <<family, presented, doubled>>
        /\ Holds(r)' => Holds(r)
        /\ rows' \subseteq rows \cup {r}
    BY <1>4 DEF Logout, RevokeFamily, CheckActive, Issue, Fail, sessions, requests, updates,
                history, Goto, Holds, Live, TypeOK
  <2> QED
    BY <2>1, RotationKept
<1> QED
  BY <1>1, <1>2, <1>3, <1>4

\* A step of a staff update only revokes.
LEMMA UpdateRotation ==
    ASSUME RotationInv, TypeOK',
           UNCHANGED <<rows, pc, family, presented, doubled>>, revoked \subseteq revoked'
    PROVE  RotationInv'
<1>1. \A s \in Requests : Holds(s)' => Holds(s)
  BY DEF Holds, Live
<1> QED
  BY <1>1 DEF RotationInv, HoldersUnique, ValidAlone, FamilyBegan

LEMMA NextRotation == RotationInv /\ [Next]_vars => RotationInv'
<1> SUFFICES ASSUME RotationInv, [Next]_vars PROVE RotationInv'
  OBVIOUS
<1>1. TypeOK'
  BY NextType DEF RotationInv
<1>2. ASSUME NEW u \in Updates, NEW on \in BOOLEAN,
             ReadStaff(u, on) \/ WriteStaff(u) \/ RevokeAll(u) \/ CommitStaff(u) \/ RollbackStaff(u)
      PROVE  RotationInv'
  <2>1. UNCHANGED <<rows, pc, family, presented, doubled>> /\ revoked \subseteq revoked'
    BY <1>2 DEF ReadStaff, WriteStaff, RevokeAll, CommitStaff, RollbackStaff, sessions,
                requests, history
  <2> QED
    BY <1>1, <2>1, UpdateRotation
<1>3. CASE UNCHANGED vars
  <2>1. UNCHANGED <<rows, pc, family, presented, doubled>> /\ revoked \subseteq revoked'
    BY <1>3 DEF vars, sessions, requests, history
  <2> QED
    BY <1>1, <2>1, UpdateRotation
<1> QED
  BY <1>1, <1>2, <1>3, RequestRotation DEF Next

LEMMA InitRotation == Init => RotationInv
BY InitType DEF Init, RotationInv, HoldersUnique, ValidAlone, FamilyBegan, Holds, Live

\* Rotation leaves a family one token that works, whatever logouts, reuses,
\* deactivations and failures do in between: the exception is the race of two
\* refreshes that had both read it as valid.
THEOREM RotationIsExclusive == Spec => []OneLiveTokenPerFamily
<1>1. RotationInv => OneLiveTokenPerFamily
  BY DEF RotationInv, HoldersUnique, OneLiveTokenPerFamily, Holds, Live, TypeOK
<1> QED
  BY <1>1, InitRotation, NextRotation, PTL DEF Spec

-----------------------------------------------------------------------------
\* A step of r that inserts nothing new keeps the excuses, given the overlaps
\* of a request that gets ready.
LEMMA SurvivalKept ==
    ASSUME SurvivalInv, TypeOK', NEW r \in Requests, pc[r] # "done",
           \A s \in Requests : s # r =>
                pc'[s] = pc[s] /\ owner'[s] = owner[s] /\ (s \in Live' => s \in Live),
           pc'[r] = "ready" =>
                /\ active[owner'[r]]
                /\ \A u \in Updates : stage[u] \in Running /\ target[u] = owner'[r] =>
                        <<r, u>> \in overlaps',
           r \in Live' => pc[r] = "ready" /\ owner'[r] = owner[r],
           overlaps \subseteq overlaps',
           UNCHANGED <<active, updates>>
    PROVE  SurvivalInv'
<1> USE DEF SurvivalInv, updates
<1>1. \A t \in Requests : Excused(t) => Excused(t)'
  BY DEF Excused
<1>2. \A t \in Live' :
        /\ t \in Requests /\ owner'[t] = owner[t]
        /\ t \in Live \/ pc[t] = "ready"
  BY DEF TypeOK, Live
<1>3. SurvivorsExcused'
  BY <1>1 DEF SurvivorsExcused, Coming
<1>4. IssuersOverlap'
  BY DEF IssuersOverlap
<1>5. RevokedAllItSaw'
  <2> SUFFICES ASSUME NEW t \in Live', NEW u \in Updates, stage[u] = "revoked",
                      owner[t] = target[u]
               PROVE  t \in held[u] \/ <<t, u>> \in overlaps'
    BY <1>2 DEF RevokedAllItSaw
  <2> QED
    BY <1>2 DEF RevokedAllItSaw, IssuersOverlap, Running
<1>6. OffBefore'
  <2> SUFFICES ASSUME NEW t \in Live', NEW u \in Updates, stage[u] \in Running, ~was[u],
                      owner[t] = target[u]
               PROVE  <<t, u>> \in overlaps' \/ Excused(t)'
    BY <1>2 DEF OffBefore
  <2> QED
    BY <1>2, <1>1 DEF OffBefore, IssuersOverlap
<1>7. OthersStayOn'
  BY DEF OthersStayOn
<1> QED
  BY <1>3, <1>4, <1>5, <1>6, <1>7

\* A step of refresh, login or logout keeps the excuses.
LEMMA RequestSurvival ==
    ASSUME SurvivalInv, TypeOK', NEW r \in Requests,
           \/ \E a \in Accounts : Login(r, a)
           \/ \E t \in rows : ReadToken(r, t) \/ Logout(r, t)
           \/ RevokeFamily(r) \/ RevokeOne(r) \/ CheckActive(r) \/ Issue(r) \/ Fail(r)
    PROVE  SurvivalInv'
<1>1. CASE \E a \in Accounts : Login(r, a)
  <2>1. PICK a \in Accounts : Login(r, a)
    BY <1>1
  <2>2. /\ pc[r] = "idle"
        /\ \A s \in Requests : s # r => pc'[s] = pc[s] /\ owner'[s] = owner[s]
        /\ UNCHANGED <<active, rows, revoked, updates>>
        /\ overlaps \subseteq overlaps'
    BY <2>1 DEF Login, sessions, Goto, SurvivalInv, TypeOK
  <2>3. pc'[r] = "ready" =>
            active[a] /\ owner'[r] = a /\ overlaps' = overlaps \cup ({r} \X RunningOn(a))
    BY <2>1 DEF Login, Goto, SurvivalInv, TypeOK
  <2>4. r \notin Live' /\ \A s \in Requests : s \in Live' => s \in Live
    BY <2>2 DEF Live, SurvivalInv, TypeOK
  <2>5. pc'[r] = "ready" =>
            \A u \in Updates : stage[u] \in Running /\ target[u] = owner'[r] => <<r, u>> \in overlaps'
    BY <2>3 DEF RunningOn
  <2> QED
    BY <2>2, <2>3, <2>4, <2>5, SurvivalKept
<1>2. CASE \E t \in rows : ReadToken(r, t)
  <2>1. /\ pc[r] = "idle" /\ pc'[r] # "ready"
        /\ \A s \in Requests : s # r => pc'[s] = pc[s] /\ owner'[s] = owner[s]
        /\ UNCHANGED <<active, rows, revoked, updates, overlaps>>
    BY <1>2 DEF ReadToken, sessions, Goto, SurvivalInv, TypeOK
  <2>2. r \notin Live' /\ \A s \in Requests : s \in Live' => s \in Live
    BY <2>1 DEF Live, SurvivalInv, TypeOK
  <2> QED
    BY <2>1, <2>2, SurvivalKept
<1>3. CASE CheckActive(r)
  <2>1. /\ pc[r] = "rotating"
        /\ \A s \in Requests : s # r => pc'[s] = pc[s]
        /\ UNCHANGED <<active, rows, revoked, owner, updates>>
        /\ overlaps \subseteq overlaps'
    BY <1>3 DEF CheckActive, sessions, Goto, SurvivalInv, TypeOK
  <2>2. pc'[r] = "ready" =>
            /\ owner[r] \in Staff => active[owner[r]]
            /\ overlaps' = overlaps \cup ({r} \X RunningOn(owner[r]))
    BY <1>3 DEF CheckActive, Goto, SurvivalInv, TypeOK
  <2>3. owner[r] \in Accounts
    BY <2>1 DEF SurvivalInv, TypeOK
  <2>4. pc'[r] = "ready" => active[owner[r]]
    BY <2>2, <2>3 DEF SurvivalInv, OthersStayOn
  <2>5. r \notin Live' /\ \A s \in Requests : s \in Live' => s \in Live
    BY <2>1 DEF Live, SurvivalInv, TypeOK
  <2>6. pc'[r] = "ready" =>
            \A u \in Updates : stage[u] \in Running /\ target[u] = owner'[r] => <<r, u>> \in overlaps'
    BY <2>1, <2>2 DEF RunningOn
  <2> QED
    BY <2>1, <2>4, <2>5, <2>6, SurvivalKept
<1>4. CASE Issue(r)
  <2>1. /\ pc[r] = "ready" /\ pc'[r] = "done"
        /\ \A s \in Requests : s # r => pc'[s] = pc[s]
        /\ rows' = rows \cup {r}
        /\ UNCHANGED <<active, revoked, owner, updates, overlaps>>
    BY <1>4 DEF Issue, history, requests, Goto, SurvivalInv, TypeOK
  <2>2. \A s \in Requests : s # r /\ s \in Live' => s \in Live
    BY <2>1 DEF Live
  <2> QED
    BY <2>1, <2>2, SurvivalKept
<1>5. CASE (\E t \in rows : Logout(r, t)) \/ RevokeFamily(r) \/ RevokeOne(r) \/ Fail(r)
  <2>1. /\ pc[r] # "done" /\ pc'[r] # "ready"
        /\ \A s \in Requests : s # r => pc'[s] = pc[s]
        /\ revoked \subseteq revoked'
        /\ UNCHANGED <<active, rows, owner, updates, overlaps>>
    BY <1>5 DEF Logout, RevokeFamily, RevokeOne, Fail, sessions, history, Goto, SurvivalInv, TypeOK
  <2>2. r \notin Live' /\ \A s \in Requests : s \in Live' => s \in Live
    BY <2>1 DEF Live, SurvivalInv, TypeOK
  <2> QED
    BY <2>1, <2>2, SurvivalKept
<1> QED
  BY <1>1, <1>2, <1>3, <1>4, <1>5

\* A step of a staff update keeps the excuses, and gives one to whatever works
\* after it turned the account off.
LEMMA UpdateSurvival ==
    ASSUME SurvivalInv, TypeOK', NEW u \in Updates,
           \/ \E on \in BOOLEAN : ReadStaff(u, on)
           \/ WriteStaff(u) \/ RevokeAll(u) \/ CommitStaff(u) \/ RollbackStaff(u)
    PROVE  SurvivalInv'
<1> USE DEF SurvivalInv, Running, UpdateTo
<1>1. ASSUME NEW on \in BOOLEAN, ReadStaff(u, on) PROVE SurvivalInv'
  <2>1. /\ stage[u] = "idle" /\ stage'[u] = "read"
        /\ was'[u] = active[target[u]]
        /\ \A v \in Updates : v # u =>
              stage'[v] = stage[v] /\ want'[v] = want[v] /\ was'[v] = was[v]
        /\ overlaps' = overlaps \cup
              ({r \in Requests : pc[r] = "ready" /\ owner[r] = target[u]} \X {u})
        /\ UNCHANGED <<active, rows, revoked, pc, owner, target, held>>
    BY <1>1 DEF ReadStaff, sessions, requests, TypeOK
  <2>2. \A t \in Requests : Excused(t) => Excused(t)'
    BY <2>1 DEF Excused
  <2>3. Live' = Live
    BY <2>1 DEF Live
  <2>4. SurvivorsExcused'
    BY <2>1, <2>2, <2>3 DEF SurvivorsExcused, Coming
  <2>5. IssuersOverlap'
    <3> SUFFICES ASSUME NEW r \in Requests, NEW v \in Updates, pc[r] = "ready",
                        stage'[v] \in Running, target[v] = owner[r]
                 PROVE  <<r, v>> \in overlaps'
      BY <2>1 DEF IssuersOverlap
    <3>1. CASE v = u
      BY <2>1, <3>1
    <3>2. CASE v # u
      BY <2>1, <3>2 DEF IssuersOverlap
    <3> QED
      BY <3>1, <3>2
  <2>6. RevokedAllItSaw'
    BY <2>1, <2>3 DEF RevokedAllItSaw
  <2>7. OffBefore'
    BY <2>1, <2>2, <2>3 DEF OffBefore, SurvivorsExcused, Coming, Live, TypeOK
  <2>8. OthersStayOn'
    BY <2>1 DEF OthersStayOn
  <2> QED
    BY <2>4, <2>5, <2>6, <2>7, <2>8
<1>2. ASSUME WriteStaff(u) \/ RevokeAll(u) \/ RollbackStaff(u) PROVE SurvivalInv'
  <2>1. /\ stage[u] \in Running /\ stage'[u] \in Running \cup {"failed"}
        /\ stage'[u] = "revoked" => was[u] /\ held'[u] = {t \in Live : owner[t] = target[u]}
        /\ \A v \in Updates : v # u => stage'[v] = stage[v] /\ held'[v] = held[v]
        /\ UNCHANGED <<active, rows, revoked, pc, owner, target, want, was, overlaps>>
    BY <1>2 DEF WriteStaff, RevokeAll, RollbackStaff, Deactivates, sessions, requests, history,
                TypeOK
  <2>2. Live' = Live /\ \A t \in Requests : Excused(t) => Excused(t)'
    BY <2>1 DEF Excused, Live
  <2>3. SurvivorsExcused'
    BY <2>1, <2>2 DEF SurvivorsExcused, Coming
  <2>4. IssuersOverlap'
    BY <2>1 DEF IssuersOverlap
  <2>5. RevokedAllItSaw'
    BY <2>1, <2>2 DEF RevokedAllItSaw
  <2>6. OffBefore'
    BY <2>1, <2>2 DEF OffBefore, Live, TypeOK
  <2>7. OthersStayOn'
    BY <2>1 DEF OthersStayOn
  <2> QED
    BY <2>3, <2>4, <2>5, <2>6, <2>7
<1>3. ASSUME CommitStaff(u) PROVE SurvivalInv'
  <2>1. /\ stage[u] = (IF Deactivates(u) THEN "revoked" ELSE "written")
        /\ stage'[u] = "committed"
        /\ \A v \in Updates : v # u => stage'[v] = stage[v]
        /\ active' = [active EXCEPT ![target[u]] = want[u]]
        /\ revoked' = revoked \cup held[u]
        /\ UNCHANGED <<rows, pc, owner, target, want, was, held, overlaps>>
    BY <1>3 DEF CommitStaff, requests, history, TypeOK
  <2>2. /\ \A t \in Requests : Excused(t) => Excused(t)'
        /\ Live' \subseteq Live
        /\ \A t \in Live' : t \notin held[u]
    BY <2>1 DEF Excused, Live
  <2>3. SurvivorsExcused'
    <3> SUFFICES ASSUME NEW t \in Requests, Coming(t)', ~active'[owner'[t]] PROVE Excused(t)'
      BY DEF SurvivorsExcused
    <3>1. Coming(t) /\ owner'[t] = owner[t] /\ owner[t] \in Accounts
      BY <2>1, <2>2 DEF Coming, TypeOK, Live
    <3>2. CASE owner[t] # target[u]
      BY <2>1, <2>2, <3>1, <3>2 DEF SurvivorsExcused, TypeOK
    <3>3. CASE owner[t] = target[u]
      <4>1. ~want[u]
        BY <2>1, <3>1, <3>3 DEF TypeOK
      <4>2. CASE <<t, u>> \in overlaps
        BY <2>1, <4>1, <4>2 DEF Excused
      <4>3. CASE <<t, u>> \notin overlaps
        <5>1. t \in Live' /\ t \in Live
          BY <2>1, <2>2, <3>3, <4>3 DEF Coming, IssuersOverlap
        <5>2. ~was[u]
          BY <2>1, <2>2, <3>3, <4>1, <4>3, <5>1 DEF Deactivates, RevokedAllItSaw
        <5> QED
          BY <2>1, <2>2, <3>3, <4>3, <5>1, <5>2 DEF OffBefore, Deactivates
      <4> QED
        BY <4>2, <4>3
    <3> QED
      BY <3>2, <3>3
  <2>4. IssuersOverlap'
    BY <2>1 DEF IssuersOverlap
  <2>5. RevokedAllItSaw'
    BY <2>1, <2>2 DEF RevokedAllItSaw
  <2>6. OffBefore'
    BY <2>1, <2>2 DEF OffBefore, Live, TypeOK
  <2>7. OthersStayOn'
    BY <2>1, StaffAssumption DEF OthersStayOn, TypeOK
  <2> QED
    BY <2>3, <2>4, <2>5, <2>6, <2>7
<1> QED
  BY <1>1, <1>2, <1>3

LEMMA NextSurvival == SurvivalInv /\ [Next]_vars => SurvivalInv'
<1> SUFFICES ASSUME SurvivalInv, [Next]_vars PROVE SurvivalInv'
  OBVIOUS
<1>1. TypeOK'
  BY NextType DEF SurvivalInv
<1>2. CASE Next
  BY <1>1, <1>2, RequestSurvival, UpdateSurvival DEF Next
<1>3. CASE UNCHANGED vars
  BY <1>1, <1>3 DEF vars, sessions, requests, updates, history, SurvivalInv, SurvivorsExcused,
        Coming, Excused, IssuersOverlap, RevokedAllItSaw, OffBefore, OthersStayOn, Live
<1> QED
  BY <1>2, <1>3

LEMMA InitSurvival == Init => SurvivalInv
<1> SUFFICES ASSUME Init PROVE SurvivalInv
  OBVIOUS
<1>1. Live = {} /\ \A r \in Requests : pc[r] = "idle"
  BY DEF Init, Live
<1>2. \A u \in Updates : stage[u] = "idle"
  BY DEF Init
<1>3. OthersStayOn
  BY DEF Init, OthersStayOn
<1> QED
  BY <1>1, <1>2, <1>3, InitType DEF SurvivalInv, SurvivorsExcused, Coming, IssuersOverlap,
        RevokedAllItSaw, OffBefore, Running

\* "desativar revoga TODAS as sessoes": only a session that was being issued
\* while the deactivation was running outlives it, and its refreshes do not.
THEOREM DeactivationEndsSessions == Spec => []OnlyRacingSessionsSurvive
<1>1. SurvivalInv => OnlyRacingSessionsSurvive
  BY DEF SurvivalInv, SurvivorsExcused, Coming, Excused, OnlyRacingSessionsSurvive, Live, TypeOK
<1> QED
  BY <1>1, InitSurvival, NextSurvival, PTL DEF Spec

=============================================================================
