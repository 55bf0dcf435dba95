----------------------------- MODULE OrdersProofs -----------------------------
(***************************************************************************)
(* Theorems about Orders for every set of tenants, keys and requests and   *)
(* every number of days, checked by TLAPS.                                 *)
(***************************************************************************)
EXTENDS Orders, TLAPS

USE RequestsAssumption, MaxDayAssumption

\* The type invariant: every action of POST /orders, of the owner and of the
\* clock keeps every variable in its domain.
THEOREM TypeCorrect == Spec => []TypeOK
<1>1. Init => TypeOK
  BY DEF Init, TypeOK, Days, Stages
<1>2. TypeOK /\ [Next]_vars => TypeOK'
  <2> SUFFICES ASSUME TypeOK, [Next]_vars
               PROVE  TypeOK'
    OBVIOUS
  <2> USE DEF TypeOK, Goto, tables, locals, Stages, InTransaction, Answered
  <2>0. ASSUME NEW r \in Requests, Refuse(r)
        PROVE  TypeOK'
    BY <2>0 DEF Refuse
  <2>1. ASSUME NEW r \in Requests, ResolveCep(r)
        PROVE  TypeOK'
    <3>1. CASE Refuse(r)
      BY <3>1, <2>0
    <3>2. CASE Goto(r, "located") /\ UNCHANGED <<today, tables, locals, reply>>
      BY <3>2
    <3>3. QED
      BY <2>1, <3>1, <3>2 DEF ResolveCep
  <2>2. ASSUME NEW r \in Requests, ReadTenant(r)
        PROVE  TypeOK'
    <3>1. CASE Refuse(r)
      BY <3>1, <2>0
    <3>2. CASE /\ Goto(r, "pricing")
               /\ began' = [began EXCEPT ![r] = today]
               /\ UNCHANGED <<today, tables, dateKey, seq, created, reply>>
      BY <3>2
    <3>3. QED
      BY <2>2, <3>1, <3>2 DEF ReadTenant
  <2>3. ASSUME NEW r \in Requests, PriceItems(r)
        PROVE  TypeOK'
    <3>1. CASE Refuse(r)
      BY <3>1, <2>0
    <3>2. CASE /\ Goto(r, "coding")
               /\ dateKey' = [dateKey EXCEPT ![r] = today]
               /\ UNCHANGED <<today, tables, began, seq, created, reply>>
      BY <3>2
    <3>3. QED
      BY <2>3, <3>1, <3>2 DEF PriceItems
  <2>4. ASSUME NEW r \in Requests, TakeCode(r)
        PROVE  TypeOK'
    <3>1. lastSeq[r.tenant][dateKey[r]] + 1 \in Nat
      OBVIOUS
    <3>2. seq' \in [Requests -> Nat]
      BY <2>4, <3>1 DEF TakeCode
    <3>3. QED
      BY <2>4, <3>2 DEF TakeCode
  <2>5. ASSUME NEW r \in Requests, InsertOrder(r)
        PROVE  TypeOK'
    <3>1. began[r] \in Days /\ today \in Days
      OBVIOUS
    <3>2. created' \in [Requests -> Days]
      BY <2>5, <3>1 DEF InsertOrder
    <3>3. pc' \in [Requests -> Stages]
      BY <2>5 DEF InsertOrder
    <3>4. QED
      BY <2>5, <3>2, <3>3 DEF InsertOrder
  <2>6. ASSUME NEW r \in Requests, Commit(r)
        PROVE  TypeOK'
    <3>1. Row(r) \in OrderRows
      BY DEF Row, OrderRows
    <3>2. orders' \subseteq OrderRows
      BY <2>6, <3>1 DEF Commit
    <3>3. lastSeq' \in [Tenants -> [Days -> Nat]]
      BY <2>6 DEF Commit
    <3>4. pc' \in [Requests -> Stages]
      BY <2>6 DEF Commit
    <3>5. QED
      BY <2>6, <3>2, <3>3, <3>4 DEF Commit
  <2>7. ASSUME NEW r \in Requests, Reply(r)
        PROVE  TypeOK'
    BY <2>7 DEF Reply, Row, OrderRows
  <2>8. ASSUME NEW r \in Requests, LookUpExisting(r)
        PROVE  TypeOK'
    BY <2>8 DEF LookUpExisting, OrdersUnder
  <2>9. ASSUME NEW r \in Requests, Fail(r)
        PROVE  TypeOK'
    BY <2>9 DEF Fail
  <2>10. ASSUME NEW t \in Tenants, SetStoreOpen(t)
         PROVE  TypeOK'
    BY <2>10 DEF SetStoreOpen
  <2>11. CASE NextDay
    BY <2>11 DEF NextDay, Days
  <2>12. CASE UNCHANGED vars
    BY <2>12 DEF vars
  <2>13. QED
    BY <2>1, <2>2, <2>3, <2>4, <2>5, <2>6, <2>7, <2>8, <2>9, <2>10, <2>11, <2>12
       DEF Next, Handle
<1>3. QED
  BY <1>1, <1>2, PTL DEF Spec

-----------------------------------------------------------------------------
\* The inductive invariant: the locks are what makes the tables consistent, and
\* the tables are what makes the answers agree.
RepliesStand == \A r \in Requests : pc[r] = "replied" => reply[r] \in StandsUnder(r)

Inv ==
    /\ TypeOK
    /\ IsolatedTransactions
    /\ OneOrderPerKey
    /\ GaplessCodes
    /\ CollisionFindsTheOrder
    /\ RepliesStand

LEMMA InitInv == Init => Inv
<1> SUFFICES ASSUME Init PROVE Inv
  OBVIOUS
<1>1. TypeOK
  BY DEF Init, TypeOK, Days, Stages
<1>2. IsolatedTransactions /\ CollisionFindsTheOrder /\ RepliesStand
  BY DEF Init, IsolatedTransactions, HoldsSequence, HoldsKey, CollisionFindsTheOrder, RepliesStand
<1>3. OneOrderPerKey
  BY DEF Init, OneOrderPerKey
<1>4. ASSUME NEW t \in Tenants, NEW d \in Days
      PROVE  CodesOf(t, d) = 1 .. lastSeq[t][d]
  <2>1. CodesOf(t, d) = {}
    BY DEF Init, CodesOf
  <2>2. lastSeq[t][d] = 0
    BY DEF Init
  <2>3. QED
    BY <2>1, <2>2
<1>5. GaplessCodes
  BY <1>4 DEF Init, GaplessCodes
<1>6. QED
  BY <1>1, <1>2, <1>3, <1>5 DEF Inv

\* A request that moves to a stage without locks and writes no table leaves the
\* invariant alone, whatever its dateKey becomes.
LEMMA QuietStep ==
  ASSUME Inv, TypeOK', NEW r \in Requests,
         NEW s \in {"located", "pricing", "coding", "refused", "failed"},
         Goto(r, s),
         \A q \in Requests : q # r => dateKey'[q] = dateKey[q],
         UNCHANGED <<orders, lastSeq, seq, created, reply>>
  PROVE  Inv'
<1> USE DEF Inv, Goto
<1>1. \A q \in Requests : q # r => pc'[q] = pc[q]
  BY DEF TypeOK
<1>2. pc'[r] = s
  BY DEF TypeOK
<1>3. IsolatedTransactions'
  BY <1>1, <1>2 DEF IsolatedTransactions, HoldsSequence, HoldsKey, SameSequence, SameKey,
                    StandsUnder, Row
<1>4. OneOrderPerKey' /\ GaplessCodes'
  BY DEF OneOrderPerKey, GaplessCodes, CodesOf
<1>5. CollisionFindsTheOrder' /\ RepliesStand'
  BY <1>1, <1>2 DEF CollisionFindsTheOrder, RepliesStand, StandsUnder
<1>6. QED
  BY <1>3, <1>4, <1>5

\* The upsert gives the holder of the sequence row the next code, and no one
\* else holds that row.
LEMMA TakeCodeInv ==
  ASSUME Inv, TypeOK', NEW r \in Requests, TakeCode(r)
  PROVE  Inv'
<1> USE DEF Inv, TakeCode, Goto, tables
<1>1. \A q \in Requests : q # r => pc'[q] = pc[q] /\ seq'[q] = seq[q]
  BY DEF TypeOK
<1>2. pc'[r] = "coded" /\ seq'[r] = lastSeq[r.tenant][dateKey[r]] + 1
  BY DEF TypeOK
<1>3. ASSUME NEW p \in Requests, NEW q \in Requests,
             HoldsSequence(p)', HoldsSequence(q)', SameSequence(p, q)'
      PROVE  p = q
  BY <1>1, <1>2, <1>3 DEF IsolatedTransactions, HoldsSequence, SameSequence
<1>4. ASSUME NEW p \in Requests, NEW q \in Requests,
             HoldsKey(p)', HoldsKey(q)', SameKey(p, q)'
      PROVE  p = q
  BY <1>1, <1>2, <1>4 DEF IsolatedTransactions, HoldsKey, SameKey
<1>5. ASSUME NEW q \in Requests
      PROVE  /\ HoldsSequence(q)' => seq'[q] = lastSeq'[q.tenant][dateKey'[q]] + 1
             /\ HoldsKey(q)' => StandsUnder(q)' = {}
             /\ pc'[q] = "committed" => Row(q)' \in orders'
  BY <1>1, <1>2 DEF IsolatedTransactions, HoldsSequence, HoldsKey, StandsUnder, Row
<1>6. IsolatedTransactions'
  BY <1>3, <1>4, <1>5 DEF IsolatedTransactions
<1>7. OneOrderPerKey' /\ GaplessCodes'
  BY DEF OneOrderPerKey, GaplessCodes, CodesOf
<1>8. CollisionFindsTheOrder' /\ RepliesStand'
  BY <1>1, <1>2 DEF CollisionFindsTheOrder, RepliesStand, StandsUnder
<1>9. QED
  BY <1>6, <1>7, <1>8

\* The unique index lets one uncommitted row per key in, and none over a
\* committed one.
LEMMA InsertOrderInv ==
  ASSUME Inv, TypeOK', NEW r \in Requests, InsertOrder(r)
  PROVE  Inv'
<1> USE DEF Inv, Goto, tables
<1>1. /\ UNCHANGED <<orders, lastSeq, dateKey, seq, reply>>
      /\ \A q \in Requests : q # r => pc'[q] = pc[q] /\ created'[q] = created[q]
  BY DEF TypeOK, InsertOrder
<1>2. \/ pc'[r] = "conflict" /\ StandsUnder(r) # {}
      \/ pc'[r] = "inserted" /\ StandsUnder(r) = {}
  BY DEF TypeOK, InsertOrder, OrdersUnder, StandsUnder, SameKey
<1>3. HoldsSequence(r)
  BY DEF InsertOrder, HoldsSequence
<1>4. ASSUME NEW p \in Requests, NEW q \in Requests,
             HoldsSequence(p)', HoldsSequence(q)', SameSequence(p, q)'
      PROVE  p = q
  BY <1>1, <1>2, <1>3, <1>4 DEF IsolatedTransactions, HoldsSequence, SameSequence
<1>5. ASSUME NEW p \in Requests, NEW q \in Requests,
             HoldsKey(p)', HoldsKey(q)', SameKey(p, q)'
      PROVE  p = q
  BY <1>1, <1>2, <1>5 DEF IsolatedTransactions, HoldsKey, SameKey, InsertOrder
<1>6. ASSUME NEW q \in Requests
      PROVE  /\ HoldsSequence(q)' => seq'[q] = lastSeq'[q.tenant][dateKey'[q]] + 1
             /\ HoldsKey(q)' => StandsUnder(q)' = {}
             /\ pc'[q] = "committed" => Row(q)' \in orders'
  <2>1. HoldsSequence(q)' => seq'[q] = lastSeq'[q.tenant][dateKey'[q]] + 1
    BY <1>1, <1>2, <1>3 DEF IsolatedTransactions, HoldsSequence
  <2>2. HoldsKey(q)' => StandsUnder(q)' = {}
    BY <1>1, <1>2 DEF IsolatedTransactions, HoldsKey, StandsUnder
  <2>3. pc'[q] = "committed" => Row(q)' \in orders'
    BY <1>1, <1>2 DEF IsolatedTransactions, Row
  <2>4. QED
    BY <2>1, <2>2, <2>3
<1>7. IsolatedTransactions'
  BY <1>4, <1>5, <1>6 DEF IsolatedTransactions
<1>8. OneOrderPerKey' /\ GaplessCodes'
  BY <1>1 DEF OneOrderPerKey, GaplessCodes, CodesOf
<1>9. CollisionFindsTheOrder' /\ RepliesStand'
  BY <1>1, <1>2 DEF CollisionFindsTheOrder, RepliesStand, StandsUnder
<1>10. QED
  BY <1>7, <1>8, <1>9

\* The commit adds the row of r and the code it used, in one step.
LEMMA CommitInv ==
  ASSUME Inv, TypeOK', NEW r \in Requests, Commit(r)
  PROVE  Inv'
<1> DEFINE t0 == r.tenant
           d0 == dateKey[r]
<1> USE DEF Inv, Goto, locals
<1>1. /\ UNCHANGED <<dateKey, seq, created, reply>>
      /\ pc'[r] = "committed"
      /\ \A q \in Requests : q # r => pc'[q] = pc[q]
      /\ orders' = orders \cup {Row(r)}
  BY DEF TypeOK, Commit
<1>2. HoldsSequence(r) /\ HoldsKey(r) /\ StandsUnder(r) = {} /\ seq[r] = lastSeq[t0][d0] + 1
  BY DEF Commit, HoldsSequence, HoldsKey, IsolatedTransactions
<1>3. t0 \in Tenants /\ d0 \in Days
  BY DEF TypeOK
<1>4. lastSeq'[t0][d0] = seq[r]
  BY <1>3 DEF TypeOK, Commit
<1>5. \A t \in Tenants, d \in Days :
        ~(t = t0 /\ d = d0) => lastSeq'[t][d] = lastSeq[t][d]
  BY <1>3 DEF TypeOK, Commit
<1>6. Row(r).tenant = t0 /\ Row(r).key = r.key /\ Row(r).day = d0 /\ Row(r).seq = seq[r]
  BY DEF Row
<1>7. ASSUME NEW q \in Requests, q # r, HoldsSequence(q)'
      PROVE  seq'[q] = lastSeq'[q.tenant][dateKey'[q]] + 1
  <2>1. HoldsSequence(q)
    BY <1>1, <1>7 DEF HoldsSequence
  <2>2. ~(q.tenant = t0 /\ dateKey[q] = d0)
    BY <1>2, <1>7, <2>1 DEF IsolatedTransactions, SameSequence
  <2>3. q.tenant \in Tenants /\ dateKey[q] \in Days
    BY DEF TypeOK
  <2>4. QED
    BY <1>1, <1>5, <2>1, <2>2, <2>3 DEF IsolatedTransactions
<1>8. ASSUME NEW q \in Requests, q # r, HoldsKey(q)'
      PROVE  StandsUnder(q)' = {}
  <2>1. HoldsKey(q) /\ ~SameKey(r, q) /\ StandsUnder(q) = {}
    BY <1>1, <1>2, <1>8 DEF IsolatedTransactions, HoldsKey
  <2>2. QED
    BY <1>1, <1>6, <2>1 DEF StandsUnder, SameKey
<1>9. IsolatedTransactions'
  <2>1. ASSUME NEW p \in Requests, NEW q \in Requests
        PROVE  /\ HoldsSequence(p)' /\ HoldsSequence(q)' /\ SameSequence(p, q)' => p = q
               /\ HoldsKey(p)' /\ HoldsKey(q)' /\ SameKey(p, q)' => p = q
    BY <1>1 DEF IsolatedTransactions, HoldsSequence, HoldsKey, SameSequence, SameKey
  <2>2. ASSUME NEW q \in Requests
        PROVE  /\ HoldsSequence(q)' => seq'[q] = lastSeq'[q.tenant][dateKey'[q]] + 1
               /\ HoldsKey(q)' => StandsUnder(q)' = {}
    BY <1>1, <1>7, <1>8 DEF HoldsSequence, HoldsKey
  <2>3. ASSUME NEW q \in Requests, pc'[q] = "committed"
        PROVE  Row(q)' \in orders'
    BY <1>1, <2>3 DEF IsolatedTransactions, Row
  <2>4. QED
    BY <2>1, <2>2, <2>3 DEF IsolatedTransactions
<1>10. OneOrderPerKey'
  BY <1>1, <1>2, <1>6 DEF OneOrderPerKey, StandsUnder
<1>11. ASSUME NEW t \in Tenants, NEW d \in Days
       PROVE  CodesOf(t, d)' = 1 .. lastSeq'[t][d]
  <2>1. CASE t = t0 /\ d = d0
    <3>1. CodesOf(t, d)' = CodesOf(t, d) \cup {seq[r]}
      BY <1>1, <1>6, <2>1 DEF CodesOf
    <3>2. CodesOf(t, d) = 1 .. lastSeq[t][d] /\ lastSeq[t][d] \in Nat
      BY DEF GaplessCodes, TypeOK
    <3>3. (1 .. lastSeq[t][d]) \cup {lastSeq[t][d] + 1} = 1 .. (lastSeq[t][d] + 1)
      BY <3>2
    <3>4. QED
      BY <1>2, <1>4, <2>1, <3>1, <3>2, <3>3
  <2>2. CASE ~(t = t0 /\ d = d0)
    <3>1. CodesOf(t, d)' = CodesOf(t, d)
      BY <1>1, <1>6, <2>2 DEF CodesOf
    <3>2. QED
      BY <1>5, <2>2, <3>1 DEF GaplessCodes
  <2>3. QED
    BY <2>1, <2>2
<1>12. ASSUME NEW o \in orders, o.tenant = t0, o.day = d0
       PROVE  o.seq # seq[r]
  <2>1. o.seq \in CodesOf(t0, d0)
    BY <1>12 DEF CodesOf
  <2>2. CodesOf(t0, d0) = 1 .. lastSeq[t0][d0]
    BY <1>3 DEF GaplessCodes
  <2>3. lastSeq[t0][d0] \in Nat
    BY <1>3 DEF TypeOK
  <2>4. QED
    BY <1>2, <2>1, <2>2, <2>3
<1>13. GaplessCodes'
  <2>1. ASSUME NEW o \in orders', NEW p \in orders',
               o.tenant = p.tenant, o.day = p.day, o.seq = p.seq
        PROVE  o = p
    BY <1>1, <1>6, <1>12, <2>1 DEF GaplessCodes
  <2>2. QED
    BY <1>11, <2>1 DEF GaplessCodes
<1>14. CollisionFindsTheOrder' /\ RepliesStand'
  <2>1. \A q \in Requests : StandsUnder(q) \subseteq StandsUnder(q)'
    BY <1>1 DEF StandsUnder
  <2>2. QED
    BY <1>1, <2>1 DEF CollisionFindsTheOrder, RepliesStand
<1>15. QED
  BY <1>9, <1>10, <1>13, <1>14

\* An answer taken from the table, or of the row just committed, stands there.
LEMMA AnswerInv ==
  ASSUME Inv, TypeOK', NEW r \in Requests, Reply(r) \/ LookUpExisting(r)
  PROVE  Inv'
<1> USE DEF Inv, Goto, tables, locals
<1>1. /\ UNCHANGED <<orders, lastSeq, dateKey, seq, created>>
      /\ \A q \in Requests : q # r => pc'[q] = pc[q] /\ reply'[q] = reply[q]
  BY DEF TypeOK, Reply, LookUpExisting
<1>2. \/ pc'[r] = "failed"
      \/ pc'[r] = "replied" /\ reply'[r] \in StandsUnder(r)
  <2>1. CASE Reply(r)
    <3>1. Row(r) \in StandsUnder(r)
      BY <2>1 DEF Reply, IsolatedTransactions, StandsUnder, Row
    <3>2. QED
      BY <2>1, <3>1 DEF TypeOK, Reply
  <2>2. CASE LookUpExisting(r)
    BY <2>2 DEF TypeOK, LookUpExisting, OrdersUnder, StandsUnder, SameKey
  <2>3. QED
    BY <2>1, <2>2
<1>3. IsolatedTransactions'
  BY <1>1, <1>2 DEF IsolatedTransactions, HoldsSequence, HoldsKey, SameSequence, SameKey,
                    StandsUnder, Row
<1>4. OneOrderPerKey' /\ GaplessCodes'
  BY <1>1 DEF OneOrderPerKey, GaplessCodes, CodesOf
<1>5. CollisionFindsTheOrder' /\ RepliesStand'
  BY <1>1, <1>2 DEF CollisionFindsTheOrder, RepliesStand, StandsUnder
<1>6. QED
  BY <1>3, <1>4, <1>5

LEMMA NextInv == Inv /\ TypeOK' /\ [Next]_vars => Inv'
<1> SUFFICES ASSUME Inv, TypeOK', [Next]_vars
             PROVE  Inv'
  OBVIOUS
<1> USE DEF tables, locals
<1>1. ASSUME NEW r \in Requests, Refuse(r)
      PROVE  Inv'
  BY <1>1, QuietStep DEF Refuse
<1>2. ASSUME NEW r \in Requests, ResolveCep(r)
      PROVE  Inv'
  BY <1>1, <1>2, QuietStep DEF ResolveCep
<1>3. ASSUME NEW r \in Requests, ReadTenant(r)
      PROVE  Inv'
  BY <1>1, <1>3, QuietStep DEF ReadTenant
<1>4. ASSUME NEW r \in Requests, PriceItems(r)
      PROVE  Inv'
  <2>1. CASE /\ Goto(r, "coding")
             /\ dateKey' = [dateKey EXCEPT ![r] = today]
             /\ UNCHANGED <<today, tables, began, seq, created, reply>>
    <3>1. \A q \in Requests : q # r => dateKey'[q] = dateKey[q]
      BY <2>1 DEF Inv, TypeOK
    <3>2. QED
      BY <2>1, <3>1, QuietStep
  <2>2. QED
    BY <1>1, <1>4, <2>1 DEF PriceItems
<1>5. ASSUME NEW r \in Requests, Fail(r)
      PROVE  Inv'
  BY <1>5, QuietStep DEF Fail
<1>6. ASSUME UNCHANGED <<orders, lastSeq, pc, dateKey, seq, created, reply>>
      PROVE  Inv'
  BY <1>6 DEF Inv, IsolatedTransactions, HoldsSequence, HoldsKey, SameSequence, SameKey,
              StandsUnder, Row, OneOrderPerKey, GaplessCodes, CodesOf,
              CollisionFindsTheOrder, RepliesStand
<1>7. ASSUME NEW t \in Tenants, SetStoreOpen(t)
      PROVE  Inv'
  BY <1>6, <1>7 DEF SetStoreOpen
<1>8. CASE NextDay
  BY <1>6, <1>8 DEF NextDay
<1>9. CASE UNCHANGED vars
  BY <1>6, <1>9 DEF vars
<1>10. QED
  BY <1>2, <1>3, <1>4, <1>5, <1>7, <1>8, <1>9, TakeCodeInv, InsertOrderInv, CommitInv, AnswerInv
     DEF Next, Handle

THEOREM InvHolds == Spec => []Inv
  BY InitInv, NextInv, TypeCorrect, PTL DEF Spec

\* Whatever the number of concurrent requests, the locks keep their promise.
THEOREM LocksIsolate == Spec => []IsolatedTransactions
<1>1. Inv => IsolatedTransactions
  BY DEF Inv
<1>2. QED
  BY <1>1, InvHolds, PTL

\* However requests with one Idempotency-Key interleave, fail and are retried,
\* at most one order per tenant and key is ever committed.
THEOREM AtMostOneOrder == Spec => []OneOrderPerKey
<1>1. Inv => OneOrderPerKey
  BY DEF Inv
<1>2. QED
  BY <1>1, InvHolds, PTL

\* The order codes of a tenant's day are consecutive from 1 and unique.
THEOREM CodesAreGapless == Spec => []GaplessCodes
<1>1. Inv => GaplessCodes
  BY DEF Inv
<1>2. QED
  BY <1>1, InvHolds, PTL

\* The request that lost the race for a key always finds the order to answer with.
THEOREM CollisionIsResolved == Spec => []CollisionFindsTheOrder
<1>1. Inv => CollisionFindsTheOrder
  BY DEF Inv
<1>2. QED
  BY <1>1, InvHolds, PTL

\* All requests of one key that are answered with an order are answered with
\* the same one, the one in the table.
THEOREM RepliesAgree == Spec => []SameKeySameReply
<1>1. Inv => SameKeySameReply
  BY DEF Inv, SameKeySameReply, RepliesStand, OneOrderPerKey, StandsUnder
<1>2. QED
  BY <1>1, InvHolds, PTL

-----------------------------------------------------------------------------
\* A request that is not answered and stays so leaves the answers as they are.
LEMMA AnswersKept ==
  ASSUME TypeOK, NEW r \in Requests, NEW s \in Stages \ Answered,
         pc[r] \notin Answered, Goto(r, s), reply' = reply
  PROVE  answers' = answers
  BY DEF TypeOK, Goto, answers, Answered

\* A request that ends without an order turns its answer into an error.
LEMMA AnswersRefused ==
  ASSUME TypeOK, NEW r \in Requests, NEW s \in {"refused", "failed"},
         pc[r] \notin Answered, Goto(r, s), UNCHANGED <<orders, lastSeq, reply>>
  PROVE  Book!Refuse(r)
<1>1. answers[r] = NoOrder
  BY DEF TypeOK, answers, Answered
<1>2. answers' = [answers EXCEPT ![r] = Error]
  BY DEF TypeOK, Goto, answers
<1>3. QED
  BY <1>1, <1>2 DEF Book!Refuse

\* A request that ends with an order of the table turns its answer into it.
LEMMA AnswersGiven ==
  ASSUME TypeOK, NEW r \in Requests, NEW o \in StandsUnder(r),
         pc[r] \notin Answered, Goto(r, "replied"),
         reply' = [reply EXCEPT ![r] = o], UNCHANGED <<orders, lastSeq>>
  PROVE  Book!Answer(r)
<1>1. answers[r] = NoOrder
  BY DEF TypeOK, answers, Answered
<1>2. answers' = [answers EXCEPT ![r] = o]
  BY DEF TypeOK, Goto, answers
<1>3. o \in Book!OrdersUnder(r)
  BY DEF StandsUnder, Book!OrdersUnder
<1>4. QED
  BY <1>1, <1>2, <1>3 DEF Book!Answer

\* The commit is the placing of the order.
LEMMA CommitPlaces ==
  ASSUME Inv, NEW r \in Requests, Commit(r)
  PROVE  Book!Place(r, dateKey[r], created[r])
<1> USE DEF Inv
<1>1. answers' = answers /\ answers[r] = NoOrder
  BY AnswersKept DEF Commit, Answered, Stages, TypeOK, answers
<1>2. Book!OrdersUnder(r) = {} /\ seq[r] = lastSeq[r.tenant][dateKey[r]] + 1
  BY DEF Commit, IsolatedTransactions, HoldsKey, HoldsSequence, StandsUnder, Book!OrdersUnder
<1>3. r.tenant \in Tenants /\ dateKey[r] \in Days
  BY DEF TypeOK
<1>4. lastSeq' = [lastSeq EXCEPT ![r.tenant][dateKey[r]] = @ + 1]
  BY <1>2 DEF Commit
<1>5. lastSeq'[r.tenant][dateKey[r]] = seq[r]
  BY <1>3 DEF Commit, TypeOK
<1>6. QED
  BY <1>1, <1>2, <1>4, <1>5 DEF Commit, Row, Book!Place

\* create() implements the order book: every step of a request, of the owner or
\* of the clock is one step of the book or none.
THEOREM Refinement == Spec => ImplementsOrderBook
<1>1. Init => Book!Init
  BY DEF Init, Book!Init, answers
<1>2. Inv /\ [Next]_vars => [Book!Next]_Book!vars
  <2> SUFFICES ASSUME Inv, [Next]_vars
               PROVE  [Book!Next]_Book!vars
    OBVIOUS
  <2> USE DEF Inv, tables, locals
  <2>1. ASSUME NEW r \in Requests, Book!Refuse(r) \/ Book!Answer(r)
        PROVE  [Book!Next]_Book!vars
    BY <2>1 DEF Book!Next
  <2>2. ASSUME answers' = answers, UNCHANGED <<orders, lastSeq>>
        PROVE  [Book!Next]_Book!vars
    BY <2>2 DEF Book!vars
  <2>3. ASSUME NEW r \in Requests, pc[r] \notin Answered, Refuse(r)
        PROVE  [Book!Next]_Book!vars
    BY <2>1, <2>3, AnswersRefused DEF Refuse
  <2>4. ASSUME NEW r \in Requests, ResolveCep(r)
        PROVE  [Book!Next]_Book!vars
    BY <2>2, <2>3, <2>4, AnswersKept DEF ResolveCep, Answered, Stages
  <2>5. ASSUME NEW r \in Requests, ReadTenant(r)
        PROVE  [Book!Next]_Book!vars
    BY <2>2, <2>3, <2>5, AnswersKept DEF ReadTenant, Answered, Stages, InTransaction
  <2>6. ASSUME NEW r \in Requests, PriceItems(r)
        PROVE  [Book!Next]_Book!vars
    BY <2>2, <2>3, <2>6, AnswersKept DEF PriceItems, Answered, Stages, InTransaction
  <2>7. ASSUME NEW r \in Requests, TakeCode(r)
        PROVE  [Book!Next]_Book!vars
    BY <2>2, <2>7, AnswersKept DEF TakeCode, Answered, Stages, InTransaction
  <2>8. ASSUME NEW r \in Requests, InsertOrder(r)
        PROVE  [Book!Next]_Book!vars
    BY <2>2, <2>8, AnswersKept DEF InsertOrder, Answered, Stages, InTransaction
  <2>9. ASSUME NEW r \in Requests, Commit(r)
        PROVE  [Book!Next]_Book!vars
    BY <2>9, CommitPlaces DEF Book!Next, TypeOK
  <2>10. ASSUME NEW r \in Requests, Reply(r)
         PROVE  [Book!Next]_Book!vars
    <3>1. Row(r) \in StandsUnder(r)
      BY <2>10 DEF Reply, IsolatedTransactions, StandsUnder, Row
    <3>2. QED
      BY <2>1, <2>10, <3>1, AnswersGiven DEF Reply, Answered
  <2>11. ASSUME NEW r \in Requests, LookUpExisting(r)
         PROVE  [Book!Next]_Book!vars
    BY <2>1, <2>11, AnswersGiven, AnswersRefused
       DEF LookUpExisting, OrdersUnder, SameKey, StandsUnder, Answered
  <2>12. ASSUME NEW r \in Requests, Fail(r)
         PROVE  [Book!Next]_Book!vars
    BY <2>1, <2>12, AnswersRefused DEF Fail, Answered, InTransaction
  <2>13. ASSUME UNCHANGED <<orders, lastSeq, pc, reply>>
         PROVE  [Book!Next]_Book!vars
    BY <2>2, <2>13 DEF answers
  <2>14. QED
    BY <2>4, <2>5, <2>6, <2>7, <2>8, <2>9, <2>10, <2>11, <2>12, <2>13
       DEF Next, Handle, SetStoreOpen, NextDay, vars
<1>3. QED
  BY <1>1, <1>2, InvHolds, PTL DEF Spec, ImplementsOrderBook, Book!Spec

=============================================================================
