-------------------------------- MODULE Orders --------------------------------
(***************************************************************************)
(* POST /orders: OrdersService.create and insertOrder of apps/api, run     *)
(* concurrently by any number of requests against one Postgres database.   *)
(*                                                                         *)
(* A request first resolves the CEP outside any transaction, then runs one *)
(* READ COMMITTED transaction: read the tenant (is the store open?), read  *)
(* and price the products, take the next code of the day from              *)
(* order_daily_sequences, insert the order, commit.  When the insert       *)
(* collides with the unique (tenant_id, idempotency_key), Postgres aborts  *)
(* the transaction and the request looks the existing order up in a new    *)
(* one.  The owner opens and closes the store and the business day turns   *)
(* at any moment.  A transaction can be lost at any point (Prisma's        *)
(* timeout, a dropped connection, a restart of the process), and so can    *)
(* the answer of a transaction that committed.                             *)
(*                                                                         *)
(* Row locks are not variables: who holds one follows from where the       *)
(* requests stand (HoldsSequence, HoldsKey).  Uncommitted rows live in the *)
(* private values of their request and reach the tables at Commit.         *)
(***************************************************************************)
EXTENDS Naturals

CONSTANTS
    Tenants,
    Keys,       \* Idempotency-Key header values
    Requests,   \* HTTP requests, records with fields tenant and key
    MaxDay,     \* bound: the days of operation are 1..MaxDay
    NoOrder,    \* no answer yet
    Error       \* an answer that is not an order

Days == 1 .. MaxDay

OrderRows == [tenant : Tenants, key : Keys, day : Days, seq : Nat, created : Days]

ASSUME RequestsAssumption ==
    \A r \in Requests : r.tenant \in Tenants /\ r.key \in Keys
ASSUME MaxDayAssumption == MaxDay \in Nat \ {0}
ASSUME AnswersAssumption ==
    NoOrder \notin OrderRows /\ Error \notin OrderRows /\ NoOrder # Error

VARIABLES
    isOpen,     \* tenants.is_open
    today,      \* day of operation of the API's clock
    orders,     \* committed rows of orders
    lastSeq,    \* committed order_daily_sequences.last_seq (0: no row yet)
    pc,         \* where each request stands in create() / insertOrder()
    began,      \* the day its transaction began
    dateKey,    \* its local dateKey
    seq,        \* its local lastSeq
    created,    \* created_at of the row it inserted, as a day
    reply       \* the order it was answered with

tables == <<isOpen, orders, lastSeq>>
locals == <<began, dateKey, seq, created>>
vars == <<isOpen, today, orders, lastSeq, pc, began, dateKey, seq, created, reply>>

InTransaction == {"pricing", "coding", "coded", "inserted"}
Answered == {"replied", "refused", "failed"}
Stages == {"sent", "located", "conflict", "committed"} \cup InTransaction \cup Answered

-----------------------------------------------------------------------------
\* Mutant of HoldsSequence: a lock of the session, kept when the transaction ends.
HoldsSequenceForever(r) == seq[r] # 0

\* The upsert of TakeCode locks the row of (tenant, date_key) until the
\* transaction ends.
HoldsSequence(r) == pc[r] \in {"coded", "inserted"}

\* An inserted but uncommitted order holds its entry of the unique index.
HoldsKey(r) == pc[r] = "inserted"

SameSequence(r, q) == r.tenant = q.tenant /\ dateKey[r] = dateKey[q]

SameKey(r, o) == r.tenant = o.tenant /\ r.key = o.key

OrdersUnder(r) == {o \in orders : SameKey(r, o)}

\* The row request r inserts.
Row(r) == [tenant |-> r.tenant, key |-> r.key, day |-> dateKey[r],
           seq |-> seq[r], created |-> created[r]]

Goto(r, stage) == pc' = [pc EXCEPT ![r] = stage]

Refuse(r) == Goto(r, "refused") /\ UNCHANGED <<today, tables, locals, reply>>

-----------------------------------------------------------------------------
Init ==
    /\ isOpen \in [Tenants -> BOOLEAN]
    /\ today = 1
    /\ orders = {}
    /\ lastSeq = [t \in Tenants |-> [d \in Days |-> 0]]
    /\ pc = [r \in Requests |-> "sent"]
    /\ began = [r \in Requests |-> 1]
    /\ dateKey = [r \in Requests |-> 1]
    /\ seq = [r \in Requests |-> 0]
    /\ created = [r \in Requests |-> 1]
    /\ reply = [r \in Requests |-> NoOrder]

\* create() asks ViaCEP, before any transaction.  When it knows the CEP, or is
\* unavailable and the address of the customer is trusted, the request goes on;
\* a malformed or unknown CEP is a 400.
ResolveCep(r) ==
    /\ pc[r] = "sent"
    /\ \/ /\ Goto(r, "located")
          /\ UNCHANGED <<today, tables, locals, reply>>
       \/ Refuse(r)

\* The transaction begins and tenant.findUnique reads is_open; each statement
\* sees what is committed when it runs.
ReadTenant(r) ==
    /\ pc[r] = "located"
    /\ \/ /\ isOpen[r.tenant]
          /\ Goto(r, "pricing")
          /\ began' = [began EXCEPT ![r] = today]
          /\ UNCHANGED <<today, tables, dateKey, seq, created, reply>>
       \/ /\ ~isOpen[r.tenant]
          /\ Refuse(r)

\* product.findMany and the loop over the items: a missing product, a missing
\* price or a bad combination is a 4xx; otherwise the day's key is computed.
PriceItems(r) ==
    /\ pc[r] = "pricing"
    /\ \/ /\ Goto(r, "coding")
          /\ dateKey' = [dateKey EXCEPT ![r] = today]
          /\ UNCHANGED <<today, tables, began, seq, created, reply>>
       \/ Refuse(r)

\* Mutant of TakeCode: the upsert runs and commits in a transaction of its own.
TakeCodeInOwnTransaction(r) ==
    /\ pc[r] = "coding"
    /\ Goto(r, "coded")
    /\ seq' = [seq EXCEPT ![r] = lastSeq[r.tenant][dateKey[r]] + 1]
    /\ lastSeq' = [lastSeq EXCEPT ![r.tenant][dateKey[r]] = @ + 1]
    /\ UNCHANGED <<isOpen, today, orders, began, dateKey, created, reply>>

\* Mutant of TakeCode: the last code is read without locking its row.
TakeCodeUnlocked(r) ==
    /\ pc[r] = "coding"
    /\ Goto(r, "coded")
    /\ seq' = [seq EXCEPT ![r] = lastSeq[r.tenant][dateKey[r]] + 1]
    /\ UNCHANGED <<today, tables, began, dateKey, created, reply>>

\* INSERT ... ON CONFLICT DO UPDATE ... RETURNING last_seq waits for the row.
TakeCode(r) ==
    /\ pc[r] = "coding"
    /\ ~\E q \in Requests : HoldsSequence(q) /\ SameSequence(r, q)
    /\ Goto(r, "coded")
    /\ seq' = [seq EXCEPT ![r] = lastSeq[r.tenant][dateKey[r]] + 1]
    /\ UNCHANGED <<today, tables, began, dateKey, created, reply>>

\* Mutant of InsertOrder: a check for the key instead of the unique index.
InsertOrderAfterCheck(r) ==
    /\ pc[r] = "coded"
    /\ Goto(r, IF OrdersUnder(r) = {} THEN "inserted" ELSE "conflict")
    /\ created' = [created EXCEPT ![r] = today]
    /\ UNCHANGED <<today, tables, began, dateKey, seq, reply>>

\* Mutant of InsertOrder: an uncommitted row with the key counts as a collision.
InsertOrderFailFast(r) ==
    /\ pc[r] = "coded"
    /\ Goto(r, IF \E q \in Requests : pc[q] = "inserted" /\ SameKey(r, q)
               THEN "conflict" ELSE "inserted")
    /\ created' = [created EXCEPT ![r] = today]
    /\ UNCHANGED <<today, tables, began, dateKey, seq, reply>>

\* order.create waits for an uncommitted row with the same key.  Over a
\* committed one it raises P2002 and the transaction, its code included, is
\* rolled back.  created_at is the instant of the statement or that of the
\* transaction's start, whichever the database client uses for now().
InsertOrder(r) ==
    /\ pc[r] = "coded"
    /\ ~\E q \in Requests : HoldsKey(q) /\ SameKey(r, q)
    /\ \/ /\ OrdersUnder(r) # {}
          /\ Goto(r, "conflict")
          /\ UNCHANGED created
       \/ /\ OrdersUnder(r) = {}
          /\ Goto(r, "inserted")
          /\ \E d \in {began[r], today} : created' = [created EXCEPT ![r] = d]
    /\ UNCHANGED <<today, tables, began, dateKey, seq, reply>>

Commit(r) ==
    /\ pc[r] = "inserted"
    /\ Goto(r, "committed")
    /\ orders' = orders \cup {Row(r)}
    /\ lastSeq' = [lastSeq EXCEPT ![r.tenant][dateKey[r]] = seq[r]]
    /\ UNCHANGED <<isOpen, today, locals, reply>>

Reply(r) ==
    /\ pc[r] = "committed"
    /\ Goto(r, "replied")
    /\ reply' = [reply EXCEPT ![r] = Row(r)]
    /\ UNCHANGED <<today, tables, locals>>

\* Mutant of LookUpExisting: the collision itself is the answer.
LookUpNothing(r) ==
    /\ pc[r] = "conflict"
    /\ Goto(r, "replied")
    /\ reply' = [reply EXCEPT ![r] = Error]
    /\ UNCHANGED <<today, tables, locals>>

\* Mutant of LookUpExisting: any order of the tenant is found.
LookUpByTenant(r) ==
    /\ pc[r] = "conflict"
    /\ Goto(r, "replied")
    /\ \E o \in orders : o.tenant = r.tenant /\ reply' = [reply EXCEPT ![r] = o]
    /\ UNCHANGED <<today, tables, locals>>

\* The second transaction of create(): the order the other request created,
\* or the P2002 rethrown when there is none.
LookUpExisting(r) ==
    /\ pc[r] = "conflict"
    /\ \/ \E o \in OrdersUnder(r) :
            /\ Goto(r, "replied")
            /\ reply' = [reply EXCEPT ![r] = o]
       \/ /\ OrdersUnder(r) = {}
          /\ Goto(r, "failed")
          /\ UNCHANGED reply
    /\ UNCHANGED <<today, tables, locals>>

\* The transaction is lost and rolled back, or the answer of one that
\* committed is: the client cannot tell which.
Fail(r) ==
    /\ pc[r] \in {"located", "conflict", "committed"} \cup InTransaction
    /\ Goto(r, "failed")
    /\ UNCHANGED <<today, tables, locals, reply>>

\* PATCH /tenants/me with isOpen: one UPDATE, at any moment.
SetStoreOpen(t) ==
    /\ \E open \in BOOLEAN : isOpen' = [isOpen EXCEPT ![t] = open]
    /\ UNCHANGED <<today, orders, lastSeq, pc, locals, reply>>

\* The clock passes 5 a.m. in Sao Paulo.
NextDay ==
    /\ today < MaxDay
    /\ today' = today + 1
    /\ UNCHANGED <<tables, pc, locals, reply>>

Handle(r) ==
    \/ ReadTenant(r)
    \/ PriceItems(r)
    \/ TakeCode(r)
    \/ InsertOrder(r)
    \/ Commit(r)
    \/ Reply(r)
    \/ LookUpExisting(r)

Next ==
    \/ \E r \in Requests : ResolveCep(r) \/ Handle(r) \/ Fail(r)
    \/ \E t \in Tenants : SetStoreOpen(t)
    \/ NextDay

\* The database grants a free lock and the event loop resumes a request whose
\* call returned; nobody is obliged to send requests or to touch the store.
Fairness == \A r \in Requests : WF_vars(Handle(r))

Spec == Init /\ [][Next]_vars /\ Fairness

-----------------------------------------------------------------------------
TypeOK ==
    /\ isOpen \in [Tenants -> BOOLEAN]
    /\ today \in Days
    /\ orders \subseteq OrderRows
    /\ lastSeq \in [Tenants -> [Days -> Nat]]
    /\ pc \in [Requests -> Stages]
    /\ began \in [Requests -> Days]
    /\ dateKey \in [Requests -> Days]
    /\ seq \in [Requests -> Nat]
    /\ created \in [Requests -> Days]
    /\ reply \in [Requests -> OrderRows \cup {NoOrder}]

\* The committed orders with the tenant and the key of request r.
StandsUnder(r) == {o \in orders : o.tenant = r.tenant /\ o.key = r.key}

\* What the row locks are worth: whoever holds a sequence row holds it alone and
\* has read the last code committed, whoever has inserted a key holds it alone
\* and no committed order has it, and what was committed is in the table.
IsolatedTransactions ==
    /\ \A r, q \in Requests :
        /\ HoldsSequence(r) /\ HoldsSequence(q) /\ SameSequence(r, q) => r = q
        /\ HoldsKey(r) /\ HoldsKey(q) /\ SameKey(r, q) => r = q
    /\ \A r \in Requests :
        /\ HoldsSequence(r) => seq[r] = lastSeq[r.tenant][dateKey[r]] + 1
        /\ HoldsKey(r) => StandsUnder(r) = {}
        /\ pc[r] = "committed" => Row(r) \in orders

\* Two requests with one key, however they interleave, fail and are retried,
\* leave one order: @@unique([tenantId, idempotencyKey]) and the abort of the
\* transaction that lost.
OneOrderPerKey ==
    \A o, p \in orders : o.tenant = p.tenant /\ o.key = p.key => o = p

\* The codes of a tenant's day are 1, 2, 3 ... without a hole and without a
\* duplicate, because the code is taken inside the transaction that inserts
\* the order and goes back with it: AAAAMMDDNNNN is what the shop counts by.
CodesOf(t, d) == {o.seq : o \in {p \in orders : p.tenant = t /\ p.day = d}}
GaplessCodes ==
    /\ \A t \in Tenants, d \in Days : CodesOf(t, d) = 1 .. lastSeq[t][d]
    /\ \A o, p \in orders :
            o.tenant = p.tenant /\ o.day = p.day /\ o.seq = p.seq => o = p

\* Every request that is answered with an order is answered with the one that
\* stands under its tenant and key, be it the winner, the loser of the race or
\* a retry: "retry de rede precisa ver o MESMO sucesso".
SameKeySameReply ==
    \A r \in Requests : pc[r] = "replied" => StandsUnder(r) = {reply[r]}

\* The loser of the race always finds the winner's order in its second
\* transaction, so the P2002 is never the answer.
CollisionFindsTheOrder ==
    \A r \in Requests : pc[r] = "conflict" => StandsUnder(r) # {}

\* create() waits only for locks that are released: a request that reached the
\* database is answered.
EveryRequestIsAnswered ==
    \A r \in Requests : pc[r] = "located" ~> pc[r] \in Answered

-----------------------------------------------------------------------------
\* What a request was answered: the order, an error, or nothing yet.
answers ==
    [r \in Requests |->
        CASE pc[r] = "replied" -> reply[r]
          [] pc[r] \in {"refused", "failed"} -> Error
          [] OTHER -> NoOrder]

\* The order book these transactions implement: an order is placed at the
\* moment its transaction commits.
Book == INSTANCE OrderBook WITH
    book <- orders, counter <- lastSeq, answer <- answers, NoAnswer <- NoOrder

\* The transactions, locks and retries of create() are invisible: what clients
\* see is an order book in which placing an order is one atomic step.
ImplementsOrderBook == Book!Spec

=============================================================================
