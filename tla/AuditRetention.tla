---------------------------- MODULE AuditRetention ----------------------------
(***************************************************************************)
(* The audit log and its daily purge (runDailyRetention): 30 days in       *)
(* audit_logs, then in audit_logs_archive, until two years after the event.*)
(* Each tenant is a transaction of its own, in batches of                  *)
(* TENANT_CONCURRENCY; the events of the platform are two statements       *)
(* outside any transaction.  Nothing keeps two runs apart ("Seguro rodar   *)
(* 2x/concorrente"), a failed transaction is counted and the run goes on,  *)
(* and the process may die anywhere.                                       *)
(***************************************************************************)
EXTENDS Integers, FiniteSets, TLC

CONSTANTS
    Events,
    Tenants,
    Platform,       \* the owner of the events without a tenant
    Concurrency,    \* TENANT_CONCURRENCY
    Jobs,           \* slots: runs
    Off

\* A transaction of a run, and a run.
Transactions ==
    [at : {"open", "moved"}, old : SUBSET Events, dead : SUBSET Events, moves : SUBSET Events]
Runs ==
    [left : SUBSET Tenants, failed : SUBSET (Tenants \cup {Platform}),
     at : {"tenants", "platform", "platform moved", "done"},
     txs : [Tenants -> Transactions \cup {Off}],
     began : [old : SUBSET Events, dead : SUBSET Events]]

ASSUME OwnersAssumption == Platform \notin Tenants
ASSUME OffAssumption == Off \notin Transactions \cup Runs
ASSUME ConcurrencyAssumption == Concurrency \in Nat \ {0}

VARIABLES
    age,        \* of each event: none (not recorded), hot, old (30 days), dead (2 years)
    owner,
    hot,        \* audit_logs
    archive,    \* audit_logs_archive
    jobs        \* the runs under way, or Off

auditVars == <<age, owner, hot, archive, jobs>>

Owners == Tenants \cup {Platform}

Of(o) == {e \in Events : owner[e] = o}
Older(ages) == {e \in Events : age[e] \in ages}

AuditInit ==
    /\ age = [e \in Events |-> "none"]
    /\ owner = [e \in Events |-> Platform]
    /\ hot = {} /\ archive = {}
    /\ jobs = [j \in Jobs |-> Off]

-----------------------------------------------------------------------------
\* AuditLogService.record, in the transaction of what it tells of, or outside.
Record(e, o) ==
    /\ age[e] = "none"
    /\ age' = [age EXCEPT ![e] = "hot"]
    /\ owner' = [owner EXCEPT ![e] = o]
    /\ hot' = hot \cup {e}
    /\ UNCHANGED <<archive, jobs>>

GrowsOld(e) ==
    /\ age[e] \in {"hot", "old"}
    /\ age' = [age EXCEPT ![e] = IF @ = "hot" THEN "old" ELSE "dead"]
    /\ UNCHANGED <<owner, hot, archive, jobs>>

-----------------------------------------------------------------------------
\* began: what a run owes, the events that are past their time when it starts.
Run(j) ==
    /\ jobs[j] = Off
    /\ jobs' = [jobs EXCEPT ![j] =
            [left |-> Tenants, failed |-> {}, at |-> "tenants", txs |-> [t \in Tenants |-> Off],
             began |-> [old |-> Older({"old", "dead"}), dead |-> Older({"dead"})]]]
    /\ UNCHANGED <<age, owner, hot, archive>>

Running(j) == IF jobs[j] = Off THEN {} ELSE {t \in Tenants : jobs[j].txs[t] # Off}

\* now() of a transaction is its start.
Begun == [at |-> "open", old |-> Older({"old", "dead"}), dead |-> Older({"dead"}),
          moves |-> {}]

\* mapWithConcurrency: the next of the list, all together.
NextBatch(j, batch) ==
    /\ jobs[j] # Off /\ jobs[j].at = "tenants"
    /\ Running(j) = {}
    /\ batch \subseteq jobs[j].left
    /\ \/ Cardinality(batch) = Concurrency
       \/ batch = jobs[j].left /\ Cardinality(batch) <= Concurrency
    /\ jobs' = [jobs EXCEPT ![j].left = @ \ batch,
                            ![j].txs = [t \in Tenants |-> IF t \in batch THEN Begun ELSE Off],
                            ![j].at = IF batch = {} THEN "platform" ELSE @]
    /\ UNCHANGED <<age, owner, hot, archive>>

\* The rows that a transaction of another run has moved and not committed.
Locked(j, t) == UNION {jobs[i].txs[t].moves : i \in {i \in Jobs \ {j} : t \in Running(i)}}

\* purgeAndArchive, its first statement: waits for the rows somebody else is moving.
Move(j, t) ==
    LET tx == jobs[j].txs[t]
        movidos == hot \cap Of(t) \cap tx.old IN
    /\ t \in Running(j) /\ tx.at = "open"
    /\ movidos \cap Locked(j, t) = {}
    /\ jobs' = [jobs EXCEPT ![j].txs[t] = [@ EXCEPT !.at = "moved", !.moves = movidos]]
    /\ UNCHANGED <<age, owner, hot, archive>>

\* The second statement and the commit.
Commit(j, t) ==
    LET tx == jobs[j].txs[t] IN
    /\ t \in Running(j) /\ tx.at = "moved"
    /\ hot' = hot \ tx.moves
    /\ archive' = (archive \cup tx.moves) \ (Of(t) \cap tx.dead)
    /\ jobs' = [jobs EXCEPT ![j].txs[t] = Off]
    /\ UNCHANGED <<age, owner>>

\* Any statement fails: rolled back, counted, not thrown again.
TransactionFails(j, t) ==
    /\ t \in Running(j)
    /\ jobs' = [jobs EXCEPT ![j].txs[t] = Off, ![j].failed = @ \cup {t}]
    /\ UNCHANGED <<age, owner, hot, archive>>

-----------------------------------------------------------------------------
\* Mutant of MovePlatform: a DELETE, and an INSERT that was to follow.
MovePlatformByHalves(j) ==
    /\ jobs[j] # Off /\ jobs[j].at = "platform"
    /\ hot' = hot \ (Of(Platform) \cap Older({"old", "dead"}))
    /\ jobs' = [jobs EXCEPT ![j].at = "platform moved"]
    /\ UNCHANGED <<age, owner, archive>>

\* DELETE ... RETURNING feeds the INSERT: one statement.
MovePlatform(j) ==
    LET movidos == hot \cap Of(Platform) \cap Older({"old", "dead"}) IN
    /\ jobs[j] # Off /\ jobs[j].at = "platform"
    /\ hot' = hot \ movidos
    /\ archive' = archive \cup movidos
    /\ jobs' = [jobs EXCEPT ![j].at = "platform moved"]
    /\ UNCHANGED <<age, owner>>

DropPlatform(j) ==
    /\ jobs[j] # Off /\ jobs[j].at = "platform moved"
    /\ archive' = archive \ (Of(Platform) \cap Older({"dead"}))
    /\ jobs' = [jobs EXCEPT ![j].at = "done"]
    /\ UNCHANGED <<age, owner, hot>>

PlatformFails(j) ==
    /\ jobs[j] # Off /\ jobs[j].at \in {"platform", "platform moved"}
    /\ jobs' = [jobs EXCEPT ![j].at = "done", ![j].failed = @ \cup {Platform}]
    /\ UNCHANGED <<age, owner, hot, archive>>

\* The answer is given, or the process dies: what is open is rolled back.
Stops(j) ==
    /\ jobs[j] # Off
    /\ jobs' = [jobs EXCEPT ![j] = Off]
    /\ UNCHANGED <<age, owner, hot, archive>>

AuditNext ==
    \/ \E e \in Events : GrowsOld(e) \/ \E o \in Owners : Record(e, o)
    \/ \E j \in Jobs :
        \/ Run(j) \/ MovePlatform(j) \/ DropPlatform(j) \/ PlatformFails(j) \/ Stops(j)
        \/ \E batch \in SUBSET Tenants : NextBatch(j, batch)
        \/ \E t \in Tenants : Move(j, t) \/ Commit(j, t) \/ TransactionFails(j, t)

AuditSpec == AuditInit /\ [][AuditNext]_auditVars

-----------------------------------------------------------------------------
AuditTypeOK ==
    /\ age \in [Events -> {"none", "hot", "old", "dead"}]
    /\ owner \in [Events -> Owners]
    /\ hot \cup archive \subseteq Events
    /\ jobs \in [Jobs -> Runs \cup {Off}]

Finished(j) == jobs[j] # Off /\ jobs[j].at = "done"

\* What a run that is done says is true ("nao rejoga"): of the owners it does not count
\* as failed, nothing is hot that was 30 days old when it began, and nothing is kept that
\* was two years old.  And however many runs there are, whatever fails or dies, an event
\* is in one table, in one only, and nowhere only after its two years.
EventsAreKeptOnce ==
    /\ hot \cap archive = {}
    /\ \A e \in Events : age[e] \in {"hot", "old"} => e \in hot \cup archive
    /\ \A j \in Jobs : Finished(j) =>
        \A e \in Events : owner[e] \notin jobs[j].failed =>
            /\ e \in jobs[j].began.old => e \notin hot
            /\ e \in jobs[j].began.dead => e \notin archive

=============================================================================
