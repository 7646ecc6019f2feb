---------------------------- MODULE WorkspaceLock ----------------------------
(***************************************************************************)
(* The workspace locks of one project and the states of its task           *)
(* transactions: workspace/lock_service.py, TransactionManager.prepare,    *)
(* the two ways an execution ends (execution/orchestrator.py) and the      *)
(* recovery service with the alerts it opens and closes.  What a rollback  *)
(* does to files is module FileTransaction; here it succeeds or conflicts. *)
(*                                                                         *)
(* Time is relative: the column expires_at is kept as "left", the ticks    *)
(* until it is reached.  It saturates at -1, the first value for which     *)
(* _mark_expired's strict comparison holds.                                *)
(***************************************************************************)
EXTENDS Integers, FiniteSets

CONSTANTS
    Tasks,        \* change tasks of the project
    LockIds,      \* primary keys of workspace_locks (uuid4, unordered)
    TxIds,        \* primary keys of task_transactions, in creation order
    Instances,    \* processes that call acquire() without a session
    NoTask, NoLock,   \* the NULL of the task and lock columns
    Ttl,          \* ttl_seconds in ticks
    MaxVersion    \* bound: heartbeats and forced releases of one lock

ASSUME LockConstants ==
    /\ TxIds \subseteq Nat
    /\ NoTask \notin Tasks
    /\ NoLock \notin LockIds
    /\ Ttl \in Nat \ {0}
    /\ MaxVersion \in Nat \ {0}

VARIABLES
    locks,      \* rows of workspace_locks
    txs,        \* rows of task_transactions
    lockAlert,  \* per task, the alert "workspace lock recovery required"
    txAlert,    \* per task, the alert "transaction recovery required"
    pending     \* per process, an acquire() between its checks and its INSERT

lockVars == <<locks, txs, lockAlert, txAlert, pending>>

Modes == {"READ", "WRITE"}
LockStatus == {"ABSENT", "ACTIVE", "RELEASED", "EXPIRED"}
TxStates == {"ABSENT", "PREPARED", "APPLYING", "COMMITTED", "ROLLED_BACK", "CONFLICT"}
AlertStates == {"NONE", "OPEN", "RESOLVED"}

LockRow == [task: Tasks \union {NoTask}, mode: Modes, status: LockStatus,
            left: -1..Ttl, version: Nat]
TxRow == [task: Tasks \union {NoTask}, lock: LockIds \union {NoLock}, state: TxStates]
Request == [task: Tasks \union {NoTask}, mode: Modes]

AbsentLock == [task |-> NoTask, mode |-> "READ", status |-> "ABSENT", left |-> 0, version |-> 0]
AbsentTx == [task |-> NoTask, lock |-> NoLock, state |-> "ABSENT"]
NoRequest == [task |-> NoTask, mode |-> "READ"]

Active(ls, l) == ls[l].status = "ACTIVE"
ActiveWrite(ls, l) == Active(ls, l) /\ ls[l].mode = "WRITE"

\* States of a transaction that _requires_recovery counts.  APPLYING is never
\* assigned by the program; only tests and queries name it.
Unfinished(x) == txs[x].state \in {"PREPARED", "APPLYING"}

-----------------------------------------------------------------------------
(* Lock service *)

\* Mutant of MarkExpired: expiry is never noticed.
MarkExpiredNever(ls) == ls

\* _mark_expired: every acquire first expires what ran out of time.
MarkExpired(ls) ==
    [l \in LockIds |-> IF Active(ls, l) /\ ls[l].left < 0
                       THEN [ls[l] EXCEPT !.status = "EXPIRED"]
                       ELSE ls[l]]

\* Mutant of RequiresRecovery: only transactions of EXPIRED locks count.
RequiresRecoveryExpired ==
    \E x \in TxIds : Unfinished(x) /\ locks[txs[x].lock].status = "EXPIRED"

\* _requires_recovery.  Its second query (unfinished transactions of EXPIRED
\* locks) only finds what the first already found.
RequiresRecovery == \E x \in TxIds : Unfinished(x)

\* Mutant of Conflicts: a WRITE request overlooks readers.
ConflictsIgnoringReaders(ls, m) == \E l \in LockIds : ActiveWrite(ls, l)

\* WRITE conflicts with every ACTIVE lock, READ with an ACTIVE WRITE lock.
Conflicts(ls, m) ==
    \E l \in LockIds : Active(ls, l) /\ (m = "WRITE" \/ ls[l].mode = "WRITE")

NewLock(t, m) == [task |-> t, mode |-> m, status |-> "ACTIVE", left |-> Ttl, version |-> 1]

\* _emit_recovery_audit looks for an alert of the task whatever its status.
EmitLockAlert(t) ==
    IF lockAlert[t] = "NONE" THEN [lockAlert EXCEPT ![t] = "OPEN"] ELSE lockAlert

\* acquire() -> RECOVERY_REQUIRED
AcquireRecoveryRequired(t) ==
    /\ RequiresRecovery
    /\ locks' = MarkExpired(locks)
    /\ lockAlert' = EmitLockAlert(t)
    /\ UNCHANGED <<txs, txAlert, pending>>

\* acquire() -> CONFLICT
AcquireConflict(t, m) ==
    /\ ~RequiresRecovery
    /\ Conflicts(MarkExpired(locks), m)
    /\ locks' = MarkExpired(locks)
    /\ UNCHANGED <<txs, lockAlert, txAlert, pending>>

\* acquire() -> ACQUIRED inside a write transaction that is already open: the
\* caller's session (LazyWriteContext), or an own session in which
\* _mark_expired has just updated a row.  SQLite admits one writer, so checks
\* and INSERT are one step.
AcquireGranted(t, m, l) ==
    /\ ~RequiresRecovery
    /\ ~Conflicts(MarkExpired(locks), m)
    /\ locks[l].status = "ABSENT"
    /\ locks' = [MarkExpired(locks) EXCEPT ![l] = NewLock(t, m)]
    /\ UNCHANGED <<txs, lockAlert, txAlert, pending>>

\* acquire() with an own session and nothing to expire: the SELECTs run before
\* any BEGIN.  _LOCK_GUARD admits one such call per process.
AcquireCheck(i, t, m) ==
    /\ pending[i] = NoRequest
    /\ MarkExpired(locks) = locks
    /\ ~RequiresRecovery
    /\ ~Conflicts(locks, m)
    /\ pending' = [pending EXCEPT ![i] = [task |-> t, mode |-> m]]
    /\ UNCHANGED <<locks, txs, lockAlert, txAlert>>

\* ... and its INSERT, which only the unique index on ACTIVE WRITE rows can refuse.
AcquireInsert(i, l) ==
    /\ pending[i] # NoRequest
    /\ locks[l].status = "ABSENT"
    /\ locks' = IF pending[i].mode = "WRITE" /\ \E k \in LockIds : ActiveWrite(locks, k)
                THEN locks
                ELSE [locks EXCEPT ![l] = NewLock(pending[i].task, pending[i].mode)]
    /\ pending' = [pending EXCEPT ![i] = NoRequest]
    /\ UNCHANGED <<txs, lockAlert, txAlert>>

\* heartbeat(): needs an ACTIVE row and its current version.  A lock that is
\* past its time but not yet marked is revived.
Heartbeat(l, expected) ==
    /\ Active(locks, l)
    /\ locks[l].version = expected
    /\ locks[l].version < MaxVersion
    /\ locks' = [locks EXCEPT ![l].version = @ + 1, ![l].left = Ttl]
    /\ UNCHANGED <<txs, lockAlert, txAlert, pending>>

\* Mutant of ForceRelease: a status that the enum does not have.
ForceReleaseNewStatus(l) ==
    /\ locks[l].status # "ABSENT"
    /\ locks[l].version < MaxVersion
    /\ locks' = [locks EXCEPT ![l].status = "FORCE_RELEASED", ![l].version = @ + 1]
    /\ UNCHANGED <<txs, lockAlert, txAlert, pending>>

\* force_release(): no condition on the status or on the lock's transaction.
ForceRelease(l) ==
    /\ locks[l].status # "ABSENT"
    /\ locks[l].version < MaxVersion
    /\ locks' = [locks EXCEPT ![l].status = "RELEASED", ![l].version = @ + 1]
    /\ UNCHANGED <<txs, lockAlert, txAlert, pending>>

\* _release_lock and the release in resolve_by_rollback: only an ACTIVE row,
\* and the version stays.
ReleaseIfActive(l) ==
    IF l # NoLock /\ Active(locks, l)
    THEN [locks EXCEPT ![l].status = "RELEASED"]
    ELSE locks

\* An execution that took the lock and ends before it has a transaction
\* (prepare() raised): release_lock alone.
ReleaseUnused(l) ==
    /\ Active(locks, l)
    /\ \A x \in TxIds : Unfinished(x) => txs[x].lock # l
    /\ locks' = ReleaseIfActive(l)
    /\ UNCHANGED <<txs, lockAlert, txAlert, pending>>

Tick ==
    /\ \E l \in LockIds : Active(locks, l) /\ locks[l].left >= 0
    /\ locks' = [l \in LockIds |-> IF Active(locks, l) /\ locks[l].left >= 0
                                   THEN [locks[l] EXCEPT !.left = @ - 1]
                                   ELSE locks[l]]
    /\ UNCHANGED <<txs, lockAlert, txAlert, pending>>

-----------------------------------------------------------------------------
(* Transactions *)

\* _active_write_lock: rejects a lock at its expiry time already.
UsableWriteLock(t, l) ==
    /\ ActiveWrite(locks, l)
    /\ locks[l].task = t
    /\ locks[l].left > 0

\* Mutant of AlreadyPrepared: prepare() is not idempotent.
NeverPrepared(t, l) == FALSE

\* prepare() finds the PREPARED transaction of the lock, if there is one, and
\* returns it: only the other case changes state.
AlreadyPrepared(t, l) ==
    \E x \in TxIds : txs[x].task = t /\ txs[x].lock = l /\ txs[x].state = "PREPARED"

NextTx(x) ==
    /\ txs[x].state = "ABSENT"
    /\ \A y \in TxIds : y < x => txs[y].state # "ABSENT"

Prepare(t, l, x) ==
    /\ UsableWriteLock(t, l)
    /\ ~AlreadyPrepared(t, l)
    /\ NextTx(x)
    /\ txs' = [txs EXCEPT ![x] = [task |-> t, lock |-> l, state |-> "PREPARED"]]
    /\ UNCHANGED <<locks, lockAlert, txAlert, pending>>

\* The successful end of execute_task.  The trigger on task_transactions
\* aborts the UPDATE unless the transaction's lock is an ACTIVE WRITE lock.
Commit(x) ==
    /\ txs[x].state = "PREPARED"
    /\ ActiveWrite(locks, txs[x].lock)
    /\ txs' = [txs EXCEPT ![x].state = "COMMITTED"]
    /\ locks' = ReleaseIfActive(txs[x].lock)
    /\ UNCHANGED <<lockAlert, txAlert, pending>>

\* The failed end: _mark_execution_failed, then release_lock.
MarkExecutionFailed(x) ==
    /\ txs[x].state = "PREPARED"
    /\ txs' = [txs EXCEPT ![x].state = "CONFLICT"]
    /\ locks' = ReleaseIfActive(txs[x].lock)
    /\ UNCHANGED <<lockAlert, txAlert, pending>>

CanRollBack(x) == txs[x].state \in {"PREPARED", "APPLYING", "COMMITTED", "CONFLICT"}

\* rollback() meets a file it may not overwrite.  The handler swallows the
\* exception inside its session, so the CONFLICT state is committed.
RollbackConflict(x) ==
    /\ CanRollBack(x)
    /\ txs' = [txs EXCEPT ![x].state = "CONFLICT"]
    /\ UNCHANGED <<locks, lockAlert, txAlert, pending>>

ResolveAlerts(alerts) ==
    [t \in Tasks |-> IF alerts[t] = "OPEN" THEN "RESOLVED" ELSE alerts[t]]

\* resolve_by_rollback(): a transaction that is already ROLLED_BACK is a no-op
\* for rollback() but the lock and the alerts are still settled.
ResolveByRollback(x) ==
    /\ CanRollBack(x) \/ txs[x].state = "ROLLED_BACK"
    /\ txs' = [txs EXCEPT ![x].state = "ROLLED_BACK"]
    /\ locks' = ReleaseIfActive(txs[x].lock)
    /\ lockAlert' = ResolveAlerts(lockAlert)
    /\ txAlert' = ResolveAlerts(txAlert)
    /\ UNCHANGED pending

NeedsRecovery(x) == txs[x].state \in {"PREPARED", "APPLYING", "CONFLICT"}

\* scan_project(): opens an alert for the task of every unfinished or
\* conflicting transaction unless one is OPEN.
ScanProject ==
    /\ \E x \in TxIds : NeedsRecovery(x)
    /\ txAlert' = [t \in Tasks |-> IF \E x \in TxIds : NeedsRecovery(x) /\ txs[x].task = t
                                   THEN "OPEN" ELSE txAlert[t]]
    /\ UNCHANGED <<locks, txs, lockAlert, pending>>

-----------------------------------------------------------------------------
Init ==
    /\ locks = [l \in LockIds |-> AbsentLock]
    /\ txs = [x \in TxIds |-> AbsentTx]
    /\ lockAlert = [t \in Tasks |-> "NONE"]
    /\ txAlert = [t \in Tasks |-> "NONE"]
    /\ pending = [i \in Instances |-> NoRequest]

Acquire ==
    \E t \in Tasks : \/ AcquireRecoveryRequired(t)
                     \/ \E m \in Modes : \/ AcquireConflict(t, m)
                                         \/ \E l \in LockIds : AcquireGranted(t, m, l)

AcquireOwnSession ==
    \E i \in Instances : \/ \E t \in Tasks, m \in Modes : AcquireCheck(i, t, m)
                         \/ \E l \in LockIds : AcquireInsert(i, l)

LockStep == \E l \in LockIds : \/ \E v \in 1..MaxVersion : Heartbeat(l, v)
                               \/ ForceRelease(l)
                               \/ ReleaseUnused(l)

TxStep == \E x \in TxIds : \/ \E t \in Tasks, l \in LockIds : Prepare(t, l, x)
                           \/ Commit(x)
                           \/ MarkExecutionFailed(x)
                           \/ RollbackConflict(x)
                           \/ ResolveByRollback(x)

\* Every acquire runs inside an open write transaction: how the program runs.
SessionNext == Acquire \/ LockStep \/ TxStep \/ ScanProject \/ Tick

\* ... and with callers of acquire() that pass no session.
Next == SessionNext \/ AcquireOwnSession

SessionSpec == Init /\ [][SessionNext]_lockVars
Spec == Init /\ [][Next]_lockVars

\* Time passes, and somebody keeps asking for the workspace: expiry is only
\* noticed by the next acquire().
Fairness == WF_lockVars(Tick) /\ WF_lockVars(Acquire)
FairSessionSpec == SessionSpec /\ Fairness

-----------------------------------------------------------------------------
(* Properties *)

\* Every column has a value of its type.
TypeOK ==
    /\ locks \in [LockIds -> LockRow]
    /\ txs \in [TxIds -> TxRow]
    /\ lockAlert \in [Tasks -> AlertStates]
    /\ txAlert \in [Tasks -> AlertStates]
    /\ pending \in [Instances -> Request]

\* At most one lock of the project is an ACTIVE WRITE lock, whatever callers of
\* acquire() interleave (lock_service.acquire, the unique index).
SingleWriter ==
    \A l, k \in LockIds : ActiveWrite(locks, l) /\ ActiveWrite(locks, k) => l = k

\* An ACTIVE WRITE lock excludes every other ACTIVE lock (lock_service.acquire).
WriteExcludesAll ==
    \A l, k \in LockIds : ActiveWrite(locks, l) /\ Active(locks, k) => l = k

\* While a transaction is unfinished no lock but its own can be ACTIVE, even
\* after its lock expired or was force-released: a new writer waits for the
\* recovery (lock_service._requires_recovery).
UnfinishedOwnsWorkspace ==
    \A x \in TxIds, l \in LockIds : Unfinished(x) /\ Active(locks, l) => txs[x].lock = l

\* The project never has two unfinished transactions, although
\* TransactionManager.prepare only looks for one of the same lock.
OneUnfinished ==
    \A x, y \in TxIds : Unfinished(x) /\ Unfinished(y) => x = y

\* A lock whose owner has stopped does not stay ACTIVE for ever, as long as the
\* model has a row left for the next acquire() (lock_service._mark_expired).
AbandonedLockExpires ==
    \A l \in LockIds :
        Active(locks, l) ~> (~Active(locks, l) \/ \A k \in LockIds : locks[k].status # "ABSENT")

\* While a rollback of a transaction has failed and its WRITE lock is still
\* held, no other lock is granted (rollback, lock_service.acquire).
FailedRollbackKeepsLock ==
    [][\A x \in TxIds, l \in LockIds :
          /\ txs[x].state = "CONFLICT"
          /\ Active(locks, txs[x].lock)
          /\ l # txs[x].lock
          => ~(Active(locks', l) /\ ~Active(locks, l))]_lockVars

=============================================================================
