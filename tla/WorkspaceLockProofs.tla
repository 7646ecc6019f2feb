------------------------- MODULE WorkspaceLockProofs -------------------------
(***************************************************************************)
(* Proofs about WorkspaceLock for every set of tasks, locks, transactions  *)
(* and processes, every time to live and every bound.                      *)
(***************************************************************************)
EXTENDS WorkspaceLock, TLAPS

\* The lock columns a transaction copied when it was prepared still hold while
\* it is unfinished.
TxLockIntact ==
    \A x \in TxIds : Unfinished(x) =>
        /\ txs[x].lock \in LockIds
        /\ locks[txs[x].lock].status # "ABSENT"
        /\ locks[txs[x].lock].mode = "WRITE"
        /\ locks[txs[x].lock].task = txs[x].task

\* The program never assigns the state APPLYING.
NeverApplying == \A x \in TxIds : txs[x].state # "APPLYING"

\* The inductive invariant of the program's own runs.  WriteExcludesAll keeps
\* a second lock from being prepared on, UnfinishedOwnsWorkspace carries that
\* over the expiry of the lock, and TxLockIntact makes prepare() find the
\* transaction that is already there.
SessionInv ==
    /\ TypeOK
    /\ NeverApplying
    /\ TxLockIntact
    /\ WriteExcludesAll
    /\ UnfinishedOwnsWorkspace
    /\ OneUnfinished

-----------------------------------------------------------------------------
(* Helpers *)

\* Expiring rows keeps their types, keys and columns and activates nothing.
LEMMA MarkExpiredFacts ==
    ASSUME TypeOK
    PROVE  /\ MarkExpired(locks) \in [LockIds -> LockRow]
           /\ \A l \in LockIds :
                 /\ Active(MarkExpired(locks), l) => Active(locks, l)
                 /\ MarkExpired(locks)[l].mode = locks[l].mode
                 /\ MarkExpired(locks)[l].task = locks[l].task
                 /\ MarkExpired(locks)[l].status = "ABSENT" <=> locks[l].status = "ABSENT"
<1>1. ASSUME NEW l \in LockIds
      PROVE  /\ MarkExpired(locks)[l] \in LockRow
             /\ Active(MarkExpired(locks), l) => Active(locks, l)
             /\ MarkExpired(locks)[l].mode = locks[l].mode
             /\ MarkExpired(locks)[l].task = locks[l].task
             /\ MarkExpired(locks)[l].status = "ABSENT" <=> locks[l].status = "ABSENT"
  <2>1. locks[l] \in LockRow
    BY DEF TypeOK
  <2>2. CASE Active(locks, l) /\ locks[l].left < 0
    <3>1. MarkExpired(locks)[l] = [locks[l] EXCEPT !.status = "EXPIRED"]
      BY <2>2 DEF MarkExpired
    <3>2. QED
      BY <2>1, <2>2, <3>1 DEF LockRow, LockStatus, Active
  <2>3. CASE ~(Active(locks, l) /\ locks[l].left < 0)
    <3>1. MarkExpired(locks)[l] = locks[l]
      BY <2>3 DEF MarkExpired
    <3>2. QED
      BY <2>1, <3>1 DEF Active
  <2>4. QED
    BY <2>2, <2>3
<1>2. MarkExpired(locks) \in [LockIds -> LockRow]
  BY <1>1 DEF MarkExpired
<1>3. QED
  BY <1>1, <1>2

\* A row that acquire() inserts is a lock row.
LEMMA NewLockType ==
    ASSUME NEW t \in Tasks \union {NoTask}, NEW m \in Modes
    PROVE  NewLock(t, m) \in LockRow
BY LockConstants DEF NewLock, LockRow, LockStatus

\* Releasing a lock keeps the row's columns, activates nothing and touches no
\* other row.
LEMMA ReleaseFacts ==
    ASSUME TypeOK, NEW k \in LockIds \union {NoLock}
    PROVE  /\ ReleaseIfActive(k) \in [LockIds -> LockRow]
           /\ \A l \in LockIds :
                 /\ Active(ReleaseIfActive(k), l) => Active(locks, l)
                 /\ ReleaseIfActive(k)[l].mode = locks[l].mode
                 /\ ReleaseIfActive(k)[l].task = locks[l].task
                 /\ ReleaseIfActive(k)[l].status = "ABSENT" <=> locks[l].status = "ABSENT"
<1>1. CASE k # NoLock /\ Active(locks, k)
  <2>1. k \in LockIds
    BY <1>1
  <2>2. ReleaseIfActive(k) = [locks EXCEPT ![k].status = "RELEASED"]
    BY <1>1 DEF ReleaseIfActive
  <2>3. ASSUME NEW l \in LockIds
        PROVE  /\ ReleaseIfActive(k)[l] \in LockRow
               /\ Active(ReleaseIfActive(k), l) => Active(locks, l)
               /\ ReleaseIfActive(k)[l].mode = locks[l].mode
               /\ ReleaseIfActive(k)[l].task = locks[l].task
               /\ ReleaseIfActive(k)[l].status = "ABSENT" <=> locks[l].status = "ABSENT"
    <3>1. locks[l] \in LockRow
      BY DEF TypeOK
    <3>2. QED
      BY <1>1, <2>1, <2>2, <3>1 DEF TypeOK, LockRow, LockStatus, Active
  <2>4. ReleaseIfActive(k) \in [LockIds -> LockRow]
    BY <2>1, <2>2, <2>3 DEF TypeOK
  <2>5. QED
    BY <2>3, <2>4
<1>2. CASE ~(k # NoLock /\ Active(locks, k))
  <2>1. ReleaseIfActive(k) = locks
    BY <1>2 DEF ReleaseIfActive
  <2>2. QED
    BY <2>1 DEF TypeOK
<1>3. QED
  BY <1>1, <1>2
\* What a step that grants no lock does to the lock table.
QuietLocks ==
    \A l \in LockIds :
        /\ Active(locks', l) => Active(locks, l)
        /\ locks'[l].mode = locks[l].mode
        /\ locks'[l].task = locks[l].task
        /\ locks'[l].status = "ABSENT" <=> locks[l].status = "ABSENT"

\* The lock service's steps that grant nothing are quiet and typed.
LEMMA QuietLockStep ==
    ASSUME TypeOK,
           \/ \E t \in Tasks : AcquireRecoveryRequired(t)
           \/ \E t \in Tasks, m \in Modes : AcquireConflict(t, m)
           \/ \E l \in LockIds, v \in 1..MaxVersion : Heartbeat(l, v)
           \/ \E l \in LockIds : ForceRelease(l)
           \/ \E l \in LockIds : ReleaseUnused(l)
           \/ Tick
    PROVE  QuietLocks /\ TypeOK' /\ txs' = txs
<1>1. ASSUME NEW t \in Tasks, AcquireRecoveryRequired(t)
      PROVE  QuietLocks /\ TypeOK' /\ txs' = txs
  <2>1. lockAlert' \in [Tasks -> AlertStates]
    BY <1>1 DEF TypeOK, AcquireRecoveryRequired, EmitLockAlert, AlertStates
  <2>2. QED
    BY <1>1, <2>1, MarkExpiredFacts DEF TypeOK, AcquireRecoveryRequired, QuietLocks
<1>2. ASSUME NEW t \in Tasks, NEW m \in Modes, AcquireConflict(t, m)
      PROVE  QuietLocks /\ TypeOK' /\ txs' = txs
  BY <1>2, MarkExpiredFacts DEF TypeOK, AcquireConflict, QuietLocks
<1>3. ASSUME NEW l \in LockIds, NEW v \in 1..MaxVersion, Heartbeat(l, v)
      PROVE  QuietLocks /\ TypeOK' /\ txs' = txs
  <2>1. locks[l] \in LockRow
    BY DEF TypeOK
  <2>2. locks' = [locks EXCEPT ![l] = [locks[l] EXCEPT !.version = locks[l].version + 1, !.left = Ttl]]
    BY <1>3 DEF Heartbeat, TypeOK
  <2>3. locks' \in [LockIds -> LockRow]
    <3> DEFINE v1 == locks[l].version + 1
    <3>0. v1 \in Nat /\ Ttl \in -1..Ttl
      BY <2>1, LockConstants DEF LockRow
    <3> HIDE DEF v1
    <3>1. [locks[l] EXCEPT !.version = v1, !.left = Ttl] \in LockRow
      BY <2>1, <3>0 DEF LockRow
    <3>2. QED
      BY <2>2, <3>1 DEF TypeOK, v1
  <2>4. QuietLocks
    BY <2>1, <2>2, LockConstants DEF TypeOK, LockRow, QuietLocks, Active
  <2>5. QED
    BY <1>3, <2>3, <2>4 DEF TypeOK, Heartbeat
<1>4. ASSUME NEW l \in LockIds, ForceRelease(l)
      PROVE  QuietLocks /\ TypeOK' /\ txs' = txs
  <2>1. locks[l] \in LockRow
    BY DEF TypeOK
  <2>2. locks' = [locks EXCEPT ![l] = [locks[l] EXCEPT !.status = "RELEASED", !.version = locks[l].version + 1]]
    BY <1>4 DEF ForceRelease, TypeOK
  <2>3. locks' \in [LockIds -> LockRow]
    <3> DEFINE v1 == locks[l].version + 1
    <3>0. v1 \in Nat
      BY <2>1 DEF LockRow
    <3> HIDE DEF v1
    <3>1. [locks[l] EXCEPT !.status = "RELEASED", !.version = v1] \in LockRow
      BY <2>1, <3>0 DEF LockRow, LockStatus
    <3>2. QED
      BY <2>2, <3>1 DEF TypeOK, v1
  <2>4. QuietLocks
    BY <1>4, <2>1, <2>2 DEF TypeOK, LockRow, QuietLocks, Active, ForceRelease
  <2>5. QED
    BY <1>4, <2>3, <2>4 DEF TypeOK, ForceRelease
<1>5. ASSUME NEW l \in LockIds, ReleaseUnused(l)
      PROVE  QuietLocks /\ TypeOK' /\ txs' = txs
  BY <1>5, ReleaseFacts DEF TypeOK, ReleaseUnused, QuietLocks
<1>6. ASSUME Tick
      PROVE  QuietLocks /\ TypeOK' /\ txs' = txs
  <2>1. ASSUME NEW l \in LockIds
        PROVE  /\ locks'[l] \in LockRow
               /\ Active(locks', l) => Active(locks, l)
               /\ locks'[l].mode = locks[l].mode
               /\ locks'[l].task = locks[l].task
               /\ locks'[l].status = "ABSENT" <=> locks[l].status = "ABSENT"
    <3>1. locks[l] \in LockRow
      BY DEF TypeOK
    <3>2. locks'[l] = IF Active(locks, l) /\ locks[l].left >= 0
                      THEN [locks[l] EXCEPT !.left = locks[l].left - 1]
                      ELSE locks[l]
      BY <1>6 DEF Tick
    <3>3. QED
      BY <3>1, <3>2, LockConstants DEF LockRow, Active
  <2>2. locks' \in [LockIds -> LockRow]
    BY <1>6, <2>1 DEF Tick
  <2>3. QED
    BY <1>6, <2>1, <2>2 DEF Tick, TypeOK, QuietLocks
<1>7. QED
  BY <1>1, <1>2, <1>3, <1>4, <1>5, <1>6

\* A transaction row ends in state s; nothing else of the table changes.
TxMovesTo(x, s) ==
    /\ txs'[x].state = s
    /\ txs'[x].task = txs[x].task
    /\ txs'[x].lock = txs[x].lock
    /\ \A y \in TxIds : y # x => txs'[y] = txs[y]

\* The ways a transaction ends are quiet and typed, and it is finished after.
LEMMA EndTxStep ==
    ASSUME TypeOK, NEW x \in TxIds,
           Commit(x) \/ MarkExecutionFailed(x) \/ RollbackConflict(x) \/ ResolveByRollback(x)
    PROVE  /\ QuietLocks
           /\ TypeOK'
           /\ \E s \in {"COMMITTED", "ROLLED_BACK", "CONFLICT"} : TxMovesTo(x, s)
<1>1. txs[x] \in TxRow /\ txs[x].lock \in LockIds \union {NoLock}
  BY DEF TypeOK, TxRow
<1>2. \E s \in {"COMMITTED", "ROLLED_BACK", "CONFLICT"} :
         txs' = [txs EXCEPT ![x] = [txs[x] EXCEPT !.state = s]]
  BY DEF TypeOK, Commit, MarkExecutionFailed, RollbackConflict, ResolveByRollback
<1>3. PICK s \in {"COMMITTED", "ROLLED_BACK", "CONFLICT"} :
         txs' = [txs EXCEPT ![x] = [txs[x] EXCEPT !.state = s]]
  BY <1>2
<1>4. TxMovesTo(x, s) /\ txs' \in [TxIds -> TxRow]
  BY <1>1, <1>3 DEF TypeOK, TxRow, TxStates, TxMovesTo
<1>5. locks' = locks \/ locks' = ReleaseIfActive(txs[x].lock)
  BY DEF Commit, MarkExecutionFailed, RollbackConflict, ResolveByRollback
<1>6. QuietLocks /\ locks' \in [LockIds -> LockRow]
  BY <1>1, <1>5, ReleaseFacts DEF QuietLocks, TypeOK
<1>7. lockAlert' \in [Tasks -> AlertStates] /\ txAlert' \in [Tasks -> AlertStates]
  BY DEF TypeOK, Commit, MarkExecutionFailed, RollbackConflict, ResolveByRollback,
         ResolveAlerts, AlertStates
<1>8. pending' = pending
  BY DEF Commit, MarkExecutionFailed, RollbackConflict, ResolveByRollback
<1>9. QED
  BY <1>4, <1>6, <1>7, <1>8 DEF TypeOK
\* acquire() -> ACQUIRED keeps the types.
LEMMA GrantedType ==
    ASSUME TypeOK, NEW t \in Tasks, NEW m \in Modes, NEW l \in LockIds, AcquireGranted(t, m, l)
    PROVE  TypeOK'
BY MarkExpiredFacts, NewLockType DEF TypeOK, AcquireGranted

\* prepare() keeps the types.
LEMMA PrepareType ==
    ASSUME TypeOK, NEW t \in Tasks, NEW l \in LockIds, NEW x \in TxIds, Prepare(t, l, x)
    PROVE  TypeOK'
<1>1. [task |-> t, lock |-> l, state |-> "PREPARED"] \in TxRow
  BY DEF TxRow, TxStates
<1>2. QED
  BY <1>1 DEF TypeOK, Prepare

\* The recovery scan keeps the types.
LEMMA ScanType ==
    ASSUME TypeOK, ScanProject
    PROVE  TypeOK'
BY DEF TypeOK, ScanProject, AlertStates

\* acquire() with an own session keeps the types.
LEMMA OwnSessionType ==
    ASSUME TypeOK, AcquireOwnSession
    PROVE  TypeOK'
<1>1. ASSUME NEW i \in Instances, NEW t \in Tasks, NEW m \in Modes, AcquireCheck(i, t, m)
      PROVE  TypeOK'
  <2>1. [task |-> t, mode |-> m] \in Request
    BY DEF Request
  <2>2. QED
    BY <1>1, <2>1 DEF TypeOK, AcquireCheck
<1>2. ASSUME NEW i \in Instances, NEW l \in LockIds, AcquireInsert(i, l)
      PROVE  TypeOK'
  <2>1. NoRequest \in Request
    BY DEF NoRequest, Request, Modes
  <2>2. NewLock(pending[i].task, pending[i].mode) \in LockRow
    BY NewLockType DEF TypeOK, Request
  <2>3. QED
    BY <1>2, <2>1, <2>2 DEF TypeOK, AcquireInsert
<1>3. QED
  BY <1>1, <1>2 DEF AcquireOwnSession

\* Every step keeps the types of the tables.
LEMMA TypeStep ==
    ASSUME TypeOK, [Next]_lockVars
    PROVE  TypeOK'
<1>1. CASE Acquire
  BY <1>1, QuietLockStep, GrantedType DEF Acquire
<1>2. CASE LockStep
  BY <1>2, QuietLockStep DEF LockStep
<1>3. CASE TxStep
  BY <1>3, PrepareType, EndTxStep DEF TxStep
<1>4. CASE ScanProject
  BY <1>4, ScanType
<1>5. CASE Tick
  BY <1>5, QuietLockStep
<1>6. CASE AcquireOwnSession
  BY <1>6, OwnSessionType
<1>7. CASE UNCHANGED lockVars
  BY <1>7 DEF lockVars, TypeOK
<1>8. QED
  BY <1>1, <1>2, <1>3, <1>4, <1>5, <1>6, <1>7 DEF Next, SessionNext

\* The initial tables are typed.
LEMMA InitType == Init => TypeOK
BY LockConstants DEF Init, TypeOK, AbsentLock, AbsentTx, NoRequest, LockRow, TxRow, Request,
   Modes, LockStatus, TxStates, AlertStates

\* Every column keeps its type, whoever calls the lock service.
THEOREM TypeCorrect == Spec => []TypeOK
<1>1. Init => TypeOK
  BY InitType
<1>2. TypeOK /\ [Next]_lockVars => TypeOK'
  BY TypeStep
<1>3. QED
  BY <1>1, <1>2, PTL DEF Spec

-----------------------------------------------------------------------------
(* One writer, with any number of processes racing in acquire() *)

\* A quiet step cannot create a second writer.
LEMMA QuietKeepsSingleWriter ==
    ASSUME SingleWriter, QuietLocks
    PROVE  SingleWriter'
BY DEF SingleWriter, QuietLocks, ActiveWrite, Active

\* At most one ACTIVE WRITE lock: the conflict check where checks and INSERT
\* are one step, the unique index where they are not.
THEOREM SingleWriterCorrect == Spec => []SingleWriter
<1>1. Init => TypeOK /\ SingleWriter
  BY InitType DEF Init, SingleWriter, ActiveWrite, Active, AbsentLock
<1>2. ASSUME TypeOK, SingleWriter, [Next]_lockVars
      PROVE  SingleWriter'
  <2>1. ASSUME NEW t \in Tasks, NEW m \in Modes, NEW l \in LockIds, AcquireGranted(t, m, l)
        PROVE  SingleWriter'
    BY <1>2, <2>1, MarkExpiredFacts
       DEF AcquireGranted, SingleWriter, ActiveWrite, Active, Conflicts, NewLock, TypeOK
  <2>2. ASSUME NEW i \in Instances, NEW l \in LockIds, AcquireInsert(i, l)
        PROVE  SingleWriter'
    BY <1>2, <2>2 DEF AcquireInsert, SingleWriter, ActiveWrite, Active, NewLock, TypeOK
  <2>3. ASSUME NEW i \in Instances, NEW t \in Tasks, NEW m \in Modes, AcquireCheck(i, t, m)
        PROVE  SingleWriter'
    BY <1>2, <2>3 DEF AcquireCheck, SingleWriter, ActiveWrite, Active
  <2>4. ASSUME NEW x \in TxIds, NEW t \in Tasks, NEW l \in LockIds, Prepare(t, l, x)
        PROVE  SingleWriter'
    BY <1>2, <2>4 DEF Prepare, SingleWriter, ActiveWrite, Active
  <2>5. CASE ScanProject
    BY <1>2, <2>5 DEF ScanProject, SingleWriter, ActiveWrite, Active
  <2>6. CASE UNCHANGED lockVars
    BY <1>2, <2>6 DEF lockVars, SingleWriter, ActiveWrite, Active
  <2>7. CASE Acquire
    BY <1>2, <2>1, <2>7, QuietLockStep, QuietKeepsSingleWriter DEF Acquire
  <2>8. CASE LockStep \/ Tick
    BY <1>2, <2>8, QuietLockStep, QuietKeepsSingleWriter DEF LockStep
  <2>9. CASE TxStep
    BY <1>2, <2>4, <2>9, EndTxStep, QuietKeepsSingleWriter DEF TxStep
  <2>10. CASE AcquireOwnSession
    BY <2>2, <2>3, <2>10 DEF AcquireOwnSession
  <2>11. QED
    BY <1>2, <2>5, <2>6, <2>7, <2>8, <2>9, <2>10 DEF Next, SessionNext
<1>3. TypeOK /\ SingleWriter /\ [Next]_lockVars => (TypeOK /\ SingleWriter)'
  BY <1>2, TypeStep
<1>4. QED
  BY <1>1, <1>3, PTL DEF Spec

-----------------------------------------------------------------------------
(* Unfinished transactions, as the program runs: SessionSpec *)

\* A quiet step that leaves the transactions alone keeps the invariant.
LEMMA QuietKeepsSessionInv ==
    ASSUME SessionInv, QuietLocks, TypeOK', txs' = txs
    PROVE  SessionInv'
BY DEF SessionInv, QuietLocks, NeverApplying, TxLockIntact, WriteExcludesAll,
       UnfinishedOwnsWorkspace, OneUnfinished, Unfinished, ActiveWrite, Active

\* A quiet step that finishes a transaction keeps the invariant.
LEMMA EndKeepsSessionInv ==
    ASSUME SessionInv, QuietLocks, TypeOK', NEW x \in TxIds,
           NEW s \in {"COMMITTED", "ROLLED_BACK", "CONFLICT"}, TxMovesTo(x, s)
    PROVE  SessionInv'
<1>1. \A y \in TxIds : Unfinished(y)' => y # x /\ txs'[y] = txs[y] /\ Unfinished(y)
  BY DEF TxMovesTo, Unfinished
<1>2. NeverApplying'
  BY DEF SessionInv, NeverApplying, TxMovesTo
<1>3. TxLockIntact'
  BY <1>1 DEF SessionInv, TxLockIntact, QuietLocks
<1>4. WriteExcludesAll'
  BY DEF SessionInv, WriteExcludesAll, QuietLocks, ActiveWrite, Active
<1>5. UnfinishedOwnsWorkspace'
  BY <1>1 DEF SessionInv, UnfinishedOwnsWorkspace, QuietLocks, Active
<1>6. OneUnfinished'
  BY <1>1 DEF SessionInv, OneUnfinished
<1>7. QED
  BY <1>2, <1>3, <1>4, <1>5, <1>6 DEF SessionInv

\* Granting a lock keeps the invariant: nothing is unfinished then.
LEMMA GrantKeepsSessionInv ==
    ASSUME SessionInv, NEW t \in Tasks, NEW m \in Modes, NEW l \in LockIds,
           AcquireGranted(t, m, l)
    PROVE  SessionInv'
<1>1. TypeOK'
  BY GrantedType DEF SessionInv
<1>2. \A x \in TxIds : ~Unfinished(x)'
  BY DEF AcquireGranted, RequiresRecovery, Unfinished
<1>3. WriteExcludesAll'
  BY MarkExpiredFacts
     DEF SessionInv, AcquireGranted, WriteExcludesAll, ActiveWrite, Active, Conflicts, NewLock, TypeOK
<1>4. NeverApplying'
  BY DEF SessionInv, NeverApplying, AcquireGranted
<1>5. QED
  BY <1>1, <1>2, <1>3, <1>4
     DEF SessionInv, TxLockIntact, UnfinishedOwnsWorkspace, OneUnfinished

\* prepare() only looks for a transaction of its own lock, and yet it goes on
\* only when the project has no unfinished transaction at all.
LEMMA PrepareFindsNone ==
    ASSUME SessionInv, NEW t \in Tasks, NEW l \in LockIds, NEW x \in TxIds, Prepare(t, l, x)
    PROVE  \A y \in TxIds : ~Unfinished(y)
<1>1. Active(locks, l) /\ locks[l].task = t
  BY DEF Prepare, UsableWriteLock, ActiveWrite
<1>2. SUFFICES ASSUME NEW y \in TxIds, Unfinished(y)
               PROVE  FALSE
  OBVIOUS
<1>3. txs[y].lock = l
  BY <1>1, <1>2 DEF SessionInv, UnfinishedOwnsWorkspace
<1>4. txs[y].task = t /\ txs[y].state = "PREPARED"
  BY <1>1, <1>2, <1>3 DEF SessionInv, TxLockIntact, NeverApplying, Unfinished
<1>5. QED
  BY <1>3, <1>4 DEF Prepare, AlreadyPrepared

\* prepare() keeps the invariant: a transaction that were unfinished already
\* would own the usable lock, so prepare() would have found it.
LEMMA PrepareKeepsSessionInv ==
    ASSUME SessionInv, NEW t \in Tasks, NEW l \in LockIds, NEW x \in TxIds, Prepare(t, l, x)
    PROVE  SessionInv'
<1>1. TypeOK'
  BY PrepareType DEF SessionInv
<1>2. locks' = locks /\ Active(locks, l) /\ locks[l].mode = "WRITE" /\ locks[l].task = t
  BY DEF Prepare, UsableWriteLock, ActiveWrite
<1>3. \A y \in TxIds : ~Unfinished(y)
  BY PrepareFindsNone
<1>4. /\ txs'[x] = [task |-> t, lock |-> l, state |-> "PREPARED"]
      /\ \A y \in TxIds : y # x => txs'[y] = txs[y]
  BY DEF SessionInv, TypeOK, Prepare
<1>5. \A y \in TxIds : Unfinished(y)' => y = x
  BY <1>3, <1>4 DEF Unfinished
<1>6. NeverApplying'
  BY <1>4 DEF SessionInv, NeverApplying
<1>7. TxLockIntact'
  BY <1>2, <1>4, <1>5 DEF TxLockIntact, Active
<1>8. WriteExcludesAll'
  BY <1>2 DEF SessionInv, WriteExcludesAll, ActiveWrite, Active
<1>9. UnfinishedOwnsWorkspace'
  BY <1>2, <1>4, <1>5 DEF SessionInv, UnfinishedOwnsWorkspace, WriteExcludesAll, ActiveWrite, Active
<1>10. OneUnfinished'
  BY <1>5 DEF OneUnfinished
<1>11. QED
  BY <1>1, <1>6, <1>7, <1>8, <1>9, <1>10 DEF SessionInv

\* Every step of the program keeps the invariant.
LEMMA SessionStep ==
    ASSUME SessionInv, [SessionNext]_lockVars
    PROVE  SessionInv'
<1>1. TypeOK
  BY DEF SessionInv
<1>2. CASE Acquire
  BY <1>1, <1>2, QuietLockStep, QuietKeepsSessionInv, GrantKeepsSessionInv DEF Acquire
<1>3. CASE LockStep \/ Tick
  BY <1>1, <1>3, QuietLockStep, QuietKeepsSessionInv DEF LockStep
<1>4. CASE TxStep
  BY <1>1, <1>4, PrepareKeepsSessionInv, EndTxStep, EndKeepsSessionInv DEF TxStep
<1>5. CASE ScanProject
  <2>1. QuietLocks /\ txs' = txs
    BY <1>5 DEF ScanProject, QuietLocks, Active
  <2>2. QED
    BY <1>1, <1>5, <2>1, ScanType, QuietKeepsSessionInv
<1>6. CASE UNCHANGED lockVars
  <2>1. QuietLocks /\ txs' = txs /\ TypeOK'
    BY <1>1, <1>6 DEF lockVars, QuietLocks, Active, TypeOK
  <2>2. QED
    BY <2>1, QuietKeepsSessionInv
<1>7. QED
  BY <1>2, <1>3, <1>4, <1>5, <1>6 DEF SessionNext

\* The initial tables satisfy the invariant.
LEMMA SessionInit == Init => SessionInv
BY InitType DEF Init, SessionInv, NeverApplying, TxLockIntact, WriteExcludesAll,
   UnfinishedOwnsWorkspace, OneUnfinished, Unfinished, ActiveWrite, Active, AbsentLock, AbsentTx

\* The invariant of the program's own runs.
LEMMA SessionInvariance == SessionSpec => []SessionInv
<1>1. SessionInv /\ [SessionNext]_lockVars => SessionInv'
  BY SessionStep
<1>2. QED
  BY <1>1, SessionInit, PTL DEF SessionSpec

\* A WRITE lock excludes every other lock.
THEOREM WriteExclusion == SessionSpec => []WriteExcludesAll
<1>1. SessionInv => WriteExcludesAll
  BY DEF SessionInv
<1>2. QED
  BY <1>1, SessionInvariance, PTL

\* No lock but its own is ACTIVE while a transaction is unfinished: recovery
\* comes before the next writer, even after a lock expired or was forced open.
THEOREM RecoveryBeforeNextWriter == SessionSpec => []UnfinishedOwnsWorkspace
<1>1. SessionInv => UnfinishedOwnsWorkspace
  BY DEF SessionInv
<1>2. QED
  BY <1>1, SessionInvariance, PTL

\* A project has at most one unfinished transaction.
THEOREM AtMostOneUnfinished == SessionSpec => []OneUnfinished
<1>1. SessionInv => OneUnfinished
  BY DEF SessionInv
<1>2. QED
  BY <1>1, SessionInvariance, PTL

=============================================================================
