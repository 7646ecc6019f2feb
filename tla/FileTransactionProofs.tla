------------------------ MODULE FileTransactionProofs ------------------------
(***************************************************************************)
(* Proofs about FileTransaction: it implements the lock and transaction    *)
(* protocol of WorkspaceLock, and rollback leaves other writers' contents  *)
(* alone, restores what its transaction replaced and conflicts only with   *)
(* others, for every workspace, every number of changes and every edit.    *)
(***************************************************************************)
EXTENDS FileTransaction, WorkspaceLockProofs

\* A transaction that exists belongs to a task.
TxTasks == \A x \in TxIds : txs[x].state # "ABSENT" => txs[x].task \in Tasks

\* A tool in progress works for an existing transaction, on a path.
ToolSound ==
    tool # NoTool => /\ tool.tx \in TxIds
                     /\ tool.path \in Paths
                     /\ txs[tool.tx].state # "ABSENT"

\* A rollback in progress only has rows of its own transaction left.
UndoSound ==
    undo # NoUndo => /\ undo.tx \in TxIds
                     /\ undo.todo \subseteq ChangesOf(undo.tx)

FileInv ==
    /\ TypeOK
    /\ FileTypeOK
    /\ TxTasks
    /\ ToolSound
    /\ UndoSound

-----------------------------------------------------------------------------
(* The file transactions implement the lock protocol *)

\* Every step on files is a step of the lock protocol or leaves it alone.
LEMMA StepImplements ==
    ASSUME UndoSound, [FileNext]_vars
    PROVE  [SessionNext]_lockVars
<1>1. CASE TakeWriteLock
  BY <1>1 DEF TakeWriteLock, SessionNext, Acquire, Modes
<1>2. CASE \E t \in Tasks, l \in LockIds, x \in TxIds : PrepareFiles(t, l, x)
  BY <1>2 DEF PrepareFiles, SessionNext, TxStep
<1>3. CASE \E x \in TxIds : EndExecution(x)
  BY <1>3 DEF EndExecution, SessionNext, TxStep
<1>4. CASE Tool
  BY <1>4 DEF Tool, ToolCheck, ToolBackup, ToolWrite, ToolRefused, ToolRecord
<1>5. CASE Environment
  BY <1>5 DEF Environment, Crash, UserEdit
<1>6. CASE LockOnly
  BY <1>6 DEF LockOnly, SessionNext
<1>7. CASE UNCHANGED vars
  BY <1>7 DEF vars
<1>8. CASE (\E x \in TxIds : RollbackBegin(x)) \/ RollbackUndo
  BY <1>8 DEF RollbackBegin, RollbackUndo
<1>9. CASE RollbackStop
  <2>1. undo.tx \in TxIds /\ RollbackConflict(undo.tx)
    BY <1>9 DEF RollbackStop, UndoSound, NoUndo
  <2>2. QED
    BY <2>1 DEF SessionNext, TxStep
<1>10. CASE RollbackDone
  <2>1. undo.tx \in TxIds /\ ResolveByRollback(undo.tx)
    BY <1>10 DEF RollbackDone, UndoSound
  <2>2. QED
    BY <2>1 DEF SessionNext, TxStep
<1>11. QED
  BY <1>1, <1>2, <1>3, <1>4, <1>5, <1>6, <1>7, <1>8, <1>9, <1>10 DEF FileNext, CoreNext, Rollback

-----------------------------------------------------------------------------
(* The invariant *)

\* A transaction that exists goes on existing, for the same task.
LEMMA TransactionsStay ==
    ASSUME TypeOK, TxTasks, [SessionNext]_lockVars
    PROVE  /\ TxTasks'
           /\ \A x \in TxIds : txs[x].state # "ABSENT" =>
                 txs'[x].state # "ABSENT" /\ txs'[x].task = txs[x].task
<1>1. CASE txs' = txs
  BY <1>1 DEF TxTasks
<1>2. ASSUME NEW x \in TxIds, NEW t \in Tasks, NEW l \in LockIds, Prepare(t, l, x)
      PROVE  /\ TxTasks'
             /\ \A y \in TxIds : txs[y].state # "ABSENT" =>
                   txs'[y].state # "ABSENT" /\ txs'[y].task = txs[y].task
  BY <1>2 DEF Prepare, NextTx, TypeOK, TxTasks
<1>3. ASSUME NEW x \in TxIds,
             Commit(x) \/ MarkExecutionFailed(x) \/ RollbackConflict(x) \/ ResolveByRollback(x)
      PROVE  /\ TxTasks'
             /\ \A y \in TxIds : txs[y].state # "ABSENT" =>
                   txs'[y].state # "ABSENT" /\ txs'[y].task = txs[y].task
  <2>1. txs[x].state # "ABSENT"
    BY <1>3 DEF Commit, MarkExecutionFailed, RollbackConflict, ResolveByRollback, CanRollBack
  <2>2. \E s \in {"COMMITTED", "ROLLED_BACK", "CONFLICT"} : txs' = [txs EXCEPT ![x].state = s]
    BY <1>3 DEF Commit, MarkExecutionFailed, RollbackConflict, ResolveByRollback
  <2>3. QED
    BY <2>1, <2>2 DEF TypeOK, TxRow, TxTasks
<1>4. CASE Acquire \/ LockStep \/ ScanProject \/ Tick \/ UNCHANGED lockVars
  BY <1>1, <1>4 DEF Acquire, LockStep, ScanProject, Tick, lockVars, AcquireRecoveryRequired,
     AcquireConflict, AcquireGranted, Heartbeat, ForceRelease, ReleaseUnused
<1>5. QED
  BY <1>2, <1>3, <1>4 DEF SessionNext, TxStep

\* A row that a tool adds is of its type, and no row moves.
LEMMA RecordFacts ==
    ASSUME FileTypeOK, NEW row \in Change, changes' = Append(changes, row)
    PROVE  /\ changes' \in Seq(Change)
           /\ \A y \in TxIds : ChangesOf(y) \subseteq ChangesOf(y)'
<1>1. changes \in Seq(Change)
  BY DEF FileTypeOK
<1>2. changes' \in Seq(Change) /\ Len(changes') = Len(changes) + 1
      /\ \A i \in 1..Len(changes) : changes'[i] = changes[i]
  BY <1>1
<1>3. QED
  BY <1>1, <1>2 DEF ChangesOf

\* The idle values are of their types.
LEMMA IdleTypes == NoTool \in ToolState /\ NoUndo \in [tx: TxIds \union {NoTx}, todo: SUBSET Nat]
<1>1. NoTool \in ToolState
  BY DEF NoTool, ToolState, Kinds, FileState, Phases
<1>2. QED
  BY <1>1 DEF NoUndo

\* What the invariant needs of a step that moves no tool and no rollback.
LEMMA BystanderKeepsFileInv ==
    ASSUME FileInv, TypeOK', FileTypeOK', TxTasks',
           \A x \in TxIds : txs[x].state # "ABSENT" => txs'[x].state # "ABSENT",
           tool' = tool \/ tool' = NoTool,
           undo' = undo \/ undo' = NoUndo,
           \A y \in TxIds : ChangesOf(y) \subseteq ChangesOf(y)'
    PROVE  FileInv'
<1>1. ToolSound'
  BY DEF FileInv, ToolSound
<1>2. UndoSound'
  BY DEF FileInv, UndoSound
<1>3. QED
  BY <1>1, <1>2 DEF FileInv

\* The three write tools keep the invariant.
LEMMA ToolKeepsFileInv ==
    ASSUME FileInv, Tool
    PROVE  FileInv'
<1>1. TypeOK /\ FileTypeOK /\ TxTasks /\ ToolSound /\ UndoSound
  BY DEF FileInv
<1>2. UNCHANGED lockVars
  BY DEF Tool, ToolCheck, ToolBackup, ToolWrite, ToolRefused, ToolRecord
<1>3. TypeOK' /\ TxTasks' /\ \A x \in TxIds : txs[x].state # "ABSENT" => txs'[x].state # "ABSENT"
  BY <1>1, <1>2 DEF TypeOK, TxTasks, lockVars
<1>4. ASSUME NEW x \in TxIds, NEW p \in Paths, NEW kind \in Kinds, ToolCheck(x, p, kind)
      PROVE  FileInv'
  <2>1. /\ tool' = [tx |-> x, path |-> p, kind |-> kind, before |-> files[p], phase |-> "checked"]
        /\ UNCHANGED <<files, backup, manifest, changes, undo, edits, crashes, lost>>
    BY <1>4 DEF ToolCheck
  <2>2. FileTypeOK'
    BY <1>1, <2>1 DEF FileTypeOK, ToolState, Phases
  <2>3. ToolSound'
    BY <1>2, <1>4, <2>1 DEF ToolSound, ToolCheck, PreparedTransaction, lockVars
  <2>4. UndoSound'
    BY <1>1, <2>1 DEF UndoSound, ChangesOf
  <2>5. QED
    BY <1>3, <2>2, <2>3, <2>4 DEF FileInv
<1>5. CASE ToolBackup \/ \E new \in FileState : ToolWrite(new)
  <2>1. tool # NoTool
    BY <1>5 DEF ToolBackup, ToolWrite, ReadyToWrite
  <2>2. /\ tool.tx \in TxIds /\ tool.path \in Paths /\ txs[tool.tx].state # "ABSENT"
        /\ txs[tool.tx].task \in Tasks
    BY <1>1, <2>1 DEF ToolSound, TxTasks
  <2>3. PICK ph \in Phases : tool' = [tool EXCEPT !.phase = ph]
    BY <1>5 DEF ToolBackup, ToolWrite, Phases
  <2>4. tool' \in ToolState /\ tool'.tx = tool.tx /\ tool'.path = tool.path
    BY <1>1, <2>3 DEF FileTypeOK, ToolState
  <2>5. UNCHANGED <<manifest, changes, undo, edits, crashes, lost>>
    BY <1>5 DEF ToolBackup, ToolWrite
  <2>6. backup' \in [Tasks -> [Slots -> FileState]]
    <3>1. Slot(tool) \in Slots /\ files[tool.path] \in FileState
      BY <1>1, <2>2 DEF Slot, Slots, FileTypeOK
    <3>2. backup' = backup \/ backup' = [backup EXCEPT ![txs[tool.tx].task][Slot(tool)] = files[tool.path]]
      BY <1>5 DEF ToolBackup, ToolWrite
    <3>3. backup \in [Tasks -> [Slots -> FileState]]
      BY <1>1 DEF FileTypeOK
    <3>4. QED
      BY <2>2, <3>1, <3>2, <3>3
  <2>7. files' \in [Paths -> FileState]
    BY <1>1, <1>5 DEF ToolBackup, ToolWrite, FileTypeOK
  <2>8. FileTypeOK'
    BY <1>1, <2>4, <2>5, <2>6, <2>7 DEF FileTypeOK
  <2>9. ToolSound'
    BY <1>2, <2>2, <2>4 DEF ToolSound, lockVars
  <2>10. UndoSound'
    BY <1>1, <2>5 DEF UndoSound, ChangesOf
  <2>11. QED
    BY <1>3, <2>8, <2>9, <2>10 DEF FileInv
<1>6. CASE ToolRefused
  <2>1. FileTypeOK' /\ \A y \in TxIds : ChangesOf(y) \subseteq ChangesOf(y)'
    BY <1>1, <1>6, IdleTypes DEF FileTypeOK, ToolRefused, ChangesOf
  <2>2. QED
    BY <1>3, <1>6, <2>1, BystanderKeepsFileInv DEF ToolRefused
<1>7. CASE ToolRecord
  <2>1. tool # NoTool
    BY <1>7 DEF ToolRecord, NoTool
  <2>2. /\ tool.tx \in TxIds /\ tool.path \in Paths /\ txs[tool.tx].task \in Tasks
        /\ tool.kind \in Kinds /\ tool.before \in FileState /\ files[tool.path] \in FileState
    BY <1>1, <2>1 DEF ToolSound, TxTasks, FileTypeOK, ToolState
  <2>3. changes' \in Seq(Change) /\ \A y \in TxIds : ChangesOf(y) \subseteq ChangesOf(y)'
    <3>1. CASE UNCHANGED changes
      BY <1>1, <3>1 DEF FileTypeOK, ChangesOf
    <3>2. CASE ~UNCHANGED changes
      <4> DEFINE row == [tx |-> tool.tx, task |-> txs[tool.tx].task, path |-> tool.path,
                         kind |-> tool.kind, before |-> tool.before,
                         after |-> IF tool.kind = "DELETE" THEN NoFile ELSE files[tool.path]]
      <4>1. row \in Change
        BY <2>2 DEF Change, FileState
      <4>2. changes' = Append(changes, row)
        BY <1>7, <3>2 DEF ToolRecord
      <4> HIDE DEF row
      <4>3. QED
        BY <1>1, <4>1, <4>2, RecordFacts
    <3>3. QED
      BY <3>1, <3>2
  <2>4. lost' \subseteq Paths
    BY <1>1, <1>7, <2>2 DEF ToolRecord, FileTypeOK
  <2>5. FileTypeOK'
    BY <1>1, <1>7, <2>3, <2>4, IdleTypes DEF FileTypeOK, ToolRecord
  <2>6. QED
    BY <1>3, <1>7, <2>3, <2>5, BystanderKeepsFileInv DEF ToolRecord
<1>8. QED
  BY <1>4, <1>5, <1>6, <1>7 DEF Tool

\* What undoing a change leaves on its path is a file's content or no file.
LEMMA UndoneType ==
    ASSUME FileTypeOK, NEW c \in Change
    PROVE  Undone(c) \in FileState
BY DEF FileTypeOK, Undone, Change, FileState, Slot, Slots, Kinds

\* Rollback keeps the invariant.
LEMMA RollbackKeepsFileInv ==
    ASSUME FileInv, Rollback, [SessionNext]_lockVars, TypeOK'
    PROVE  FileInv'
<1>1. TypeOK /\ FileTypeOK /\ TxTasks /\ ToolSound /\ UndoSound
  BY DEF FileInv
<1>2. TxTasks' /\ \A x \in TxIds : txs[x].state # "ABSENT" => txs'[x].state # "ABSENT"
  BY <1>1, TransactionsStay
<1>3. \A y \in TxIds : ChangesOf(y)' = ChangesOf(y)
  BY DEF Rollback, RollbackBegin, RollbackUndo, RollbackStop, RollbackDone, ChangesOf
<1>4. ASSUME NEW x \in TxIds, RollbackBegin(x)
      PROVE  FileInv'
  <2>1. undo' = [tx |-> x, todo |-> ChangesOf(x)]
        /\ UNCHANGED <<files, backup, manifest, changes, tool, edits, crashes, lost>>
    BY <1>4 DEF RollbackBegin
  <2>2. ChangesOf(x) \subseteq Nat
    BY DEF ChangesOf
  <2>3. FileTypeOK'
    BY <1>1, <2>1, <2>2 DEF FileTypeOK
  <2>4. UndoSound'
    BY <1>3, <2>1 DEF UndoSound
  <2>5. ToolSound'
    BY <1>1, <1>2, <2>1 DEF ToolSound
  <2>6. QED
    BY <1>2, <2>3, <2>4, <2>5 DEF FileInv
<1>5. CASE RollbackUndo
  <2>1. PICK i \in undo.todo :
          /\ files' = [files EXCEPT ![changes[i].path] = Undone(changes[i])]
          /\ undo' = [undo EXCEPT !.todo = @ \ {i}]
          /\ UNCHANGED <<lockVars, backup, manifest, changes, tool, edits, crashes, lost>>
    BY <1>5 DEF RollbackUndo
  <2>2. undo.tx \in TxIds /\ undo.todo \subseteq ChangesOf(undo.tx)
    BY <1>1, <2>1 DEF UndoSound, NoUndo
  <2>3. changes[i] \in Change
    BY <1>1, <2>1, <2>2 DEF ChangesOf, FileTypeOK
  <2>4. Undone(changes[i]) \in FileState
    BY <1>1, <2>3, UndoneType
  <2>5. files' \in [Paths -> FileState]
    BY <1>1, <2>1, <2>4 DEF FileTypeOK
  <2>6. undo' \in [tx: TxIds \union {NoTx}, todo: SUBSET Nat]
        /\ undo'.tx = undo.tx /\ undo'.todo \subseteq undo.todo
    BY <1>1, <2>1 DEF FileTypeOK
  <2>7. FileTypeOK'
    BY <1>1, <2>1, <2>5, <2>6 DEF FileTypeOK
  <2>8. UndoSound'
    BY <1>3, <2>2, <2>6 DEF UndoSound
  <2>9. ToolSound'
    BY <1>1, <1>2, <2>1 DEF ToolSound
  <2>10. QED
    BY <1>2, <2>7, <2>8, <2>9 DEF FileInv
<1>6. CASE RollbackStop \/ RollbackDone
  <2>1. undo' = NoUndo /\ UNCHANGED <<files, backup, manifest, changes, tool, edits, crashes, lost>>
    BY <1>6 DEF RollbackStop, RollbackDone
  <2>2. FileTypeOK'
    BY <1>1, <2>1, IdleTypes DEF FileTypeOK
  <2>3. QED
    BY <1>2, <1>3, <2>1, <2>2, BystanderKeepsFileInv
<1>7. QED
  BY <1>4, <1>5, <1>6 DEF Rollback

\* So do the user, a crash, and the steps of the lock protocol.
LEMMA OthersKeepFileInv ==
    ASSUME FileInv, [SessionNext]_lockVars, TypeOK',
           \/ TakeWriteLock
           \/ \E t \in Tasks, l \in LockIds, x \in TxIds : PrepareFiles(t, l, x)
           \/ \E x \in TxIds : EndExecution(x)
           \/ Environment
           \/ LockOnly
           \/ UNCHANGED vars
    PROVE  FileInv'
<1>1. TypeOK /\ FileTypeOK /\ TxTasks
  BY DEF FileInv
<1>2. TxTasks' /\ \A x \in TxIds : txs[x].state # "ABSENT" => txs'[x].state # "ABSENT"
  BY <1>1, TransactionsStay
<1>3. changes' = changes /\ (tool' = tool \/ tool' = NoTool) /\ (undo' = undo \/ undo' = NoUndo)
  BY DEF TakeWriteLock, PrepareFiles, EndExecution, Environment, Crash, UserEdit, LockOnly,
     fileVars, vars
<1>4. \A y \in TxIds : ChangesOf(y) \subseteq ChangesOf(y)'
  BY <1>3 DEF ChangesOf
<1>5. FileTypeOK'
  <2>1. tool' \in ToolState /\ undo' \in [tx: TxIds \union {NoTx}, todo: SUBSET Nat]
    BY <1>1, <1>3, IdleTypes DEF FileTypeOK
  <2>2. CASE TakeWriteLock \/ (\E x \in TxIds : EndExecution(x)) \/ LockOnly \/ UNCHANGED vars
    BY <1>1, <2>2 DEF TakeWriteLock, EndExecution, LockOnly, fileVars, vars, FileTypeOK
  <2>3. ASSUME NEW t \in Tasks, NEW l \in LockIds, NEW x \in TxIds, PrepareFiles(t, l, x)
        PROVE  FileTypeOK'
    BY <1>1, <2>3 DEF PrepareFiles, FileTypeOK
  <2>4. CASE Environment
    <3>1. tool # NoTool => tool.path \in Paths
      BY DEF FileInv, ToolSound
    <3>2. lost' \subseteq Paths
      BY <1>1, <2>4, <3>1 DEF Environment, Crash, UserEdit, FileTypeOK, NoTool
    <3>3. QED
      BY <1>1, <2>1, <2>4, <3>2 DEF Environment, Crash, UserEdit, FileTypeOK
  <2>5. QED
    BY <2>2, <2>3, <2>4
<1>6. QED
  BY <1>2, <1>3, <1>4, <1>5, BystanderKeepsFileInv

\* Every step keeps the invariant.
LEMMA FileStep ==
    ASSUME FileInv, [FileNext]_vars
    PROVE  FileInv'
<1>1. [SessionNext]_lockVars
  BY StepImplements DEF FileInv
<1>2. TypeOK'
  BY <1>1, TypeStep DEF FileInv, Next
<1>3. QED
  BY <1>1, <1>2, ToolKeepsFileInv, RollbackKeepsFileInv, OthersKeepFileInv DEF FileNext, CoreNext

\* It holds initially.
LEMMA FileInitInv == FileInit => FileInv
BY InitType, IdleTypes DEF FileInit, FileInv, FileTypeOK, TxTasks, ToolSound, UndoSound, Init,
   AbsentTx, FileState

\* It is an invariant.
LEMMA FileInvariance == FileSpec => []FileInv
<1>1. FileInv /\ [FileNext]_vars => FileInv'
  BY FileStep
<1>2. QED
  BY <1>1, FileInitInv, PTL DEF FileSpec

-----------------------------------------------------------------------------
(* Who may work on which transaction *)

\* Transactions are created in order, and an unfinished one is the newest.
TxOrder ==
    \A x, y \in TxIds :
        txs[x].state # "ABSENT" => /\ y < x => txs[y].state # "ABSENT"
                                   /\ Unfinished(y) => x <= y

\* A tool works for a PREPARED transaction that nobody rolls back, and a
\* rollback is of a transaction that exists.
Working ==
    /\ tool # NoTool => txs[tool.tx].state = "PREPARED" /\ tool.tx # undo.tx
    /\ undo # NoUndo => txs[undo.tx].state # "ABSENT"

OrderInv ==
    /\ SessionInv
    /\ FileInv
    /\ TxOrder
    /\ Working

\* The lock protocol keeps transactions in order: a new one is only prepared
\* when no other is unfinished.
LEMMA TxOrderStep ==
    ASSUME SessionInv, TxOrder, [SessionNext]_lockVars
    PROVE  TxOrder'
<1>1. TxIds \subseteq Int /\ TypeOK
  BY LockConstants DEF SessionInv
<1>2. CASE txs' = txs
  BY <1>2 DEF TxOrder, Unfinished
<1>3. ASSUME NEW x \in TxIds, NEW t \in Tasks, NEW l \in LockIds, Prepare(t, l, x)
      PROVE  TxOrder'
  <2>1. \A y \in TxIds : ~Unfinished(y)
    BY <1>3, PrepareFindsNone
  <2>2. /\ txs'[x].state = "PREPARED" /\ txs[x].state = "ABSENT"
        /\ \A y \in TxIds : y # x => txs'[y] = txs[y]
        /\ \A y \in TxIds : y < x => txs[y].state # "ABSENT"
    BY <1>1, <1>3 DEF Prepare, NextTx, TypeOK
  <2>3. \A y \in TxIds : Unfinished(y)' => y = x
    BY <2>1, <2>2 DEF Unfinished
  <2>4. \A y \in TxIds : txs'[y].state # "ABSENT" => y <= x
    BY <1>1, <2>2 DEF TxOrder
  <2>5. QED
    BY <1>1, <2>2, <2>3, <2>4 DEF TxOrder
<1>4. ASSUME NEW x \in TxIds,
             Commit(x) \/ MarkExecutionFailed(x) \/ RollbackConflict(x) \/ ResolveByRollback(x)
      PROVE  TxOrder'
  <2>1. txs[x].state # "ABSENT"
    BY <1>4 DEF Commit, MarkExecutionFailed, RollbackConflict, ResolveByRollback, CanRollBack
  <2>2. PICK s \in {"COMMITTED", "ROLLED_BACK", "CONFLICT"} : txs' = [txs EXCEPT ![x].state = s]
    BY <1>4 DEF Commit, MarkExecutionFailed, RollbackConflict, ResolveByRollback
  <2>3. txs'[x].state = s /\ \A y \in TxIds : y # x => txs'[y] = txs[y]
    BY <1>1, <2>2 DEF TypeOK, TxRow
  <2>4. \A y \in TxIds : /\ Unfinished(y)' => Unfinished(y)
                         /\ txs'[y].state # "ABSENT" <=> txs[y].state # "ABSENT"
    BY <2>1, <2>3 DEF Unfinished
  <2>5. QED
    BY <2>4 DEF TxOrder
<1>5. CASE Acquire \/ LockStep \/ ScanProject \/ Tick \/ UNCHANGED lockVars
  BY <1>2, <1>5 DEF Acquire, LockStep, ScanProject, Tick, lockVars, AcquireRecoveryRequired,
     AcquireConflict, AcquireGranted, Heartbeat, ForceRelease, ReleaseUnused
<1>6. QED
  BY <1>3, <1>4, <1>5 DEF SessionNext, TxStep

\* Tools and rollbacks stay out of each other's transaction.
LEMMA WorkingStep ==
    ASSUME OrderInv, [FileNext]_vars,
           \A x \in TxIds : txs[x].state # "ABSENT" => txs'[x].state # "ABSENT"
    PROVE  Working'
<1>1. /\ txs \in [TxIds -> TxRow] /\ NoTx \notin TxIds
      /\ tool # NoTool => tool.tx \in TxIds /\ txs[tool.tx].state = "PREPARED" /\ tool.tx # undo.tx
      /\ undo # NoUndo => undo.tx \in TxIds /\ txs[undo.tx].state # "ABSENT"
  BY FileConstants DEF OrderInv, FileInv, ToolSound, UndoSound, TypeOK, Working
<1>2. NoTool.tx = NoTx /\ NoUndo.tx = NoTx
  BY DEF NoTool, NoUndo
<1>3. CASE TakeWriteLock \/ LockOnly \/ UNCHANGED vars
  <2>1. txs' = txs /\ tool' = tool /\ undo' = undo
    BY <1>3 DEF TakeWriteLock, LockOnly, vars, fileVars, lockVars, Acquire, LockStep, ScanProject, Tick,
       AcquireRecoveryRequired, AcquireConflict, AcquireGranted, Heartbeat, ForceRelease, ReleaseUnused
  <2>2. QED
    BY <2>1 DEF OrderInv, Working
<1>4. ASSUME NEW t \in Tasks, NEW l \in LockIds, NEW x \in TxIds, PrepareFiles(t, l, x)
      PROVE  Working'
  BY <1>1, <1>4 DEF PrepareFiles, Prepare, NextTx, Working
<1>5. ASSUME NEW x \in TxIds, EndExecution(x)
      PROVE  Working'
  <2>1. tool' = tool /\ undo' = undo /\ tool.tx # x /\ \A y \in TxIds : y # x => txs'[y] = txs[y]
    BY <1>1, <1>5 DEF EndExecution, Idle, Commit, MarkExecutionFailed, fileVars
  <2>2. QED
    BY <1>1, <2>1 DEF Working
<1>6. CASE Tool
  <2>1. txs' = txs /\ undo' = undo
    BY <1>6 DEF Tool, ToolCheck, ToolBackup, ToolWrite, ToolRefused, ToolRecord, lockVars
  <2>2. tool' # NoTool => txs[tool'.tx].state = "PREPARED" /\ tool'.tx # undo.tx
    <3>1. CASE tool' = NoTool
      BY <3>1
    <3>2. ASSUME NEW x \in TxIds, NEW p \in Paths, NEW kind \in Kinds, ToolCheck(x, p, kind)
          PROVE  txs[tool'.tx].state = "PREPARED" /\ tool'.tx # undo.tx
      BY <3>2 DEF ToolCheck, PreparedTransaction
    <3>3. CASE ToolBackup \/ \E new \in FileState : ToolWrite(new)
      <4>1. tool # NoTool /\ \E ph \in Phases : tool' = [tool EXCEPT !.phase = ph]
        BY <3>3 DEF ToolBackup, ToolWrite, ReadyToWrite, Phases
      <4>2. tool'.tx = tool.tx
        BY <4>1 DEF OrderInv, FileInv, FileTypeOK, ToolState
      <4>3. QED
        BY <1>1, <4>1, <4>2
    <3>4. QED
      BY <1>6, <3>1, <3>2, <3>3 DEF Tool, ToolRefused, ToolRecord
  <2>3. QED
    BY <1>1, <2>1, <2>2 DEF Working
<1>7. ASSUME NEW x \in TxIds, RollbackBegin(x)
      PROVE  Working'
  <2>1. txs[x].state # "ABSENT"
    BY <1>7 DEF RollbackBegin, RecoveryTarget, NeedsRecovery
  <2>2. undo'.tx = x /\ txs' = txs /\ tool' = tool /\ tool.tx # x
    BY <1>7 DEF RollbackBegin, Idle, lockVars
  <2>3. QED
    BY <1>1, <2>1, <2>2 DEF Working
<1>8. CASE RollbackUndo
  <2>1. undo.todo # {} /\ undo'.tx = undo.tx /\ txs' = txs /\ tool' = tool
    BY <1>8 DEF RollbackUndo, lockVars, OrderInv, FileInv, FileTypeOK
  <2>2. QED
    BY <1>1, <2>1 DEF Working, NoUndo
<1>9. CASE RollbackStop \/ RollbackDone
  <2>1. /\ undo # NoUndo /\ undo' = NoUndo /\ tool' = tool
        /\ RollbackConflict(undo.tx) \/ ResolveByRollback(undo.tx)
    BY <1>9 DEF RollbackStop, RollbackDone, NoUndo
  <2>2. \A y \in TxIds : y # undo.tx => txs'[y] = txs[y]
    BY <1>1, <2>1 DEF RollbackConflict, ResolveByRollback
  <2>3. QED
    BY <1>1, <1>2, <2>1, <2>2 DEF Working
<1>10. CASE Environment
  BY <1>1, <1>2, <1>10 DEF Environment, Crash, UserEdit, lockVars, Working
<1>11. QED
  BY <1>3, <1>4, <1>5, <1>6, <1>7, <1>8, <1>9, <1>10 DEF FileNext, CoreNext, Rollback

\* Together they are inductive.
LEMMA OrderStep ==
    ASSUME OrderInv, [FileNext]_vars
    PROVE  OrderInv'
<1>1. [SessionNext]_lockVars
  BY StepImplements DEF OrderInv, FileInv
<1>2. SessionInv' /\ TxOrder'
  BY <1>1, SessionStep, TxOrderStep DEF OrderInv
<1>3. FileInv'
  BY FileStep DEF OrderInv
<1>4. \A x \in TxIds : txs[x].state # "ABSENT" => txs'[x].state # "ABSENT"
  BY <1>1, TransactionsStay DEF OrderInv, FileInv
<1>5. QED
  BY <1>2, <1>3, <1>4, WorkingStep DEF OrderInv

\* They hold initially.
LEMMA OrderInit == FileInit => OrderInv
<1>1. FileInit => SessionInv /\ FileInv
  BY SessionInit, FileInitInv DEF FileInit
<1>2. FileInit => TxOrder /\ Working
  BY DEF FileInit, Init, AbsentTx, TxOrder, Working
<1>3. QED
  BY <1>1, <1>2 DEF OrderInv

-----------------------------------------------------------------------------
(* What a rollback has put back, and what nobody disturbed *)

\* A CREATE finds no file, a patch or a deletion finds one; a DELETE leaves none.
KindsFit ==
    /\ (tool.kind = "CREATE") = (tool.before = NoFile)
    /\ \A i \in 1..Len(changes) :
          /\ changes[i].kind = "CREATE" => changes[i].before = NoFile
          /\ changes[i].kind = "DELETE" => changes[i].after = NoFile

\* A rollback has undone the newest rows so far: what is left is a prefix.
NewestFirst ==
    undo # NoUndo => \A i \in undo.todo, j \in ChangesOf(undo.tx) : j < i => j \in undo.todo

\* The first row of a transaction on a path.
FirstRow(i, x, p) ==
    /\ i \in ChangesOf(x)
    /\ changes[i].path = p
    /\ \A j \in ChangesOf(x) : changes[j].path = p => i <= j

\* Every row has one.
FirstRows ==
    \A i \in 1..Len(changes) :
        \E j \in 1..Len(changes) : FirstRow(j, changes[i].tx, changes[i].path)

\* The path of a row is as it was before the row, or the row's backup slot has
\* been overwritten.
PutBack(c) ==
    \/ files[c.path] = c.before
    \/ c.kind # "CREATE" /\ backup[c.task][Slot(c)] # c.before

\* A path of which the rollback has undone every row, and which nobody else
\* has written since, is back where the transaction found it.
UndoneSoFar ==
    undo # NoUndo => \A i \in ChangesOf(undo.tx) :
        /\ FirstRow(i, undo.tx, changes[i].path)
        /\ \A j \in undo.todo : changes[j].path # changes[i].path
        /\ LastOn(undo.tx, changes[i].path)
        => PutBack(changes[i])

NoRow(p) == \A i \in 1..Len(changes) : changes[i].path # p

\* Without edits, a tool on a path that no row names finds what it checked,
\* and its backup is of that.
ToolUndisturbed ==
    edits = 0 /\ tool # NoTool /\ NoRow(tool.path) =>
        /\ tool.phase # "written" => files[tool.path] = tool.before
        /\ tool.phase # "checked" /\ tool.kind # "CREATE" =>
              backup[txs[tool.tx].task][Slot(tool)] = tool.before
        /\ tool.phase = "written" /\ tool.kind = "DELETE" => files[tool.path] = NoFile

\* Path and backup slot of a row hold one of the row's two contents.
HoldsRow(c) ==
    /\ files[c.path] \in {c.before, c.after}
    /\ c.kind # "CREATE" => backup[c.task][Slot(c)] \in {c.before, c.after}

\* Without edits, that is so for a row that is the only one on its path.
RowUndisturbed ==
    edits = 0 => \A i \in 1..Len(changes) :
        OnlyChange(changes[i]) /\ changes[i].path \notin Unrecorded => HoldsRow(changes[i])

RowsInv ==
    /\ KindsFit
    /\ NewestFirst
    /\ FirstRows
    /\ UndoneSoFar
    /\ ToolUndisturbed
    /\ RowUndisturbed

\* Rows and their parts have their types.
LEMMA RowTypes ==
    ASSUME FileTypeOK
    PROVE  /\ Len(changes) \in Nat
           /\ \A i \in 1..Len(changes) :
                 /\ changes[i] \in Change
                 /\ changes[i].path \in Paths /\ changes[i].task \in Tasks
                 /\ changes[i].tx \in TxIds /\ changes[i].kind \in Kinds
                 /\ Slot(changes[i]) \in Slots
<1>1. Len(changes) \in Nat /\ \A i \in 1..Len(changes) : changes[i] \in Change
  BY DEF FileTypeOK
<1>2. \A c \in Change : /\ c.path \in Paths /\ c.task \in Tasks /\ c.tx \in TxIds /\ c.kind \in Kinds
                        /\ Slot(c) \in Slots
  BY DEF Change, Slot, Slots
<1>3. QED
  BY <1>1, <1>2

\* A step that leaves rows, files and backups alone keeps the invariant,
\* whether it ends a tool or a rollback or not.
LEMMA BystanderKeepsRows ==
    ASSUME OrderInv, RowsInv, UNCHANGED <<files, backup, changes, edits>>,
           Unrecorded' = Unrecorded,
           tool' = tool \/ tool' = NoTool,
           undo' = undo \/ undo' = NoUndo,
           \A x \in TxIds : txs[x].state # "ABSENT" => txs'[x].task = txs[x].task
    PROVE  RowsInv'
<1>1. KindsFit'
  BY DEF RowsInv, KindsFit, NoTool
<1>2. NewestFirst'
  BY DEF RowsInv, NewestFirst, ChangesOf
<1>3. FirstRows'
  BY DEF RowsInv, FirstRows, FirstRow, ChangesOf
<1>4. UndoneSoFar'
  <2>1. \A i \in 1..Len(changes) : PutBack(changes[i]) => PutBack(changes[i])'
    BY DEF PutBack, Slot
  <2>2. CASE undo' = undo
    BY <2>1, <2>2 DEF RowsInv, UndoneSoFar, FirstRow, ChangesOf, LastOn
  <2>3. QED
    BY <2>2 DEF UndoneSoFar
<1>5. ToolUndisturbed'
  BY DEF RowsInv, ToolUndisturbed, NoRow, Slot, OrderInv, FileInv, ToolSound
<1>6. RowUndisturbed'
  BY DEF RowsInv, RowUndisturbed, OnlyChange, HoldsRow, Slot
<1>7. QED
  BY <1>1, <1>2, <1>3, <1>4, <1>5, <1>6 DEF RowsInv

\* So does a tool that checks and makes its backup.
LEMMA CheckKeepsRows ==
    ASSUME OrderInv, RowsInv, NEW x \in TxIds, NEW p \in Paths, NEW kind \in Kinds, ToolCheck(x, p, kind)
    PROVE  RowsInv'
<1>1. /\ UNCHANGED <<txs, files, backup, changes, edits, undo, lost>> /\ tool = NoTool
      /\ tool' = [tx |-> x, path |-> p, kind |-> kind, before |-> files[p], phase |-> "checked"]
      /\ (kind = "CREATE") = (files[p] = NoFile)
  BY DEF ToolCheck, lockVars
<1>2. Unrecorded' = Unrecorded
  BY <1>1 DEF Unrecorded, NoTool
<1>3. KindsFit'
  BY <1>1 DEF RowsInv, KindsFit
<1>4. NewestFirst'
  BY <1>1 DEF RowsInv, NewestFirst, ChangesOf
<1>5. FirstRows'
  BY <1>1 DEF RowsInv, FirstRows, FirstRow, ChangesOf
<1>6. UndoneSoFar'
  BY <1>1, <1>2 DEF RowsInv, UndoneSoFar, FirstRow, ChangesOf, LastOn, PutBack, Slot
<1>7. ToolUndisturbed'
  BY <1>1 DEF ToolUndisturbed
<1>8. RowUndisturbed'
  BY <1>1, <1>2 DEF RowsInv, RowUndisturbed, OnlyChange, HoldsRow, Slot
<1>9. QED
  BY <1>3, <1>4, <1>5, <1>6, <1>7, <1>8 DEF RowsInv

\* A slot that a tool overwrites gets what is on the path.
LEMMA BackupKeepsRows ==
    ASSUME OrderInv, RowsInv, ToolBackup
    PROVE  RowsInv'
<1>1. /\ UNCHANGED <<txs, files, changes, edits, undo, lost>> /\ tool # NoTool
      /\ tool.phase = "checked" /\ tool.kind # "CREATE"
      /\ backup' = [backup EXCEPT ![txs[tool.tx].task][Slot(tool)] = files[tool.path]]
      /\ tool' = [tool EXCEPT !.phase = "backedUp"]
  BY DEF ToolBackup, lockVars
<1>2. /\ FileTypeOK /\ tool.tx \in TxIds /\ tool.path \in Paths /\ txs[tool.tx].task \in Tasks
      /\ Slot(tool) \in Slots
  BY <1>1 DEF OrderInv, FileInv, ToolSound, TxTasks, Slot, Slots
<1>3. /\ tool'.tx = tool.tx /\ tool'.path = tool.path /\ tool'.kind = tool.kind
      /\ tool'.before = tool.before /\ tool'.phase = "backedUp"
  BY <1>1, <1>2 DEF FileTypeOK, ToolState
<1>4. Unrecorded' = Unrecorded
  BY <1>1, <1>3 DEF Unrecorded
<1>5. /\ backup'[txs[tool.tx].task][Slot(tool)] = files[tool.path]
      /\ \A t \in Tasks, s \in Slots :
            backup'[t][s] = backup[t][s] \/ (t = txs[tool.tx].task /\ s = Slot(tool) /\ backup'[t][s] = files[s[2]])
  BY <1>1, <1>2 DEF FileTypeOK, Slot
<1>6. \A i \in 1..Len(changes) :
          \/ backup'[changes[i].task][Slot(changes[i])] = backup[changes[i].task][Slot(changes[i])]
          \/ backup'[changes[i].task][Slot(changes[i])] = files[changes[i].path]
  BY <1>2, <1>5, RowTypes DEF Slot
<1>7. KindsFit'
  BY <1>1, <1>3 DEF RowsInv, KindsFit
<1>8. NewestFirst'
  BY <1>1 DEF RowsInv, NewestFirst, ChangesOf
<1>9. FirstRows'
  BY <1>1 DEF RowsInv, FirstRows, FirstRow, ChangesOf
<1>10. UndoneSoFar'
  <2>1. \A i \in 1..Len(changes) : PutBack(changes[i]) => PutBack(changes[i])'
    BY <1>1, <1>6 DEF PutBack, Slot
  <2>2. QED
    BY <1>1, <1>4, <2>1 DEF RowsInv, UndoneSoFar, FirstRow, ChangesOf, LastOn
<1>11. ToolUndisturbed'
  BY <1>1, <1>3, <1>5 DEF RowsInv, ToolUndisturbed, NoRow, Slot
<1>12. RowUndisturbed'
  <2>1. \A i \in 1..Len(changes) : HoldsRow(changes[i]) => HoldsRow(changes[i])'
    BY <1>1, <1>6 DEF HoldsRow, Slot
  <2>2. QED
    BY <1>1, <1>4, <2>1 DEF RowsInv, RowUndisturbed, OnlyChange
<1>13. QED
  BY <1>7, <1>8, <1>9, <1>10, <1>11, <1>12 DEF RowsInv

\* A write makes its path one that is not recorded yet.
LEMMA WriteKeepsRows ==
    ASSUME OrderInv, RowsInv, NEW new \in FileState, ToolWrite(new)
    PROVE  RowsInv'
<1>1. /\ UNCHANGED <<txs, backup, changes, edits, undo, lost>> /\ ReadyToWrite
      /\ (tool.kind = "DELETE") = (new = NoFile)
      /\ files' = [files EXCEPT ![tool.path] = new]
      /\ tool' = [tool EXCEPT !.phase = "written"]
  BY DEF ToolWrite, lockVars
<1>2. FileTypeOK /\ tool # NoTool /\ tool.tx \in TxIds /\ tool.path \in Paths
  BY <1>1 DEF OrderInv, FileInv, ToolSound, ReadyToWrite
<1>3. /\ tool'.tx = tool.tx /\ tool'.path = tool.path /\ tool'.kind = tool.kind
      /\ tool'.before = tool.before /\ tool'.phase = "written"
  BY <1>1, <1>2 DEF FileTypeOK, ToolState
<1>4. Unrecorded \subseteq Unrecorded' /\ tool.path \in Unrecorded'
  BY <1>1, <1>3 DEF Unrecorded
<1>5. files'[tool.path] = new /\ \A p \in Paths : p # tool.path => files'[p] = files[p]
  BY <1>1, <1>2 DEF FileTypeOK
<1>6. KindsFit'
  BY <1>1, <1>3 DEF RowsInv, KindsFit
<1>7. NewestFirst'
  BY <1>1 DEF RowsInv, NewestFirst, ChangesOf
<1>8. FirstRows'
  BY <1>1 DEF RowsInv, FirstRows, FirstRow, ChangesOf
<1>9. UndoneSoFar'
  <2>1. \A i \in 1..Len(changes) :
            changes[i].path \notin Unrecorded' /\ PutBack(changes[i]) => PutBack(changes[i])'
    BY <1>1, <1>2, <1>4, <1>5, RowTypes DEF PutBack, Slot
  <2>2. QED
    BY <1>1, <1>4, <2>1 DEF RowsInv, UndoneSoFar, FirstRow, ChangesOf, LastOn
<1>10. ToolUndisturbed'
  BY <1>1, <1>2, <1>3, <1>5 DEF RowsInv, ToolUndisturbed, NoRow, Slot, ReadyToWrite
<1>11. RowUndisturbed'
  <2>1. \A i \in 1..Len(changes) :
            changes[i].path \notin Unrecorded' /\ HoldsRow(changes[i]) => HoldsRow(changes[i])'
    BY <1>1, <1>2, <1>4, <1>5, RowTypes DEF HoldsRow, Slot
  <2>2. QED
    BY <1>1, <1>4, <2>1 DEF RowsInv, RowUndisturbed, OnlyChange
<1>12. QED
  BY <1>6, <1>7, <1>8, <1>9, <1>10, <1>11 DEF RowsInv

\* Keys of transactions are ordered.
LEMMA TxIdsOrdered ==
    \A x, y \in TxIds : (x <= y /\ x # y => x < y) /\ ~ (x < y /\ y <= x)
BY LockConstants

\* A row that a tool records belongs to the newest transaction: it takes its
\* path away from a rollback under way, and the rows of that one stay.
LEMMA RecordKeepsRows ==
    ASSUME OrderInv, RowsInv, ToolRecord
    PROVE  RowsInv'
<1>1. /\ UNCHANGED <<txs, files, backup, edits, undo>> /\ tool.phase = "written" /\ tool' = NoTool
  BY DEF ToolRecord, lockVars
<1>2. tool # NoTool
  BY <1>1 DEF NoTool
<1>3. /\ FileTypeOK /\ tool.tx \in TxIds /\ tool.path \in Paths /\ txs[tool.tx].task \in Tasks
      /\ tool.kind \in Kinds /\ tool.before \in FileState /\ files[tool.path] \in FileState
  BY <1>2 DEF OrderInv, FileInv, ToolSound, TxTasks, FileTypeOK, ToolState
<1>4. CASE UNCHANGED changes
  <2>1. lost' = lost \union {tool.path}
    BY <1>3, <1>4 DEF ToolRecord, FileTypeOK
  <2>2. Unrecorded' = Unrecorded
    BY <1>1, <2>1 DEF Unrecorded, NoTool
  <2>3. QED
    BY <1>1, <1>4, <2>2, BystanderKeepsRows
<1>5. CASE ~UNCHANGED changes
  <2>1. lost' = lost /\ \E row \in Change :
              /\ changes' = Append(changes, row)
              /\ row.tx = tool.tx /\ row.task = txs[tool.tx].task /\ row.path = tool.path
              /\ row.kind = tool.kind /\ row.before = tool.before
              /\ row.after = IF tool.kind = "DELETE" THEN NoFile ELSE files[tool.path]
    <3> DEFINE row == [tx |-> tool.tx, task |-> txs[tool.tx].task, path |-> tool.path,
                       kind |-> tool.kind, before |-> tool.before,
                       after |-> IF tool.kind = "DELETE" THEN NoFile ELSE files[tool.path]]
    <3>1. row \in Change
      BY <1>3 DEF Change, FileState
    <3>2. changes' = Append(changes, row) /\ lost' = lost
      BY <1>5 DEF ToolRecord
    <3>3. QED
      BY <3>1, <3>2
  <2>2. PICK row \in Change :
            /\ changes' = Append(changes, row)
            /\ row.tx = tool.tx /\ row.task = txs[tool.tx].task /\ row.path = tool.path
            /\ row.kind = tool.kind /\ row.before = tool.before
            /\ row.after = IF tool.kind = "DELETE" THEN NoFile ELSE files[tool.path]
    BY <2>1
  <2>3. Slot(row) = Slot(tool)
    BY <2>2 DEF Slot
  <2>4. PICK n \in Nat :
            /\ Len(changes) \in Nat /\ Len(changes') = n /\ changes'[n] = row
            /\ 1..n = 1..Len(changes) \union {n} /\ n \notin 1..Len(changes)
            /\ \A i \in 1..Len(changes) : changes'[i] = changes[i] /\ i < n
    <3>1. changes \in Seq(Change) /\ Len(changes) + 1 \in Nat
      BY <1>3 DEF FileTypeOK
    <3>2. /\ Len(changes') = Len(changes) + 1 /\ changes'[Len(changes) + 1] = row
          /\ \A i \in 1..Len(changes) : changes'[i] = changes[i]
      BY <2>2, <3>1
    <3>3. QED
      BY <3>1, <3>2
  <2>5. \A x : x # tool.tx => ChangesOf(x)' = ChangesOf(x)
    BY <2>2, <2>4 DEF ChangesOf
  <2>6. Unrecorded = Unrecorded' \union {tool.path}
    BY <1>1, <2>1 DEF Unrecorded, NoTool
  <2>7. undo # NoUndo => undo.tx # tool.tx /\ undo.tx \in TxIds /\ undo.tx < tool.tx
    <3>1. txs[tool.tx].state = "PREPARED"
      BY <1>2 DEF OrderInv, Working
    <3>2. undo # NoUndo => undo.tx \in TxIds /\ txs[undo.tx].state # "ABSENT" /\ undo.tx # tool.tx
      BY <1>2 DEF OrderInv, FileInv, UndoSound, Working
    <3>3. undo # NoUndo => undo.tx <= tool.tx
      <4>1. Unfinished(tool.tx) /\ TxOrder
        BY <3>1 DEF OrderInv, Unfinished
      <4>2. QED
        BY <1>3, <3>2, <4>1 DEF TxOrder
    <3>4. QED
      BY <1>3, <3>2, <3>3, TxIdsOrdered
  <2>8. KindsFit'
    BY <1>1, <2>2, <2>3, <2>4 DEF RowsInv, KindsFit, NoTool
  <2>9. NewestFirst'
    BY <1>1, <2>5, <2>7 DEF RowsInv, NewestFirst
  <2>10. FirstRows'
    <3>1. \A i \in ChangesOf(tool.tx) : i \in 1..Len(changes)
      BY DEF ChangesOf
    <3>2. SUFFICES ASSUME NEW i \in 1..n
                   PROVE  \E j \in 1..n : FirstRow(j, changes[i].tx, changes[i].path)'
      BY <2>4 DEF FirstRows
    <3>3. CASE \E k \in 1..Len(changes) : changes[k].tx = changes'[i].tx /\ changes[k].path = changes'[i].path
      <4>1. PICK k \in 1..Len(changes) : changes[k].tx = changes'[i].tx /\ changes[k].path = changes'[i].path
        BY <3>3
      <4>2. PICK j \in 1..Len(changes) : FirstRow(j, changes[k].tx, changes[k].path)
        BY DEF RowsInv, FirstRows
      <4>3. FirstRow(j, changes[i].tx, changes[i].path)'
        BY <2>4, <4>1, <4>2 DEF FirstRow, ChangesOf
      <4>4. QED
        BY <2>4, <4>3
    <3>4. CASE ~ \E k \in 1..Len(changes) : changes[k].tx = changes'[i].tx /\ changes[k].path = changes'[i].path
      <4>1. FirstRow(i, changes[i].tx, changes[i].path)'
        BY <2>4, <3>4 DEF FirstRow, ChangesOf
      <4>2. QED
        BY <4>1
    <3>5. QED
      BY <3>3, <3>4
  <2>11. UndoneSoFar'
    <3>1. SUFFICES ASSUME undo # NoUndo, NEW i \in ChangesOf(undo.tx),
                          FirstRow(i, undo.tx, changes[i].path)',
                          \A j \in undo.todo : changes'[j].path # changes'[i].path,
                          LastOn(undo.tx, changes[i].path)'
                   PROVE  PutBack(changes[i])'
      BY <1>1, <2>5, <2>7 DEF UndoneSoFar
    <3>2. i \in 1..Len(changes) /\ changes'[i] = changes[i]
      BY <2>4 DEF ChangesOf
    <3>3. FirstRow(i, undo.tx, changes[i].path)
      BY <2>4, <2>5, <2>7, <3>1, <3>2 DEF FirstRow, ChangesOf
    <3>4. \A j \in undo.todo : changes[j].path # changes[i].path
      BY <2>4, <3>1, <3>2 DEF OrderInv, FileInv, UndoSound, ChangesOf
    <3>5. changes[i].path # tool.path
      <4>1. row.path # changes[i].path \/ row.tx <= undo.tx
        BY <1>1, <2>4, <3>1, <3>2 DEF LastOn
      <4>2. QED
        BY <1>3, <2>2, <2>7, <3>1, <4>1, TxIdsOrdered
    <3>6. LastOn(undo.tx, changes[i].path)
      BY <1>1, <2>4, <2>6, <3>1, <3>2, <3>5 DEF LastOn
    <3>7. PutBack(changes[i])
      BY <3>1, <3>3, <3>4, <3>6 DEF RowsInv, UndoneSoFar
    <3>8. QED
      BY <1>1, <3>2, <3>7 DEF PutBack, Slot
  <2>12. ToolUndisturbed'
    BY <1>1 DEF ToolUndisturbed
  <2>13. RowUndisturbed'
    <3>1. SUFFICES ASSUME edits = 0, NEW i \in 1..n, OnlyChange(changes[i])',
                          changes'[i].path \notin Unrecorded'
                   PROVE  HoldsRow(changes[i])'
      BY <1>1, <2>4 DEF RowUndisturbed
    <3>2. CASE i = n
      <4>1. NoRow(tool.path)
        BY <2>2, <2>3, <2>4, <3>1, <3>2 DEF NoRow, OnlyChange
      <4>2. /\ tool.kind # "CREATE" => backup[txs[tool.tx].task][Slot(tool)] = tool.before
            /\ tool.kind = "DELETE" => files[tool.path] = NoFile
        BY <1>1, <1>2, <3>1, <4>1 DEF RowsInv, ToolUndisturbed
      <4>3. HoldsRow(row)
        BY <2>2, <2>3, <4>2 DEF HoldsRow
      <4>4. QED
        BY <1>1, <2>4, <3>2, <4>3 DEF HoldsRow, Slot
    <3>3. CASE i # n
      <4>1. i \in 1..Len(changes) /\ changes'[i] = changes[i]
        BY <2>4, <3>3
      <4>2. changes[i].path # tool.path
        BY <2>2, <2>3, <2>4, <3>1, <3>3, <4>1 DEF OnlyChange
      <4>3. OnlyChange(changes[i]) /\ changes[i].path \notin Unrecorded
        BY <2>4, <2>6, <3>1, <4>1, <4>2 DEF OnlyChange
      <4>4. HoldsRow(changes[i])
        BY <3>1, <4>1, <4>3 DEF RowsInv, RowUndisturbed
      <4>5. QED
        BY <1>1, <4>1, <4>4 DEF HoldsRow, Slot
    <3>4. QED
      BY <3>2, <3>3
  <2>14. QED
    BY <2>8, <2>9, <2>10, <2>11, <2>12, <2>13 DEF RowsInv
<1>6. QED
  BY <1>4, <1>5

\* A rollback that begins has undone nothing.
LEMMA BeginKeepsRows ==
    ASSUME OrderInv, RowsInv, NEW x \in TxIds, RollbackBegin(x)
    PROVE  RowsInv'
<1>1. /\ UNCHANGED <<txs, files, backup, changes, tool, edits, lost>>
      /\ undo'.tx = x /\ undo'.todo = ChangesOf(x) /\ ChangesOf(x)' = ChangesOf(x)
  BY DEF RollbackBegin, lockVars, ChangesOf
<1>2. Unrecorded' = Unrecorded
  BY <1>1 DEF Unrecorded
<1>3. KindsFit'
  BY <1>1 DEF RowsInv, KindsFit
<1>4. NewestFirst'
  BY <1>1 DEF NewestFirst
<1>5. FirstRows'
  BY <1>1 DEF RowsInv, FirstRows, FirstRow, ChangesOf
<1>6. UndoneSoFar'
  BY <1>1 DEF UndoneSoFar
<1>7. ToolUndisturbed'
  BY <1>1 DEF RowsInv, ToolUndisturbed, NoRow, Slot
<1>8. RowUndisturbed'
  BY <1>1, <1>2 DEF RowsInv, RowUndisturbed, OnlyChange, HoldsRow, Slot
<1>9. QED
  BY <1>3, <1>4, <1>5, <1>6, <1>7, <1>8 DEF RowsInv

\* The last row of a path that a rollback undoes is the transaction's first
\* there, because it goes from the newest row to the oldest.
LEMMA UndoKeepsRows ==
    ASSUME OrderInv, RowsInv, RollbackUndo
    PROVE  RowsInv'
<1>1. PICK i \in undo.todo :
        /\ NextUndo(i)
        /\ ~UndoConflict(changes[i])
        /\ files' = [files EXCEPT ![changes[i].path] = Undone(changes[i])]
        /\ undo' = [undo EXCEPT !.todo = @ \ {i}]
        /\ UNCHANGED <<lockVars, backup, manifest, changes, tool, edits, crashes, lost>>
  BY DEF RollbackUndo
<1>2. undo # NoUndo /\ UNCHANGED <<txs, backup, changes, tool, edits, lost>>
  BY <1>1 DEF NoUndo, lockVars
<1>3. /\ FileTypeOK /\ undo.tx \in TxIds /\ undo.todo \subseteq ChangesOf(undo.tx)
      /\ undo.todo \subseteq Nat /\ undo'.tx = undo.tx /\ undo'.todo = undo.todo \ {i}
  BY <1>1, <1>2 DEF OrderInv, FileInv, FileTypeOK, UndoSound
<1>4. i \in 1..Len(changes) /\ changes[i].path \in Paths /\ changes[i].kind \in Kinds
  BY <1>1, <1>3, RowTypes DEF ChangesOf
<1>5. /\ files'[changes[i].path] = Undone(changes[i])
      /\ \A p \in Paths : p # changes[i].path => files'[p] = files[p]
  BY <1>1, <1>3, <1>4 DEF FileTypeOK
<1>6. Unrecorded' = Unrecorded /\ \A y : ChangesOf(y)' = ChangesOf(y)
  BY <1>2 DEF Unrecorded, ChangesOf
<1>7. changes[i].kind = "CREATE" => changes[i].before = NoFile
  BY <1>4 DEF RowsInv, KindsFit
<1>8. KindsFit'
  BY <1>2 DEF RowsInv, KindsFit
<1>9. NewestFirst'
  <2>1. \A k \in undo.todo \ {i}, j \in ChangesOf(undo.tx) : j < k => j \in undo.todo \ {i}
    BY <1>1, <1>2, <1>3 DEF RowsInv, NewestFirst, NextUndo
  <2>2. QED
    BY <1>3, <1>6, <2>1 DEF NewestFirst
<1>10. FirstRows'
  BY <1>2 DEF RowsInv, FirstRows, FirstRow, ChangesOf
<1>11. UndoneSoFar'
  <2>1. SUFFICES ASSUME NEW k \in ChangesOf(undo.tx),
                        FirstRow(k, undo.tx, changes[k].path),
                        \A j \in undo.todo \ {i} : changes[j].path # changes[k].path,
                        LastOn(undo.tx, changes[k].path)
                 PROVE  PutBack(changes[k])'
    BY <1>2, <1>3, <1>6 DEF UndoneSoFar, FirstRow, LastOn
  <2>2. k \in 1..Len(changes) /\ changes[k].path \in Paths /\ changes[k].kind \in Kinds
    BY <1>3, RowTypes DEF ChangesOf
  <2>3. CASE changes[i].path = changes[k].path
    <3>1. k <= i
      BY <1>1, <1>3, <2>1, <2>3 DEF FirstRow
    <3>2. k < i => k \in undo.todo \ {i}
      BY <1>1, <1>2, <1>4, <2>2, <3>1 DEF RowsInv, NewestFirst
    <3>3. k = i
      BY <1>4, <2>1, <2>2, <3>1, <3>2
    <3>4. QED
      BY <1>2, <1>5, <1>7, <3>3 DEF PutBack, Undone, Slot
  <2>4. CASE changes[i].path # changes[k].path
    <3>1. PutBack(changes[k])
      BY <1>2, <2>1, <2>4 DEF RowsInv, UndoneSoFar
    <3>2. QED
      BY <1>2, <1>5, <2>2, <2>4, <3>1 DEF PutBack, Slot
  <2>5. QED
    BY <2>3, <2>4
<1>12. ToolUndisturbed'
  <2>1. SUFFICES ASSUME edits = 0, tool # NoTool, NoRow(tool.path)
                 PROVE  files'[tool.path] = files[tool.path]
    BY <1>2 DEF RowsInv, ToolUndisturbed, NoRow, Slot
  <2>2. QED
    BY <1>4, <1>5, <2>1 DEF NoRow, OrderInv, FileInv, ToolSound
<1>13. RowUndisturbed'
  <2>1. SUFFICES ASSUME edits = 0, NEW k \in 1..Len(changes), OnlyChange(changes[k]),
                        changes[k].path \notin Unrecorded
                 PROVE  HoldsRow(changes[k])'
    BY <1>2, <1>6 DEF RowUndisturbed, OnlyChange
  <2>2. HoldsRow(changes[k]) /\ changes[k].path \in Paths
    BY <1>3, <2>1, RowTypes DEF RowsInv, RowUndisturbed
  <2>3. CASE k = i
    BY <1>2, <1>5, <1>7, <2>2, <2>3 DEF HoldsRow, Undone, Slot
  <2>4. CASE k # i
    <3>1. changes[k].path # changes[i].path
      BY <1>4, <2>1, <2>4 DEF OnlyChange
    <3>2. QED
      BY <1>2, <1>5, <2>2, <3>1 DEF HoldsRow, Slot
  <2>5. QED
    BY <2>3, <2>4
<1>14. QED
  BY <1>8, <1>9, <1>10, <1>11, <1>12, <1>13 DEF RowsInv

\* An edit comes while the rollback has still to look at the path, or ends the
\* edit-free history.
LEMMA EditKeepsRows ==
    ASSUME OrderInv, RowsInv, NEW p \in Paths, NEW new \in FileState, UserEdit(p, new)
    PROVE  RowsInv'
<1>1. /\ UNCHANGED <<backup, changes, tool, undo, lost>>
      /\ undo = NoUndo \/ \E i \in undo.todo : changes[i].path = p
      /\ \A q \in Paths : q # p => files'[q] = files[q]
      /\ edits' # 0 /\ FileTypeOK
  BY DEF UserEdit, OrderInv, FileInv, FileTypeOK
<1>2. Unrecorded' = Unrecorded
  BY <1>1 DEF Unrecorded
<1>3. KindsFit'
  BY <1>1 DEF RowsInv, KindsFit
<1>4. NewestFirst'
  BY <1>1 DEF RowsInv, NewestFirst, ChangesOf
<1>5. FirstRows'
  BY <1>1 DEF RowsInv, FirstRows, FirstRow, ChangesOf
<1>6. UndoneSoFar'
  <2>1. SUFFICES ASSUME undo # NoUndo, NEW i \in ChangesOf(undo.tx),
                        FirstRow(i, undo.tx, changes[i].path),
                        \A j \in undo.todo : changes[j].path # changes[i].path,
                        LastOn(undo.tx, changes[i].path)
                 PROVE  PutBack(changes[i])'
    BY <1>1, <1>2 DEF UndoneSoFar, FirstRow, LastOn, ChangesOf
  <2>2. PutBack(changes[i])
    BY <2>1 DEF RowsInv, UndoneSoFar
  <2>3. changes[i].path # p /\ changes[i].path \in Paths
    BY <1>1, <2>1, RowTypes DEF ChangesOf
  <2>4. QED
    BY <1>1, <2>2, <2>3 DEF PutBack, Slot
<1>7. ToolUndisturbed' /\ RowUndisturbed'
  BY <1>1 DEF ToolUndisturbed, RowUndisturbed
<1>8. QED
  BY <1>3, <1>4, <1>5, <1>6, <1>7 DEF RowsInv

\* Every step keeps the invariant.
LEMMA RowsStep ==
    ASSUME OrderInv, RowsInv, [FileNext]_vars
    PROVE  RowsInv'
<1>1. \A x \in TxIds : txs[x].state # "ABSENT" => txs'[x].task = txs[x].task
  BY StepImplements, TransactionsStay DEF OrderInv, FileInv
<1>2. CASE \/ TakeWriteLock \/ LockOnly \/ UNCHANGED vars
           \/ \E t \in Tasks, l \in LockIds, x \in TxIds : PrepareFiles(t, l, x)
           \/ \E x \in TxIds : EndExecution(x)
           \/ RollbackStop \/ RollbackDone
  <2>1. UNCHANGED <<files, backup, changes, edits, tool, lost>> /\ (undo' = undo \/ undo' = NoUndo)
    BY <1>2 DEF TakeWriteLock, LockOnly, vars, fileVars, PrepareFiles, EndExecution, RollbackStop,
       RollbackDone
  <2>2. QED
    BY <1>1, <2>1, BystanderKeepsRows DEF Unrecorded
<1>3. CASE ToolRefused \/ Crash
  <2>1. /\ UNCHANGED <<files, backup, changes, edits>> /\ tool' = NoTool
        /\ undo' = undo \/ undo' = NoUndo
    BY <1>3 DEF ToolRefused, Crash
  <2>2. ToolRefused => tool.phase # "written" /\ lost' = lost
    BY DEF ToolRefused, ReadyToWrite
  <2>3. Unrecorded' = Unrecorded
    BY <1>3, <2>1, <2>2 DEF Crash, Unrecorded, NoTool
  <2>4. QED
    BY <1>1, <2>1, <2>3, BystanderKeepsRows
<1>4. QED
  BY <1>2, <1>3, CheckKeepsRows, BackupKeepsRows, WriteKeepsRows, RecordKeepsRows, BeginKeepsRows,
     UndoKeepsRows, EditKeepsRows
     DEF FileNext, CoreNext, Tool, Rollback, Environment

\* It holds initially, and always.
LEMMA RowsInvariance == FileSpec => [](OrderInv /\ RowsInv)
<1>1. FileInit => RowsInv
  BY DEF FileInit, RowsInv, KindsFit, NewestFirst, FirstRows, UndoneSoFar, ToolUndisturbed,
     RowUndisturbed, NoTool
<1>2. OrderInv /\ RowsInv /\ [FileNext]_vars => OrderInv' /\ RowsInv'
  BY OrderStep, RowsStep
<1>3. QED
  BY <1>1, <1>2, OrderInit, PTL DEF FileSpec

\* Only the end of a rollback makes a transaction ROLLED_BACK.
LEMMA RollsBackAtDone ==
    ASSUME OrderInv, [FileNext]_vars, NEW x \in TxIds, RollsBack(x)
    PROVE  RollbackDone /\ undo.tx = x
<1>1. txs \in [TxIds -> TxRow] /\ (undo # NoUndo => undo.tx \in TxIds)
  BY DEF OrderInv, FileInv, TypeOK, UndoSound
<1>2. txs' # txs
  BY DEF RollsBack
<1>3. ~ (TakeWriteLock \/ LockOnly \/ Tool \/ Environment \/ RollbackUndo \/ UNCHANGED vars)
  BY <1>2 DEF TakeWriteLock, LockOnly, Tool, Environment, RollbackUndo, vars, lockVars, Acquire, LockStep,
     ScanProject, Tick, AcquireRecoveryRequired, AcquireConflict, AcquireGranted, Heartbeat,
     ForceRelease, ReleaseUnused, ToolCheck, ToolBackup, ToolWrite, ToolRefused, ToolRecord, Crash, UserEdit
<1>4. ~ \E y \in TxIds : RollbackBegin(y)
  BY <1>2 DEF RollbackBegin, lockVars
<1>5. ~ \E t \in Tasks, l \in LockIds, y \in TxIds : PrepareFiles(t, l, y)
  BY <1>1 DEF RollsBack, PrepareFiles, Prepare
<1>6. ~ \E y \in TxIds : EndExecution(y)
  BY <1>1 DEF RollsBack, EndExecution, Commit, MarkExecutionFailed, TxRow
<1>7. ~ RollbackStop
  BY <1>1 DEF RollsBack, RollbackStop, RollbackConflict, NoUndo, TxRow
<1>8. RollbackDone
  BY <1>3, <1>4, <1>5, <1>6, <1>7 DEF FileNext, CoreNext, Rollback
<1>9. undo.tx = x
  BY <1>1, <1>8 DEF RollsBack, RollbackDone, ResolveByRollback
<1>10. QED
  BY <1>8, <1>9

-----------------------------------------------------------------------------
(* Theorems *)

\* Workspace, backups, rows and the tools' local state keep their types.
THEOREM FileTypeCorrect == FileSpec => []FileTypeOK
<1>1. FileInv => FileTypeOK
  BY DEF FileInv
<1>2. QED
  BY <1>1, FileInvariance, PTL

\* The file transactions implement the lock protocol: a rollback that runs
\* file by file, crashes and is retried looks to it like one atomic end of a
\* transaction (transactions/rollback.py, transactions/recovery.py).
THEOREM ImplementsLockProtocol == FileSpec => SessionSpec
<1>1. FileInit => Init
  BY DEF FileInit
<1>2. FileInv /\ [FileNext]_vars => [SessionNext]_lockVars
  BY StepImplements DEF FileInv
<1>3. QED
  BY <1>1, <1>2, FileInvariance, PTL DEF FileSpec, SessionSpec

\* So with files, too, an ACTIVE write lock excludes every other ACTIVE lock, at
\* most one transaction of a project is unfinished, and no lock but its own is
\* ACTIVE meanwhile (lock_service.py, rollback.py, recovery.py).
THEOREM FilesUnderOneWriter ==
    FileSpec => [](WriteExcludesAll /\ OneUnfinished /\ UnfinishedOwnsWorkspace)
BY ImplementsLockProtocol, WriteExclusion, AtMostOneUnfinished, RecoveryBeforeNextWriter, PTL

\* A transaction that ends ROLLED_BACK has put every path it was the last to
\* change back to what it found there, as long as no later patch reused its
\* backup slots: across crashes, retries, user edits and tools of later
\* transactions (the loop of transactions/rollback.py).
THEOREM RolledBackMeansRestored == FileSpec => RollbackRestores
<1> DEFINE Restores == \A x \in TxIds : RollsBack(x) /\ BackupsIntact(x) =>
                          \A c \in ChangedBy(x) :
                              LastOn(x, c.path) => files'[c.path] = FirstBefore(x, c.path)
<1>1. ASSUME OrderInv, RowsInv, [FileNext]_vars
      PROVE  Restores
  <2>1. SUFFICES ASSUME NEW x \in TxIds, RollsBack(x), BackupsIntact(x),
                        NEW i \in ChangesOf(x), LastOn(x, changes[i].path)
                 PROVE  files'[changes[i].path] = FirstBefore(x, changes[i].path)
    BY DEF ChangedBy
  <2> DEFINE p == changes[i].path
             on == {j \in ChangesOf(x) : changes[j].path = p}
  <2>2. RollbackDone /\ undo.tx = x
    BY <1>1, <2>1, RollsBackAtDone
  <2>3. undo # NoUndo /\ undo.todo = {} /\ files' = files
    BY <2>2 DEF RollbackDone
  <2>4. /\ \A j \in ChangesOf(x) : j \in 1..Len(changes) /\ changes[j].tx = x
        /\ Len(changes) \in Nat
    BY <1>1, RowTypes DEF OrderInv, FileInv, ChangesOf
  <2>5. PICK j \in 1..Len(changes) : FirstRow(j, x, p)
    BY <1>1, <2>4 DEF RowsInv, FirstRows
  <2>6. j \in on /\ \A k \in on : j <= k
    BY <2>5 DEF FirstRow
  <2>7. (CHOOSE k \in on : \A m \in on : k <= m) = j
    <3> DEFINE least == CHOOSE k \in on : \A m \in on : k <= m
    <3>1. least \in on /\ \A m \in on : least <= m
      BY <2>6
    <3> HIDE DEF least
    <3>2. least <= j /\ j <= least /\ least \in Nat /\ j \in Nat
      BY <2>4, <2>6, <3>1
    <3>3. least = j
      BY <3>2
    <3>4. QED
      BY <3>3 DEF least
  <2>8. FirstBefore(x, p) = changes[j].before
    BY <2>7 DEF FirstBefore
  <2>9. PutBack(changes[j])
    BY <1>1, <2>1, <2>2, <2>3, <2>5 DEF RowsInv, UndoneSoFar, FirstRow
  <2>10. files[p] = changes[j].before
    BY <2>1, <2>6, <2>9 DEF PutBack, BackupsIntact, ChangedBy
  <2>11. QED
    BY <2>3, <2>8, <2>10
<1>2. QED
  BY <1>1, RowsInvariance, PTL DEF RollbackRestores, FileSpec

\* A rollback, retried after any number of crashes, meets a conflict only if
\* the user edited something or a tool's write went unrecorded, when each of
\* its paths was changed once: what an interrupted rollback has restored is
\* recognised (_restore_backup, _rollback_create).
THEOREM ConflictsComeFromEdits == FileSpec => ConflictNeedsEdit
<1> DEFINE Needs == \A x \in TxIds :
                       (undo.tx = x /\ RollbackStop /\ \A c \in ChangedBy(x) : OnlyChange(c))
                       => edits > 0 \/ \E c \in ChangedBy(x) : c.path \in Unrecorded
<1>1. ASSUME OrderInv, RowsInv
      PROVE  Needs
  <2>1. SUFFICES ASSUME RollbackStop, \A c \in ChangedBy(undo.tx) : OnlyChange(c), edits = 0,
                        \A c \in ChangedBy(undo.tx) : c.path \notin Unrecorded
                 PROVE  FALSE
    BY <1>1 DEF OrderInv, FileInv, FileTypeOK
  <2>2. PICK i \in undo.todo : UndoConflict(changes[i])
    BY <2>1 DEF RollbackStop
  <2>3. i \in ChangesOf(undo.tx)
    BY <1>1, <2>2 DEF OrderInv, FileInv, UndoSound, NoUndo
  <2>4. changes[i] \in ChangedBy(undo.tx) /\ i \in 1..Len(changes) /\ changes[i].kind \in Kinds
    BY <1>1, <2>3, RowTypes DEF OrderInv, FileInv, ChangedBy, ChangesOf
  <2>5. files[changes[i].path] \in {changes[i].before, changes[i].after}
    BY <1>1, <2>1, <2>4 DEF RowsInv, RowUndisturbed, HoldsRow
  <2>6. QED
    BY <1>1, <2>2, <2>4, <2>5 DEF RowsInv, KindsFit, UndoConflict, Kinds
<1>2. QED
  BY <1>1, RowsInvariance, PTL DEF ConflictNeedsEdit

=============================================================================
