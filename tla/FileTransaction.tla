--------------------------- MODULE FileTransaction ---------------------------
(***************************************************************************)
(* The files of a project's workspace under task transactions: the three   *)
(* write tools (tools/apply_patch.py, create_file.py, delete_file.py), the *)
(* backups they make, rollback (transactions/rollback.py) and recovery     *)
(* (transactions/recovery.py, api/recovery.py), beside a user who edits    *)
(* files with other programs and a process that may die between any two    *)
(* file operations.  Locks and transaction states are WorkspaceLock's: an  *)
(* action here is one of its actions together with its effect on files.    *)
(*                                                                         *)
(* The services are modelled as their interfaces offer them: one database  *)
(* transaction per call.  (execute_task puts a whole run into one; see     *)
(* TaskExecution.)  A file's content stands for its SHA-256 too, and the   *)
(* last check of a file and the write that follows it are one step.        *)
(***************************************************************************)
EXTENDS WorkspaceLock, Sequences

CONSTANTS
    Paths,       \* relative paths in the workspace
    Contents,    \* what a file may hold
    NoFile,      \* the path does not exist
    NoTx, NoPath,  \* no transaction, no path
    MaxChanges,  \* bound: rows of file_changes and paths in lost
    MaxEdits,    \* bound: edits by the user
    MaxCrashes   \* bound: crashes

ASSUME FileConstants ==
    /\ NoFile \notin Contents
    /\ NoTx \notin TxIds
    /\ MaxChanges \in Nat
    /\ MaxEdits \in Nat
    /\ MaxCrashes \in Nat

VARIABLES
    files,      \* the workspace
    backup,     \* per task and slot, the bytes of the backup file
    manifest,   \* per task, the hashes of baseline-manifest.json
    changes,    \* rows of file_changes in the order of created_at
    tool,       \* a write tool between two of its file operations
    undo,       \* a rollback between two of its file operations
    edits,      \* edits made by the user so far
    crashes,    \* crashes so far
    lost        \* paths a tool wrote without ever recording it

fileVars == <<files, backup, manifest, changes, tool, undo, edits, crashes, lost>>
vars == <<lockVars, fileVars>>

FileState == Contents \union {NoFile}
Kinds == {"MODIFY", "CREATE", "DELETE"}
Change == [tx: TxIds, task: Tasks, path: Paths, kind: Kinds, before: FileState, after: FileState]

\* backups/<task>/files/<path> and backups/<task>/deleted-files/<path>: one slot
\* per task and path, whatever the transaction or the number of changes.
Slots == {"files", "deleted-files"} \X Paths
Slot(c) == <<IF c.kind = "DELETE" THEN "deleted-files" ELSE "files", c.path>>

Phases == {"checked", "backedUp", "written"}
ToolState == [tx: TxIds \union {NoTx}, path: Paths \union {NoPath}, kind: Kinds,
              before: FileState, phase: Phases]
NoTool == [tx |-> NoTx, path |-> NoPath, kind |-> "CREATE", before |-> NoFile, phase |-> "checked"]
NoUndo == [tx |-> NoTx, todo |-> {}]

\* A transaction that some session is working on is invisible to the others.
Idle(x) == tool.tx # x /\ undo.tx # x

-----------------------------------------------------------------------------
(* Write tools *)

\* prepare() also writes the manifest, in the task's directory.
PrepareFiles(t, l, x) ==
    /\ Prepare(t, l, x)
    /\ manifest' = [manifest EXCEPT ![t] = files]
    /\ UNCHANGED <<files, backup, changes, tool, undo, edits, crashes, lost>>

\* _prepared_transaction, in each of the tools.
PreparedTransaction(x) == txs[x].state = "PREPARED" /\ undo.tx # x

\* The checks of apply(), create() and delete(): the file must exist, or must
\* not.  A patch also compares the expected hash, and its replacements must match.
ToolCheck(x, p, kind) ==
    /\ tool = NoTool /\ Len(changes) + Cardinality(lost) < MaxChanges
    /\ PreparedTransaction(x)
    /\ (kind = "CREATE") = (files[p] = NoFile)
    /\ tool' = [tx |-> x, path |-> p, kind |-> kind, before |-> files[p], phase |-> "checked"]
    /\ UNCHANGED <<lockVars, files, backup, manifest, changes, undo, edits, crashes, lost>>

\* _backup_file reads the target again and overwrites the task's slot for it.
ToolBackup ==
    /\ tool # NoTool
    /\ tool.phase = "checked"
    /\ tool.kind # "CREATE"
    /\ files[tool.path] # NoFile
    /\ backup' = [backup EXCEPT ![txs[tool.tx].task][Slot(tool)] = files[tool.path]]
    /\ tool' = [tool EXCEPT !.phase = "backedUp"]
    /\ UNCHANGED <<lockVars, files, manifest, changes, undo, edits, crashes, lost>>

\* What still holds when the tool writes: a patch compares the hash once more,
\* create() opens with "x", delete() only needs a file to unlink.
MayWrite ==
    CASE tool.kind = "CREATE" -> files[tool.path] = NoFile
      [] tool.kind = "MODIFY" -> files[tool.path] = tool.before
      [] tool.kind = "DELETE" -> files[tool.path] # NoFile

ReadyToWrite == tool # NoTool /\ tool.phase = (IF tool.kind = "CREATE" THEN "checked" ELSE "backedUp")

\* os.replace, the write of the new file, or unlink.  A patch and a new file
\* may have any content.
ToolWrite(new) ==
    /\ ReadyToWrite
    /\ MayWrite
    /\ (tool.kind = "DELETE") = (new = NoFile)
    /\ files' = [files EXCEPT ![tool.path] = new]
    /\ tool' = [tool EXCEPT !.phase = "written"]
    /\ UNCHANGED <<lockVars, backup, manifest, changes, undo, edits, crashes, lost>>

\* "external modification before replace", "existing file", or the file is gone.
ToolRefused ==
    /\ \/ ReadyToWrite /\ ~MayWrite
       \/ tool # NoTool /\ tool.phase = "checked" /\ tool.kind # "CREATE" /\ files[tool.path] = NoFile
    /\ tool' = NoTool
    /\ UNCHANGED <<lockVars, files, backup, manifest, changes, undo, edits, crashes, lost>>

\* Mutant of ToolRecord: task and transaction in each other's column.
ToolRecordSwapped ==
    /\ tool.phase = "written"
    /\ changes' = Append(changes, [tx |-> txs[tool.tx].task, task |-> tool.tx, path |-> tool.path,
                                   kind |-> tool.kind, before |-> tool.before,
                                   after |-> files[tool.path]])
    /\ tool' = NoTool
    /\ UNCHANGED <<lockVars, files, backup, manifest, undo, edits, crashes, lost>>

\* The rows.  after_hash is read from the file again, so an edit made since
\* the write is recorded as the tool's.  That read raises if the file is gone,
\* and it and the inserts may raise for other reasons: then there is no row.
ToolRecord ==
    /\ tool.phase = "written"
    /\ \/ /\ lost' = lost \union {tool.path}
          /\ UNCHANGED changes
       \/ /\ tool.kind = "DELETE" \/ files[tool.path] # NoFile
          /\ changes' = Append(changes, [tx |-> tool.tx, task |-> txs[tool.tx].task,
                                          path |-> tool.path, kind |-> tool.kind,
                                          before |-> tool.before,
                                          after |-> IF tool.kind = "DELETE" THEN NoFile
                                                    ELSE files[tool.path]])
          /\ UNCHANGED lost
    /\ tool' = NoTool
    /\ UNCHANGED <<lockVars, files, backup, manifest, undo, edits, crashes>>

-----------------------------------------------------------------------------
(* Rollback *)

\* _changes: the rows of a transaction, by their place in the table.
ChangesOf(x) == {i \in 1..Len(changes) : changes[i].tx = x}

\* Mutant of UndoConflict: a file that an interrupted rollback has already
\* restored is not recognised.
UndoConflictStrict(c) == files[c.path] # c.after

\* _rollback_create: the file must be missing or what the tool wrote.
\* _restore_backup: it must be what the tool wrote (MODIFY), missing (DELETE)
\* or already have the original hash.
UndoConflict(c) ==
    CASE c.kind = "CREATE" -> files[c.path] \notin {NoFile, c.after}
      [] c.kind = "MODIFY" -> files[c.path] \notin {c.before, c.after}
      [] c.kind = "DELETE" -> files[c.path] \notin {c.before, NoFile}

\* What the path holds after the change is undone: nothing, the original if it
\* is there already, else the bytes in the backup slot.
Undone(c) ==
    IF c.kind = "CREATE" THEN NoFile
    ELSE IF files[c.path] = c.before THEN c.before
    ELSE backup[c.task][Slot(c)]

\* resolve() takes the task's transaction that needs recovery, the one last
\* updated if there are several (any of them here: updated_at is not modelled),
\* and only if there is none the COMMITTED one last updated, which is the newest:
\* transactions of a task commit in the order they were made.
RecoveryTarget(t, x) ==
    LET open == {y \in TxIds : txs[y].task = t /\ NeedsRecovery(y)}
        done == {y \in TxIds : txs[y].task = t /\ txs[y].state = "COMMITTED"}
    IN  IF open # {} THEN x \in open ELSE x \in done /\ \A y \in done : y <= x

RollbackBegin(x) ==
    /\ undo = NoUndo
    /\ Idle(x)
    /\ RecoveryTarget(txs[x].task, x)
    /\ undo' = [tx |-> x, todo |-> ChangesOf(x)]
    /\ UNCHANGED <<lockVars, files, backup, manifest, changes, tool, edits, crashes, lost>>

\* Mutant of NextUndo: oldest change first.
NextUndoOldest(i) == i \in undo.todo /\ \A j \in undo.todo : i <= j

\* reversed(changes): the row that the loop undoes next.
NextUndo(i) == i \in undo.todo /\ \A j \in undo.todo : j <= i

\* One turn of the loop.
RollbackUndo ==
    \E i \in undo.todo :
        /\ NextUndo(i)
        /\ ~UndoConflict(changes[i])
        /\ files' = [files EXCEPT ![changes[i].path] = Undone(changes[i])]
        /\ undo' = [undo EXCEPT !.todo = @ \ {i}]
        /\ UNCHANGED <<lockVars, backup, manifest, changes, tool, edits, crashes, lost>>

\* RollbackConflict: what is undone stays undone.
RollbackStop ==
    \E i \in undo.todo :
        /\ NextUndo(i)
        /\ UndoConflict(changes[i])
        /\ RollbackConflict(undo.tx)
        /\ undo' = NoUndo
        /\ UNCHANGED <<files, backup, manifest, changes, tool, edits, crashes, lost>>

\* The loop is through: resolve_by_rollback settles lock and alerts.
RollbackDone ==
    /\ undo # NoUndo
    /\ undo.todo = {}
    /\ ResolveByRollback(undo.tx)
    /\ undo' = NoUndo
    /\ UNCHANGED <<files, backup, manifest, changes, tool, edits, crashes, lost>>

-----------------------------------------------------------------------------
(* Environment *)

\* The user saves or removes a file with another program; while a rollback
\* runs, one that it has still to look at.
UserEdit(p, new) ==
    /\ edits < MaxEdits
    /\ files[p] # new
    /\ undo = NoUndo \/ \E i \in undo.todo : changes[i].path = p
    /\ files' = [files EXCEPT ![p] = new]
    /\ edits' = edits + 1
    /\ UNCHANGED <<lockVars, backup, manifest, changes, tool, undo, crashes, lost>>

\* The process dies between two file operations: the call's rows are lost,
\* what it did to files stays.
Crash ==
    /\ tool # NoTool \/ undo # NoUndo
    /\ crashes < MaxCrashes
    /\ crashes' = crashes + 1
    /\ tool' = NoTool
    /\ undo' = NoUndo
    /\ lost' = lost \union (IF tool.phase = "written" THEN {tool.path} ELSE {})
    /\ UNCHANGED <<lockVars, files, backup, manifest, changes, edits>>

FileInit ==
    /\ Init
    /\ files \in [Paths -> FileState]
    /\ backup = [t \in Tasks |-> [s \in Slots |-> NoFile]]
    /\ manifest = [t \in Tasks |-> [p \in Paths |-> NoFile]]
    /\ changes = <<>>
    /\ tool = NoTool
    /\ undo = NoUndo
    /\ edits = 0
    /\ crashes = 0
    /\ lost = {}

TakeWriteLock ==
    \E t \in Tasks, l \in LockIds : AcquireGranted(t, "WRITE", l) /\ UNCHANGED fileVars

LockOnly == (Acquire \/ LockStep \/ ScanProject \/ Tick) /\ UNCHANGED fileVars

EndExecution(x) == Idle(x) /\ (Commit(x) \/ MarkExecutionFailed(x)) /\ UNCHANGED fileVars

Tool ==
    \/ \E x \in TxIds, p \in Paths, kind \in Kinds : ToolCheck(x, p, kind)
    \/ ToolBackup
    \/ \E new \in FileState : ToolWrite(new)
    \/ ToolRefused
    \/ ToolRecord

Rollback == (\E x \in TxIds : RollbackBegin(x)) \/ RollbackUndo \/ RollbackStop \/ RollbackDone

Environment == Crash \/ \E p \in Paths, new \in FileState : UserEdit(p, new)

\* Everything that touches files, with locks that are granted and do not
\* expire.
CoreNext ==
    \/ TakeWriteLock
    \/ \E t \in Tasks, l \in LockIds, x \in TxIds : PrepareFiles(t, l, x)
    \/ \E x \in TxIds : EndExecution(x)
    \/ Tool
    \/ Rollback
    \/ Environment

FileNext == CoreNext \/ LockOnly

CoreSpec == FileInit /\ [][CoreNext]_vars
FileSpec == FileInit /\ [][FileNext]_vars

-----------------------------------------------------------------------------
(* Properties *)

\* Workspace, backups and rows have values of their types.
FileTypeOK ==
    /\ files \in [Paths -> FileState]
    /\ backup \in [Tasks -> [Slots -> FileState]]
    /\ manifest \in [Tasks -> [Paths -> FileState]]
    /\ changes \in Seq(Change)
    /\ tool \in ToolState
    /\ undo \in [tx: TxIds \union {NoTx}, todo: SUBSET Nat]
    /\ edits \in Nat
    /\ crashes \in Nat
    /\ lost \subseteq Paths

ChangedBy(x) == {changes[i] : i \in ChangesOf(x)}
FirstBefore(x, p) ==
    LET on == {i \in ChangesOf(x) : changes[i].path = p}
    IN  changes[CHOOSE i \in on : \A j \in on : i <= j].before

\* The backup slot of every change still has the bytes the change replaced.
BackupsIntact(x) ==
    \A c \in ChangedBy(x) : c.kind # "CREATE" => backup[c.task][Slot(c)] = c.before

RollsBack(x) == txs[x].state # "ROLLED_BACK" /\ txs'[x].state = "ROLLED_BACK"

\* Paths that a tool wrote and did not record, for good or yet.
Unrecorded == lost \union (IF tool.phase = "written" THEN {tool.path} ELSE {})

\* Nobody but the transaction, and the transactions before it, wrote the path.
\* (Rollback takes no workspace lock: a tool may write while it runs.)
LastOn(x, p) ==
    /\ p \notin Unrecorded
    /\ \A i \in 1..Len(changes) : changes[i].path = p => changes[i].tx <= x

\* A transaction that ends ROLLED_BACK has put every path it was the last to
\* change back to what it was before its first change there, provided no later
\* patch reused its backup slots (rollback.py).  Across crashes, retries and
\* user edits.
RollbackRestores ==
    [][\A x \in TxIds : RollsBack(x) /\ BackupsIntact(x) =>
          \A c \in ChangedBy(x) :
              LastOn(x, c.path) => files'[c.path] = FirstBefore(x, c.path)]_vars

\* The same without the proviso on backups.
RollbackRestoresAlways ==
    [][\A x \in TxIds : RollsBack(x) =>
          \A c \in ChangedBy(x) :
              LastOn(x, c.path) => files'[c.path] = FirstBefore(x, c.path)]_vars

OnlyChange(c) == \A i, j \in 1..Len(changes) :
                    changes[i].path = c.path /\ changes[j].path = c.path => i = j

\* A rollback that a crash interrupts and that is tried again meets a conflict
\* only if the user edited something or a tool's write is not recorded,
\* provided each path was changed once (rollback.py).
ConflictNeedsEdit ==
    [][\A x \in TxIds :
          (undo.tx = x /\ RollbackStop /\ \A c \in ChangedBy(x) : OnlyChange(c))
          => edits > 0 \/ \E c \in ChangedBy(x) : c.path \in Unrecorded]_vars

=============================================================================
