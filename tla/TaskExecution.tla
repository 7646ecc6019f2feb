---------------------------- MODULE TaskExecution ----------------------------
(***************************************************************************)
(* How the program runs a task: api/execution.py, execute_task of          *)
(* execution/orchestrator.py with its LazyWriteContext, the agent loop of  *)
(* agent/runtime.py, one turn of agent/iteration.py and tools/dispatcher,  *)
(* beside requests for other tasks, recovery and a process that may die.   *)
(*                                                                         *)
(* A whole execution is ONE database session.  Its first flush takes the   *)
(* single write lock of SQLite and the commit at the end of session_scope  *)
(* gives it up, so executions are serial and other sessions see nothing of *)
(* one before its end; its writes to files are seen at once.               *)
(*                                                                         *)
(* The model answers with an action and a result out of small sets.  Which *)
(* actions the policy allows and what a patch does to a file are left to   *)
(* the nondeterminism of success and failure.  A cancel request has no     *)
(* action: cancel_task sets a token in a new AgentRuntime, and no loop     *)
(* ever reads it (main.py configures none to share).                       *)
(***************************************************************************)
EXTENDS Integers, FiniteSets

CONSTANTS
    Tasks,        \* tasks that are not BLOCKED and have an executable policy
    Execs,        \* executions in the order of their first flush
    Reads,        \* fingerprints of read-only actions
    Results,      \* summarised results of read-only actions
    NoTask, NoExec,
    MaxIterations, MaxParseFailures, MaxStalled, MaxCorrections  \* RuntimePolicy

ASSUME ExecConstants ==
    /\ Execs \subseteq Nat
    /\ NoExec \notin Execs
    /\ NoTask \notin Tasks
    /\ MaxIterations \in Nat \ {0}
    /\ MaxParseFailures \in Nat
    /\ MaxStalled \in Nat
    /\ MaxStalled >= 2
    /\ MaxCorrections \in Nat

VARIABLES
    waiting,   \* tasks with a request that is validated and has flushed nothing
    running,   \* the execution that holds the database's write lock
    loop,      \* local variables of run_task
    ex         \* per execution, its rows; a LOST one has only its file

execVars == <<waiting, running, loop, ex>>

States == {"ABSENT", "RUNNING", "COMPLETED", "FAILED", "LOST"}
TxStates == {"NONE", "PREPARED", "COMMITTED", "CONFLICT", "ROLLED_BACK"}
Verdicts == {"NONE", "FILES_CHANGED", "EXECUTION_FAILED", "ACTION_PARSE_FAILED", "GOVERNANCE_PAUSED",
             "TOOL_EXECUTION_FAILED", "STALLED", "STALLED_READ_ONLY_LOOP", "MAX_ITERATIONS"}

\* tried: it has rows of write tools.  row: it has a FileChange.  wrote: its
\* change is in the workspace.
Execution == [task: Tasks \union {NoTask}, state: States, tx: TxStates,
              tried: BOOLEAN, row: BOOLEAN, wrote: BOOLEAN]
Loop == [it: Nat, parse: Nat, stalled: Nat, streak: Nat, corrections: Nat,
         seen: SUBSET Reads, evidence: SUBSET Results, verdict: Verdicts]

Absent == [task |-> NoTask, state |-> "ABSENT", tx |-> "NONE",
           tried |-> FALSE, row |-> FALSE, wrote |-> FALSE]
FreshLoop == [it |-> 0, parse |-> 0, stalled |-> 0, streak |-> 0, corrections |-> 0,
              seen |-> {}, evidence |-> {}, verdict |-> "NONE"]

Committed(e) == ex[e].state \in {"COMPLETED", "FAILED"}
SameTask(e) == {f \in Execs : ex[f].task = ex[e].task /\ (f = e \/ Committed(f))}

-----------------------------------------------------------------------------
(* Requests *)

\* execute() and execute_task() up to the first flush: reads only.  A task that
\* is COMPLETED or FAILED may be executed again.
Request(t) ==
    /\ t \notin waiting
    /\ waiting' = waiting \union {t}
    /\ UNCHANGED <<running, loop, ex>>

NextExec(e) == ex[e].state = "ABSENT" /\ \A f \in Execs : f < e => ex[f].state # "ABSENT"

\* _create_iteration of the first turn: the flush gets the write lock.
Begin(t, e) ==
    /\ t \in waiting
    /\ running = NoExec
    /\ NextExec(e)
    /\ waiting' = waiting \ {t}
    /\ running' = e
    /\ loop' = FreshLoop
    /\ ex' = [ex EXCEPT ![e] = [Absent EXCEPT !.task = t, !.state = "RUNNING"]]

\* ... or finds it held for longer than the busy timeout: "database is locked",
\* the handler's own flush fails too and the session is rolled back.
Busy(t) ==
    /\ t \in waiting
    /\ running # NoExec
    /\ waiting' = waiting \ {t}
    /\ UNCHANGED <<running, loop, ex>>

-----------------------------------------------------------------------------
(* The agent loop *)

InLoop == running # NoExec /\ loop.verdict = "NONE"

\* Mutant of HasFileChanges: the rows of every task count.
AnyFileChanges(e) == \E f \in Execs : ex[f].row

\* _file_change_count: the rows of the transaction once there is one, before
\* that all the rows of the task.
HasFileChanges(e) ==
    IF ex[e].tx # "NONE" THEN ex[e].row ELSE \E f \in SameTask(e) : ex[f].row

\* _write_tool_count > 0
HasWriteRows(e) == \E f \in SameTask(e) : ex[f].tried

\* The turn is over; the loop goes on unless it was the last one.
NextTurn(l) ==
    [l EXCEPT !.it = @ + 1,
              !.verdict = IF l.it + 1 >= MaxIterations THEN "MAX_ITERATIONS" ELSE "NONE"]

Stop(l, code) == [l EXCEPT !.it = @ + 1, !.verdict = code]

\* Mutant of TurnRaises: the exception's own code.
TurnRaisesOwnCode(code) ==
    /\ InLoop
    /\ loop' = Stop(loop, "PROVIDER_TIMEOUT")
    /\ UNCHANGED <<waiting, running, ex>>

\* The provider raises, or governance does not allow the action (only a runner
\* that was given rules).
TurnRaises(code) ==
    /\ InLoop
    /\ code \in {"EXECUTION_FAILED", "GOVERNANCE_PAUSED"}
    /\ loop' = Stop(loop, code)
    /\ UNCHANGED <<waiting, running, ex>>

\* The answer is not a valid AgentAction.
TurnInvalid ==
    /\ InLoop
    /\ LET l == [loop EXCEPT !.parse = @ + 1]
       IN  loop' = IF l.parse >= MaxParseFailures THEN Stop(l, "ACTION_PARSE_FAILED") ELSE NextTurn(l)
    /\ UNCHANGED <<waiting, running, ex>>

\* A tool fails for good; a read-only one leaves nothing that is counted.
ReadFails ==
    /\ InLoop
    /\ loop' = Stop(loop, "TOOL_EXECUTION_FAILED")
    /\ UNCHANGED <<waiting, running, ex>>

\* Mutant of AfterRead: the stall check comes before the correction.
AfterReadStallFirst(l, r, v, tried) ==
    LET fresh == v \notin l.evidence
        n == [l EXCEPT !.seen = @ \union {r}, !.evidence = @ \union {v},
                       !.streak = IF fresh THEN 0 ELSE @ + 1,
                       !.stalled = IF fresh THEN 0 ELSE @ + 1]
    IN  IF n.stalled >= MaxStalled - 1 THEN Stop(n, "STALLED")
        ELSE IF ~tried /\ r \in l.seen /\ n.corrections < MaxCorrections
        THEN NextTurn([n EXCEPT !.corrections = @ + 1])
        ELSE NextTurn(n)

\* What run_task does after a read-only action that succeeded and no file
\* change: progress is a result not seen before.
AfterRead(l, r, v, tried) ==
    LET fresh == v \notin l.evidence
        n == [l EXCEPT !.seen = @ \union {r}, !.evidence = @ \union {v},
                       !.streak = IF fresh THEN 0 ELSE @ + 1,
                       !.stalled = IF fresh THEN 0 ELSE @ + 1]
        idle == n.streak >= 2 \/ r \in l.seen
    IN  IF ~tried /\ idle /\ n.corrections < MaxCorrections
        THEN NextTurn([n EXCEPT !.corrections = @ + 1])
        ELSE IF n.stalled >= MaxStalled
        THEN Stop(n, IF ~tried /\ n.corrections >= MaxCorrections
                     THEN "STALLED_READ_ONLY_LOOP" ELSE "STALLED")
        ELSE NextTurn(n)

ReadSucceeds(r, v) ==
    /\ InLoop
    /\ loop' = IF HasFileChanges(running) THEN Stop(loop, "FILES_CHANGED")
               ELSE AfterRead(loop, r, v, HasWriteRows(running))
    /\ UNCHANGED <<waiting, running, ex>>

\* _assert_grounded_target refuses a patch: a row, feedback, and no transaction.
WriteUngrounded ==
    /\ InLoop
    /\ ex' = [ex EXCEPT ![running].tried = TRUE]
    /\ loop' = NextTurn(loop)
    /\ UNCHANGED <<waiting, running>>

\* The policy denies the write or the lock is refused: no transaction.  Or the
\* tool raises inside one (TOOL_EXCEPTION): before it touched the file, or after,
\* when it reads the file back or inserts its rows, and then no row is left.
WriteFails(tx, changed) ==
    /\ InLoop
    /\ tx \in {ex[running].tx, "PREPARED"}
    /\ changed => tx = "PREPARED"
    /\ ex' = [ex EXCEPT ![running].tried = TRUE, ![running].tx = tx,
                        ![running].wrote = @ \/ changed]
    /\ loop' = Stop(loop, "TOOL_EXECUTION_FAILED")
    /\ UNCHANGED <<waiting, running>>

\* ensure_prepared, then "patch mismatch": the agent may try again.
PatchMismatch ==
    /\ InLoop
    /\ ex' = [ex EXCEPT ![running].tried = TRUE, ![running].tx = "PREPARED"]
    /\ loop' = NextTurn(loop)
    /\ UNCHANGED <<waiting, running>>

\* Mutant of WriteSucceeds: the loop goes on after a change.
WriteGoesOn ==
    /\ InLoop
    /\ ex' = [ex EXCEPT ![running].tried = TRUE, ![running].tx = "PREPARED",
                        ![running].row = TRUE, ![running].wrote = TRUE]
    /\ loop' = NextTurn(loop)
    /\ UNCHANGED <<waiting, running>>

\* ensure_prepared, the file is changed and its row is flushed: the row is of
\* this transaction, so the loop ends.
WriteSucceeds ==
    /\ InLoop
    /\ ex' = [ex EXCEPT ![running].tried = TRUE, ![running].tx = "PREPARED",
                        ![running].row = TRUE, ![running].wrote = TRUE]
    /\ loop' = Stop(loop, "FILES_CHANGED")
    /\ UNCHANGED <<waiting, running>>

-----------------------------------------------------------------------------
(* The end of an execution *)

\* Mutant of Finish: the failure path never leaves the session.
FinishOnlyOnSuccess ==
    /\ running # NoExec
    /\ loop.verdict = "FILES_CHANGED"
    /\ ex' = [ex EXCEPT ![running].state = "COMPLETED",
                        ![running].tx = IF @ = "NONE" THEN "NONE" ELSE "COMMITTED"]
    /\ running' = NoExec
    /\ loop' = FreshLoop
    /\ UNCHANGED waiting

\* The tail of execute_task and the commit of its session.  changed_paths is
\* the same query as _file_change_count.
Finish ==
    /\ running # NoExec
    /\ loop.verdict # "NONE"
    /\ LET ok == loop.verdict = "FILES_CHANGED" /\ HasFileChanges(running)
       IN  ex' = [ex EXCEPT ![running].state = IF ok THEN "COMPLETED" ELSE "FAILED",
                            ![running].tx = IF @ = "NONE" THEN "NONE"
                                            ELSE IF ok THEN "COMMITTED" ELSE "CONFLICT"]
    /\ running' = NoExec
    /\ loop' = FreshLoop
    /\ UNCHANGED waiting

\* The process dies: requests and every uncommitted row are gone, files stay.
Crash ==
    /\ running # NoExec
    /\ ex' = [ex EXCEPT ![running] = [@ EXCEPT !.state = "LOST", !.tx = "NONE",
                                               !.tried = FALSE, !.row = FALSE]]
    /\ waiting' = {}
    /\ running' = NoExec
    /\ loop' = FreshLoop

\* resolve() of api/recovery.py: the task's transaction that needs recovery and
\* was last updated (any of them here: updated_at is not modelled), else the
\* COMMITTED one last updated, which is the newest.
Open(e) == Committed(e) /\ ex[e].tx = "CONFLICT"
Done(e) == Committed(e) /\ ex[e].tx = "COMMITTED"
RecoveryTarget(e) ==
    LET open == {f \in Execs : ex[f].task = ex[e].task /\ Open(f)}
        done == {f \in Execs : ex[f].task = ex[e].task /\ Done(f)}
    IN  IF open # {} THEN e \in open ELSE e \in done /\ \A f \in done : f <= e

\* Files that have a row are restored before the first flush: with the write
\* lock held by an execution that flush fails, and only the files have changed.
ResolveByRollback(e) ==
    /\ RecoveryTarget(e)
    /\ ex' = [ex EXCEPT ![e].wrote = @ /\ ~ex[e].row,
                        ![e].tx = IF running = NoExec THEN "ROLLED_BACK" ELSE @]
    /\ UNCHANGED <<waiting, running, loop>>

\* The file is no longer what the execution wrote.
RollbackConflict(e) ==
    /\ RecoveryTarget(e)
    /\ running = NoExec
    /\ ex[e].row
    /\ ex' = [ex EXCEPT ![e].tx = "CONFLICT"]
    /\ UNCHANGED <<waiting, running, loop>>

-----------------------------------------------------------------------------
ExecInit ==
    /\ waiting = {}
    /\ running = NoExec
    /\ loop = FreshLoop
    /\ ex = [e \in Execs |-> Absent]

Turn ==
    \/ \E code \in Verdicts : TurnRaises(code)
    \/ TurnInvalid
    \/ ReadFails
    \/ \E r \in Reads, v \in Results : ReadSucceeds(r, v)
    \/ WriteUngrounded
    \/ \E tx \in TxStates, changed \in BOOLEAN : WriteFails(tx, changed)
    \/ PatchMismatch
    \/ WriteSucceeds

Answer(t) == Busy(t) \/ \E e \in Execs : Begin(t, e)

ExecNext ==
    \/ \E t \in Tasks : Request(t) \/ Answer(t)
    \/ Turn
    \/ Finish
    \/ Crash
    \/ \E e \in Execs : ResolveByRollback(e) \/ RollbackConflict(e)

ExecSpec == ExecInit /\ [][ExecNext]_execVars

\* The provider answers or times out, and the threads of requests are scheduled.
FairExecSpec ==
    /\ ExecSpec
    /\ WF_execVars(Turn)
    /\ WF_execVars(Finish)
    /\ \A t \in Tasks : WF_execVars(Answer(t))

-----------------------------------------------------------------------------
(* Properties *)

\* Requests, loop and rows have values of their types.
ExecTypeOK ==
    /\ waiting \subseteq Tasks
    /\ running \in Execs \union {NoExec}
    /\ loop \in Loop
    /\ ex \in [Execs -> Execution]

\* run_task gives up on an agent that only reads, and whose task has no row of
\* a write tool, only after it was told max_read_only_corrections times to
\* write: the correction always comes before the stall check (runtime.py).
StallsOnlyAfterCorrections ==
    /\ running # NoExec
    /\ loop.verdict \in {"STALLED", "STALLED_READ_ONLY_LOOP"}
    /\ ~HasWriteRows(running)
    => loop.corrections >= MaxCorrections

\* An execution that is committed FAILED has no FileChange, as run_task leaves
\* the loop at the first one, and what a tool that raised did to a file stands
\* under a transaction that recovery finds until a rollback settles it
\* (orchestrator.py, _mark_execution_failed).  That rollback knows only rows: it
\* does not take such a change back.
FailedIsAccountedFor ==
    \A e \in Execs : ex[e].state = "FAILED" =>
        ~ex[e].row /\ (ex[e].wrote => ex[e].tx \in {"CONFLICT", "ROLLED_BACK"})

\* An execution ends COMPLETED only if it, or an earlier execution of the task,
\* recorded a FileChange (orchestrator.py, CompletionInvariantViolation).
CompletedOnChanges ==
    \A e \in Execs : ex[e].state = "COMPLETED" =>
        \E f \in Execs : f <= e /\ ex[f].task = ex[e].task /\ Committed(f) /\ ex[f].row

\* An execution ends COMPLETED only if it changed a file itself
\* (CompletionInvariantViolation "execution completed without real file changes").
CompletedChangedFiles ==
    \A e \in Execs : ex[e].state = "COMPLETED" => ex[e].row

\* A change that a dead process left in the workspace belongs to a task with a
\* transaction that recovery finds (transactions/recovery.py scan_project).
CrashLeavesTransaction ==
    \A e \in Execs : ex[e].state = "LOST" /\ ex[e].wrote =>
        \E f \in Execs : ex[f].task = ex[e].task /\ ex[f].tx \in {"PREPARED", "CONFLICT"}

\* Every execution that starts ends, and every request is answered as long as
\* the model has an execution left for it (the bounded loop of run_task, the
\* busy timeout).
RequestsEnd ==
    /\ running # NoExec ~> running = NoExec
    /\ \A t \in Tasks : t \in waiting ~> (t \notin waiting \/ \A e \in Execs : ex[e].state # "ABSENT")

=============================================================================
