# TLA+ verification of SE-w-mentor

SE-w-mentor is a "mentor" around a coding agent: a change request becomes a
task, a proposal, an impact analysis, a governance decision, if necessary an
approval, an executable policy, and only then an agent that may touch the files
of the user's project under a workspace lock and a file transaction that can be
rolled back. The backend is Python (FastAPI, SQLAlchemy over one SQLite
database); paths below are relative to `backend/src/se_mentor`.

This directory models the parts where a mistake costs the user files (locks,
transactions, write tools, rollback, recovery, the execution of a task), the
governance that decides what an execution may touch, the workbench conversation
that leads to a proposal, the sessions and workspaces of the online runtime, and
what a task leaves behind: validation, repair and engineering knowledge.
Everything was translated from the code; where a document and the code differ
the models follow the code and the difference is listed under *Findings*, also
where that makes a property weaker than the document asks.

    tlc -workers 2 -config WorkspaceLock_session.cfg MCWorkspaceLock
    tlapm WorkspaceLockProofs.tla

## 1. The system: inventory

| component | state | operations | what makes it correct |
|---|---|---|---|
| workspace lock service (`workspace/lock_service.py`) | rows of `workspace_locks`; alerts | `acquire` (with the caller's session or its own), `heartbeat`, `force_release` | a writer excludes everyone; nobody writes before an unfinished transaction is recovered; abandoned locks expire |
| task transactions (`transactions/manager.py`) | `task_transactions`, baseline manifest | `prepare` | idempotent; only under a usable WRITE lock; never two unfinished |
| write tools (`tools/apply_patch.py`, `create_file.py`, `delete_file.py`) | files, backups, `file_changes`, `backup_entries` | check, backup, second check, write, rows | every write can be undone from what is recorded |
| rollback, recovery (`transactions/rollback.py`, `recovery.py`, `api/recovery.py`) | files, transaction states, alerts | `scan_project`, `resolve_by_rollback`, `resolve` | restores what the transaction replaced, nothing else; may be retried after a crash |
| execution (`api/execution.py`, `execution/orchestrator.py`) | one database session per execution, lazy lock and transaction | `execute`, `execute_task`, `cancel_task` | COMPLETED means changed files; what a FAILED one changed is known to recovery |
| agent runtime (`agent/runtime.py`, `iteration.py`, `tools/dispatcher.py`) | counters of the loop, iteration and tool rows | `run_task`, `run` | terminates; corrects the agent before it gives up |
| change governance (`orchestration/change_flow.py`, `proposals/`, `governance/`, `approvals/`, `policy/`) | proposals, impact reports, decisions, approval requests, policies, grants | create, adjust, confirm, reject a proposal; approve, reject a request; compile, enforce | what a policy grants rests on the rules or on an approver; a new version leaves nothing of the old one in force |
| tasks, mentor turns, workbench (`api/tasks.py`, `api/mentor_turns.py`, `api/workbench_messages.py`, `api/proposals.py`, `application/harness.py`, `proposals/`) | tasks, numbered messages, numbered versions of a proposal | create, post, turn, propose, supplement, adjust, confirm | the conversation grows by whole contributions; what can be confirmed was shown, in order |
| online runtime (`runtime/online_*.py`, `api/runtime.py`, `api/online_*.py`) | sessions, their workspaces | status, reset, import, export, readiness | one session stands behind an answer; clean-up spares live workspaces |
| credentials (`credentials/`, `api/credentials.py`) | a session's credential | set, update, clear | used only by its session |
| projects (`projects/`, `api/projects.py`) | projects, bootstrap states, understandings, a cache | import, bootstrap, report | READY means understood; no bootstrap is lost |
| knowledge (`knowledge/`, `governance/memory_writeback.py`, `evaluation/service.py`) | rows, relations, refresh queue | extract, promote, contradict, judge, write back | stale rows allow nothing; the model's words alone are not preferred |
| validation, repair, completion (`validation/`, `agent/repair_*.py`, `completion_gate.py`, `progress/`, `feedback/`) | plans, runs, attempts, counters | judge a patch, plan, run, classify, record, observe, complete | a plan called passed has its runs; the budget survives a restart; a failed check stays visible |
| impact analysis, code index (`impact/`, `indexing/`) | symbols, relations, reports | index, analyse | closure of the relation graph |
| context, providers (`context/`, `llm/`) | none | build a prompt, call | the token budget holds |
| events, evaluation, observability (`events/bus.py`, `evaluation/`, `observability/`) | event list, metrics | publish, replay | order of events |
| shell and git tools, configuration, security helpers, contracts, CLI, demo, migrations, frontend | | | outside the models, see section 8 |

**How they interact.** API handlers run in the thread pool of one process, each
in a `session_scope`. SQLite has one writer: the first DML statement of a
session takes the write lock and the commit at its end gives it up; another
writer waits five seconds and then fails. An execution is such a session from
the flush of its first iteration row to its end, so lock, transaction and change
rows of an execution become visible together, while the files it writes are
visible at once. Recovery is a second session that touches the same files.
Governance hands over through rows: `task.active_policy_id`, ACTIVE policies.

**What is hard.** Three clocks do not agree: the database (commits), the file
system (immediate) and the lock's time to live. A process may die between any
two file operations; the user edits files with other programs at any time;
rollback may be retried and takes no workspace lock; backups are shared by all
transactions of a task; the loop has six interacting counters. `PROJECT.json`
lists these hazards at their lines with the properties that cover them.

## 2. Modules

| module | models | extends |
|---|---|---|
| `WorkspaceLock` | locks, transaction states, alerts | |
| `FileTransaction` | files, tools, backups, rollback, recovery, the user, crashes | `WorkspaceLock` |
| `TaskExecution` | requests, the session of an execution, the agent loop, recovery beside it | |
| `ChangeGovernance` | versions of a proposal, confirmation, decisions, requests, policies, an execution under a policy | |
| `Conversation` | abstract: what the user of the workbench is promised | |
| `Workbench` | tasks, messages, versions, the endpoints that write them; implements `Conversation` | |
| `OnlineRuntime` | sessions, workspaces, imported projects, the bootstrap thread | |
| `RepairCycle` | the services of validation and repair, a session, a restart | |
| `Knowledge` | the knowledge base and its services | |
| `Learning` | both together, with lessons and the evaluation of a task | `RepairCycle`, `Knowledge` |
| `WorkspaceLockProofs`, `FileTransactionProofs`, `TaskExecutionProofs`, `ChangeGovernanceProofs`, `WorkbenchProofs`, `OnlineRuntimeProofs`, `LearningProofs` | theorems | the module they are named after, `TLAPS` |
| `MCWorkspaceLock`, `MCFileTransaction`, `MCTaskExecution`, `MCChangeGovernance`, `MCWorkbench`, `MCOnlineRuntime`, `MCLearning` | values and symmetries for TLC | |

### WorkspaceLock

`locks` and `txs` are the tables, keyed by row; `lockAlert` and `txAlert` are
the two alerts a task may have. Time is relative: `left` is `expires_at - now`
in ticks and saturates at -1, the first value at which the strict comparison in
`_mark_expired` holds (`_active_write_lock` already refuses 0). Nothing compares
two expiry times, so no clock is needed.

`acquire` appears twice. In production it is only called with the session of an
execution that has flushed rows, so it runs with the database's write lock held:
`AcquireGranted`, `AcquireConflict`, `AcquireRecoveryRequired` are one step each
(`SessionSpec`). Library callers and tests pass no session; then pysqlite runs
the SELECTs before any BEGIN, unless `_mark_expired` updated a row, and
`AcquireCheck`/`AcquireInsert` are two steps with only the unique index on ACTIVE
WRITE rows between two processes (`Spec`). `_LOCK_GUARD` allows one such call
per process (`pending`).

`Commit` carries the trigger on `task_transactions` that refuses COMMITTED
without an ACTIVE WRITE lock. `APPLYING` is in the enum and never assigned.

### FileTransaction

Each action is an action of `WorkspaceLock` together with its effect on files,
or a step on files alone. A tool is `ToolCheck`, `ToolBackup`, `ToolWrite` or
`ToolRefused`, `ToolRecord`, with a user edit or a crash possible between any
two. `Slots` is the point of the module: a backup is kept per task and path, not
per change. A content stands for its SHA-256 too. `RollbackBegin` chooses the
transaction as `api/recovery.py` does, except that among several that need
recovery it takes any, since `updated_at` is not modelled; `RollbackUndo` is one
turn of the loop. A tool may raise after its write, when it reads the file back or
inserts its rows; the change is then on disk without a row (`lost`).
The services are modelled at their interface: each call is committed by itself,
and a transaction may hold several changes. (`run_task` stops at its first
change; the tools and their tests do not.)

Left out: a second rollback beside one that runs (`resolve` takes no lock, so two
could overlap), equal `created_at` values, temporary files beside the target, the
user editing a file after rollback has finished with it (`UserEdit` is confined
to paths still to be undone while a rollback runs, because later edits are
simply the user's).

### TaskExecution

The composition as production runs it: an execution is one session, so `ex[e]` is
RUNNING until `Finish` commits or `Crash` loses its rows (`LOST`, where only
`wrote` survives). `loop` holds the local variables of `run_task`. A turn is one
of eight outcomes; which tool is used, what the policy says and what a patch
contains are in the nondeterminism. `WriteFails` is a denied write or a tool that
raises, before it changed the file or after. `material_progress` reduces to "a
result not seen before" because a successful write leaves the loop at once. `Busy`
is the five-second timeout. `ResolveByRollback` restores files before its first
flush: beside a running execution only the files change.

A cancel request has no action: `cancel_task` sets the token of a new
`AgentRuntime`, which no loop reads.

### ChangeGovernance

The rows of one task: `proposals`, `report` (per version the decision on its
CURRENT impact report), `decisions`, `requests`, `policies`. Sessions do not
autoflush and SQLite gives a session the write lock at its first flush, so what
a handler reads before it is unprotected: `confirm_new_version` looks for
everything in force first, `run_governance` waits for the model between its check
of CONFIRMED and its writes, `adjust_proposal` waits before its first write but
looks for what to void after it. Such handlers are two actions, `...Read` and
the rest, with what was read in `view[h]`; `Abort` is the busy timeout or a
crash between the two. SQLAlchemy does not write an attribute that was set to
the value it was loaded with: `Flushed`. `Settle` and `Compile` are shared as in
the code. `Execute` is an execution as far as policies go: it holds the policy it
loaded, and if all were superseded meanwhile `_activate_action_policy` compiles
one for the action at hand (`ExecuteSelfGranted`).

A scope is a set of paths and the rules an effect per path. `Root` is the path
".": no rule names it, and a grant of it allows every file (`Allows`). A request
remembers the scopes that were approved on it (`approved`), which the code keeps as
rows of `approval_decisions`. A decision of
`evaluate()` is `Verdict(scope)`, since both callers pass ALLOW for the model and
no verdict of a user. Abstracted: of the task's status only BLOCKED is told
apart, so a flush of one other status over another may or may not change it
(`FlushedStatus` allows both); the scope of an incomplete version, which cannot
be confirmed; decisions on actions inside an execution that compile no policy;
validation plans; expiry of requests, for which no caller sets a time; errors
after a decision was flushed and before its request or policy.

### Conversation and Workbench

`Conversation` is one variable, the log of each task, and says by which wholes it
grows: an opening request, at most one and from the endpoint only as the first
message, a client's post, a question with its answer, a shown proposal, an
instruction with the revision made from it or alone, an apology. `Workbench` is
how the endpoints get there. A row table is a function from its number, since
(task, sequence) and (task, version) are unique indexes; the next number is `max +
1`, read before the flush that takes SQLite's write lock, so `next` in a request
may be out of date and an insert under a taken number fails (`Fail`: the session
rolls back). A request is a few steps: what it reads, the flush, the call of the
model, the commit. A task is open to every endpoint as soon as it is committed,
since `GET /api/projects/{id}/tasks` lists it: others may speak before the opening
message. `POST /api/tasks` writes that one under sequence 1 and fails if it is
taken, the command line takes the next number. A turn, a supplement and an
analysis keep the lock while they wait for the model (`writer`, `draftM`, `draftP`
are the open transaction); `adjust_proposal` adds its instruction without a flush,
so only its number is fixed (`seq`) until the commit. `BusyTimeout` is the busy
timeout of five seconds against a call that may last sixty, `Crash` loses what is
open. The refinement mapping is `log <- messages`.

Left out: the text of messages; the columns of status, which are
`ChangeGovernance`; whether a draft is complete, which is an input.

### OnlineRuntime

An endpoint is the sequence of its steps (`Program`), a step what the code does
under one lock, in one database transaction or in one file operation; handlers of
`def` endpoints interleave between any two, while the `async` import gives the
loop up only while it awaits the body. Ids are numbered in the order of creation
and never reused. `left` is what remains of a session's life. `dir` is the content
of a session's directory, where `partial` is a directory between `mkdir` and the
end of the copy, and `rest` what a copy leaves that lost its directory to a
clean-up and made it again. A clean-up that meets another one may raise half way.
`ScheduleBootstrap` shows the state, `SubmitBootstrap` hands over to the executor.
`boot`, `cache`, `understood` and `projects` are the four places from which a
project's state is told: memory, a cache of some seconds, the understandings and
the table; a restart clears the first two. `queue` and `worker` are the one-thread
executor of the bootstrap.

Left out: the cache of workspace handles (`get_or_create` looks at the directory
before it trusts one), the demo profile, the wording of the status page.

### RepairCycle, Knowledge, Learning

Nothing under `backend/src` chains these services. `RepairLoop`, the planner, the
executor, the monitors, the gate, promotion, conflicts and freshness are called by
tests, each by itself; of the writers of knowledge only the memories of governance
and evaluation, the bootstrap and the demo store rows. The models therefore have a
free caller: any service, in any order, with any arguments. In particular
`record_attempt` takes `passed` as the caller says, `extract` its references, and
`promote` any type of source.

`row` and `plans` are the task's rows in the open session, `saved` and `savedPlans`
the committed ones, `attempts` and `monitor` the counters in memory. A rolled back
session undoes the rows and not the counters, a restart forgets the counters and
not the rows. `execute()` is a loop over the checks of a plan, which may be one that
was executed before: its unique index then refuses the second run of a check
(`RunAgain`). `verdict` keeps the answer of `execute()` with the plan, `granted`
counts the attempts that were answered with REPAIRING, and `basis` says what a row
of knowledge rests on: the code stores none of the three and the properties need
them. `answer` is what the services return that change nothing.

`Callers` are groups of services that read the same rows; the run starts with each
of them, and the theorems hold for any groups, so for one of all services too.

Left out: how matches are ranked by text, reruns of flaky checks (no caller), the
output of a check beyond its exit code, the evaluation inside an execution.

## 3. Runs

| run | states | question and answer |
|---|---|---|
| `WorkspaceLock_session` | 357 k | As production calls it: writers exclude everyone, an unfinished transaction keeps the workspace even after expiry or a forced release, there is never a second one, an abandoned lock expires. Holds. |
| `WorkspaceLock_failedrollback` | violated | Does a failed rollback keep the lock? No. |
| `FileTransaction_rollback` | 3.5 M | Two transactions on two paths, one user edit, one crash anywhere, tools that raise: what rollback restores and when it conflicts. Holds. |
| `FileTransaction_restore` | violated | Does rollback always restore the original? Not after a second patch of a file. |
| `TaskExecution_loop` | 333 k | Two tasks, two executions, crashes, rollbacks: corrections before a stall verdict, a FAILED execution has no row and what it changed stands under a transaction that recovery finds, COMPLETED rests on a change, every request ends. Holds. |
| `TaskExecution_again` | violated | Did a COMPLETED execution change a file itself? Not the second one of a task. |
| `TaskExecution_crash` | violated | Does a crash leave a transaction for recovery? No. |
| `ChangeGovernance_flow` | 531 k | Two versions, a handler and an execution that overlap, approvals and rejections at any time, the wildcard: an unapproved policy covers a path with a rule only by naming ".", an approved scope of the same decision stands behind a WARN policy, a write is traceable to a decision or an approval, a new version voids everything, a lapsed policy stays lapsed. Holds. |
| `ChangeGovernance_superseded` | violated | Is an approval void once its proposal was replaced? No. |
| `OnlineRuntime_requests` | 1.2 M | Two requests in flight while sessions expire, a restart, an import, resets, clean-ups and the bootstrap thread: one session stands behind what readiness and export answer, READY was understood, no bootstrap is lost, the clean-up of others spares a live workspace. Holds. |
| `Workbench_conversation` | 624 k | Two requests in flight among all seven endpoints, posts before the opening message, time-outs and a crash: the workbench implements `Conversation`; what can be confirmed was shown, in order. Holds. |
| `Learning_cycle` | 626 k | Five groups of services under a free caller, a failed session and a restart: a plan called passed has its runs, the budget survives, repeats stop, a failed check is not evaluated away, stale rows allow nothing, the model's words alone are not preferred. Holds. |

That every step of `FileTransaction` is a step of the lock protocol, and that racing
processes with sessions of their own get at most one writer, are theorems
(`ImplementsLockProtocol`, `SingleWriterCorrect`) and have no run.

**Bounds.** Two locks and two transactions are the least for "the next writer"; a
third adds no new relation, since every property is about pairs. `Ttl = 1` gives
the three cases of `left` that the code tells apart (positive, 0, past).
`MaxVersion` allows one heartbeat or forced release per lock. Two paths, two
changes, one edit and one crash let a rollback be interrupted between two files
and retried against an edited one; the overwritten backup needs three contents.
The loop's limits are scaled from 8/4/3/2 to 5/2/3/2, which keeps every verdict
reachable; the counterexample runs and the theorems use the real ones or any.
Governance has one path of each effect and ".", two versions, two decisions, two
requests and three policies, one slow handler and one execution. `FewRows` stops
at `MaxRows = 7`, where a version counts twice: that is one version with five rows
behind it or two with three, enough for every branch to be taken (the rarest, a
readiness check that compiles a policy, needs three policies). Two slow handlers
at a time are beyond this run and are covered by the theorems. The online runtime
has two sessions, so that one can be created while the other expires, one handler
that imports, exports, checks readiness and reads the workspace, one that sets,
updates and clears the credential, resets and bootstraps (the status of a
bootstrap is the first part of that), and one restart; two uploads at a time are
beyond it (see Findings). The workbench has one task, because tasks share nothing
but the write lock, four requests, enough for a task, a proposal and two requests
that race on it, and three versions. One handler creates tasks, takes turns and
proposes, the other is the command line, adjusts, posts and confirms, so that the
opening message races with a post, and a turn or a proposal with an adjustment.
Learning has two patches and three repairs, the least with which a repeated patch,
a changed one and an exhausted budget differ, two plans among changes with two
checks, one and none, and two rows of knowledge; patches, summaries and signatures
are symmetric since they are only compared. Deadlock is not checked: row ids and
counters run out.

**Fairness.** `AbandonedLockExpires` assumes that time passes and that somebody
asks for the workspace again, because only `acquire` notices expiry.
`RequestsEnd` assumes that a provider call returns or times out (the client has
a timeout), and that request threads are scheduled (a waiting one gets the
database or its busy timeout). Neither assumes that the agent makes progress.

## 4. Proofs

TLAPS checks these for every value of the constants that satisfies the named
assumptions `LockConstants`, `FileConstants`, `ExecConstants`, `GovConstants`,
`WorkbenchBounds`, `WorkbenchNames`, `ClientPostsType`, `RepairBounds`,
`RepairNames`, `KnowledgeBounds`, `OnlineBounds`, `ArchivesDistinct`, `CallsType`.

* `WorkspaceLockProofs`: `TypeCorrect`, `SingleWriterCorrect`, `WriteExclusion`,
  `RecoveryBeforeNextWriter`, `AtMostOneUnfinished`. Exclusion alone is not
  inductive: `prepare` could add a transaction under a lock while an older one is
  unfinished. The invariant therefore also says that an unfinished transaction
  belongs to a WRITE lock row and that no lock but its own is ACTIVE; then the
  lock that `prepare` needs is the lock of any unfinished transaction, and
  idempotency finds it.
* `FileTransactionProofs`: `FileTypeCorrect`; `ImplementsLockProtocol`, the
  refinement, whose only obstacle is a rollback in flight (`UndoSound`: its
  transaction exists and, as `Idle` guards the others, can still be rolled
  back); `FilesUnderOneWriter`, the lock theorems carried over, exclusion included;
  `RolledBackMeansRestored` and `ConflictsComeFromEdits`, what a rollback achieves
  and when it stops. The last two rest on two further invariants. `OrderInv`:
  transactions are created in order and an unfinished one is the newest (`TxOrder`),
  and a tool works for a PREPARED transaction that nobody rolls back (`Working`).
  `RowsInv`: a row agrees with its kind of change (`KindsFit`), rows are undone newest
  first (`NewestFirst`), a transaction has a first row on each of its paths
  (`FirstRows`), and a path all of whose rows are undone is as that row found it
  (`UndoneSoFar`); without edits a path and its backup hold one of the two contents
  of the tool or row on it (`ToolUndisturbed`, `RowUndisturbed`). No induction over
  the rows is needed: the turn of the loop that undoes the first row of a path
  restores it, and `UndoneSoFar` keeps it restored.
* `TaskExecutionProofs`: `ExecTypeCorrect`, `CorrectionsComeFirst`,
  `FailureIsAccountedFor`, `CompletionHasChanges`. The invariant adds that what a
  running execution wrote is under its PREPARED transaction and that a row of it
  comes with the verdict FILES_CHANGED (`RunningSound`), that
  executions are numbered without gaps (`NoGaps`), and that the streak and the
  stall counter agree (`StreakIsStall`), which is why a stall of
  `MaxStalled >= 2` turns always met the correction branch before. With
  `MaxStalled = 1` the theorem is false.

* `ChangeGovernanceProofs`: `GovTypeCorrect`, `UnapprovedGrantsHarmless`,
  `ApprovalBehindPolicy`, `WritesTraceable`, `AdjustVoids`, `PoliciesLapse`, for any
  number of handlers and executions at the same time and any rules. What a policy
  grants is only known from the rows it was compiled for, so the invariant `GovInv`
  ties them together (`RowsFit`: a decision on a proposal is the verdict on its scope,
  a policy is the scope of an ALLOW decision or is for a request of its decision and
  grants nothing but what was approved on one) and says that the rows a handler
  holds exist (`ViewsFit`). The argument is that rows are never deleted and what they
  are about never changes (`Kept`), and that each new row fits (`Fresh`); one lemma
  per action shows the two. `Kept` alone gives `PoliciesLapse`.

* `WorkbenchProofs`: `WorkbenchTypeCorrect`, `ConfirmableIsShown`,
  `VersionsShownInOrder` and `ImplementsConversation`, the refinement. The
  invariant `WorkbenchInv` makes the tables sequences (`TablesAreLogs`) and says
  that a number a request has read is at most one above the highest (`NumbersFit`),
  so that an insert which is not refused is an `Append`; that the open transaction
  is the committed tables and what its writer flushed (`OneDraft`); that a task in
  creation has one creator and no opening request yet (`CreatedAlone`), whatever
  others have posted; and that what is announced exists (`AnnouncedExists`, without which the order of showing
  is not inductive). A commit is one of three kinds (`SaidText`, `SaidProposal`,
  `SaidNothing`) and one lemma per action names its kind and its step of
  `Conversation`. It also shows that the apology for a failed adjustment is
  always refused: its number is the one of the pending instruction.
* `OnlineRuntimeProofs`: `OnlineTypeCorrect`, `AnswersFromOneSession`,
  `ReadyIsUnderstood`, `NoBootstrapLost`, `QuietWorkspaces`, for any number of
  requests, sessions, uploads and restarts. The invariant `OnlineInv` says what a
  request knows at each step of its endpoint (`RequestsFit`): that its project has an
  owner after the check, that project and session are the same one after the last
  check, and that every session of the store that is not younger than the request
  is in its snapshot when it cleans up. `ReadyFounded` says of the three places from
  which READY is told that an understanding stands behind them. The steps of the
  endpoints are lemmas of their own (`Placed`), because the provers do not compute
  concatenations.
* `LearningProofs`: `LearningTypeCorrect`, `PassedIsRun`, `BudgetIsKept`,
  `RepeatsStop`, `StaleIsRefused`, `WordsAreNotPreferred`, `FailureStays`, for any
  groups of services, patches, budgets and failures. The invariant says that a plan
  has runs of its own checks only and, once called passed, exactly one success of
  each (`PlansFit`), that every check no longer pending has succeeded while nothing
  has failed (`RunsSoFar`), that the repairs granted are among those counted and the
  evaluation is always committed (`TaskInv`), and that verified and reviewed rows do
  not rest on words alone (`EvidenceBehind`). `RepeatsAreStopped` is inductive: the
  attempts in memory are only appended to or forgotten.

Only model-checked: liveness (`AbandonedLockExpires`, `RequestsEnd`), which is out
of the prover's reach. Every other property of a passing run is a theorem. The
inductive invariants were checked by TLC on the instances of the runs before they
were proved.

## 5. Findings

1. **A failed rollback gives up the workspace** (`WorkspaceLock_failedrollback`).
   SPEC.md:7963 forbids it; CONFLICT is not among the states of
   `_requires_recovery` (`workspace/lock_service.py:182`).
2. **The backup of a file is overwritten by the next patch of it**
   (`FileTransaction_restore`; `tools/apply_patch.py:275`), so rollback may write
   content that is not the original (SPEC.md:4843), unnoticed, because the bytes
   are not compared with `original_hash`.
3. **A second execution of a task completes after a read**
   (`TaskExecution_again`; `agent/runtime.py:401`).
4. **A crash during an execution leaves changed files and no row**
   (`TaskExecution_crash`; `execution/orchestrator.py:132`, SPEC.md:13270).

5. **A superseded request can be approved** (`ChangeGovernance_superseded`;
   `approvals/decision_service.py:36`): approving it makes an ACTIVE, executable
   policy for a decision that the new version had superseded (SPEC.md:8847,
   SPEC.md:13929).

**Disagreements without a run.** The properties say what the code does in these
places, which is less than SPEC.md asks:

* a scope that names "." matches no rule, is allowed unseen and covers every path,
  the denied ones included (`policy/grants.py:143`; SPEC.md:4840, SEC-A02);
* an execution whose policies were all superseded decides on its own action and
  grants it to itself (`agent/iteration.py:435`; SPEC.md:4846, SPEC.md:7817);
* an execution goes on under a policy that was superseded after it began
  (`execution/orchestrator.py:138`; SPEC.md:7819);
* a request that was approved can be rejected, and its policy stays in force
  (`api/approvals.py:98`; SPEC.md:7867, SPEC.md:8847);
* what a tool changed before it raised has no row, so a rollback leaves it
  (`tools/apply_patch.py:174`; SPEC.md:4843), and an edit by the user between a
  tool's write and its read-back is recorded as the tool's and rolled back with it
  (`tools/apply_patch.py:175`);
* CONFLICTING and DEPRECATED knowledge with a matching signature supports an
  automatic ALLOW (`knowledge/freshness.py:56`; SPEC.md:8303);
* `promote` accepts a reference of type LLM_SUMMARY and makes the row VERIFIED
  (`knowledge/promotion.py:32`; SPEC.md:8305);
* a plan without checks passes, and `record_attempt` completes a task on its
  caller's word (`validation/planner.py:69`, `agent/repair_loop.py:31`; SPEC.md:8164,
  SPEC.md:8851).

Seen while modelling, also without a run: two overlapping uploads of a session
both pass the check that it owns no project, and the second replaces the files
under the first (`api/projects.py:219`,
`tests/security/test_online_zip_import_export.py:82`); the message about a failed
adjustment takes the number of the instruction pending in its session, so neither
is stored (`api/proposals.py:432`); a session younger than a request may lose its
directory to that request's clean-up and makes it anew
(`api/online_access.py:43`); two overlapping confirmations or a readiness check
beside one may leave two ACTIVE policies, or the status ACTION_PENDING without one
(`review_service.py:38`, `api/governance.py:227`); the approved scope may exceed
the requested one and include denied paths (`api/approvals.py:60`, SPEC.md:7871);
rejecting a proposal makes a BLOCKED task executable under what is still ACTIVE
(`api/proposals.py:334`); with own sessions a READ and a WRITE lock may be ACTIVE
together (SPEC.md:3440); `_emit_recovery_audit` never raises an alert again once
it was resolved (`lock_service.py:209`); retrying a rollback of "delete, then
create the same path" is not idempotent (`rollback.py:94`); `_external_changes`
overlooks edits of created files (`recovery.py:131`); a cancel request reaches no
loop (`orchestrator.py:322`); a failing flush in the evaluation of an execution is
swallowed and makes the final commit fail, which loses the rows of a change that
stays on disk.

## 6. Plan

In this order; each module is written to be proved about.

1. A rolled back execution stays rolled back (`TaskExecution`), and what a recovery
   alert means while executions go on.
2. `Events` (publish, replay, sequence numbers) and `Impact` (closure of the
   relation graph, as operators compared with the reachability of the community
   modules).
3. The composition of `ChangeGovernance` with `TaskExecution`, whose sessions
   decide how long a loaded policy is used, and with `Workbench`, whose
   adjustments make the versions.
4. A second rollback beside the first in `FileTransaction`.

## 7. Reading order

`WorkspaceLock` properties, `FileTransaction` from *Write tools* to *Rollback*,
`TaskExecution`; `ChangeGovernance`; `Conversation` before `Workbench`;
`OnlineRuntime` from *The endpoints* on; `RepairCycle`, `Knowledge`, `Learning`;
then the proofs, whose invariants are defined at their top.

## 8. Not modelled

Prompt text, parsing of answers, search ranking and the code index are data
without a protocol. The shell and git tools run child processes outside the
program's state. Configuration, path and secret helpers, logging and contracts
are pure; the rest of the command line calls modelled services in a fixed order;
migrations are generated; the frontend calls the API. The transition table of
`TaskService`, regovernance and the reruns of flaky checks have no production
caller. The keyring of a local installation is one call of the operating system.
Impact analysis and the event bus are planned; `PROJECT.json` lists each part.
