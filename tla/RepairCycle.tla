----------------------------- MODULE RepairCycle -----------------------------
(***************************************************************************)
(* The services of validation and repair for one task: the governance of a *)
(* repair patch, the planner and the executor of checks, the classifier of *)
(* failures, feedback, the repair loop, the monitors of progress and       *)
(* stagnation and the completion gate.                                     *)
(*                                                                         *)
(* Nothing in the repository calls them one after the other, so they are   *)
(* called here by a caller that is free: in any order, with any arguments. *)
(* The services keep rows in a session that the caller commits, and        *)
(* counters in memory.  A rollback of the session undoes the rows and not  *)
(* the counters; a restart forgets the counters and not the rows.          *)
(***************************************************************************)
EXTENDS Naturals, Sequences, FiniteSets

CONSTANTS
    Callers,                       \* bound: the services that a caller may use together
    Patches,                       \* what an agent may propose: its paths, commands,
                                   \* knowledge revision and edits
    Approved, ApprovedCommands,    \* the paths and commands of the policy
    PolicyRevision,                \* its knowledge revision
    Impacts,                       \* what a change touches, as [pytest, kinds]
    Diffs,                         \* hashes of patches
    Signatures, NoSignature,       \* of failures
    Targets, NoTarget,             \* what actions are about; the monitor has seen none
    MaxRepairs, Threshold, MaxIterations, TokenBudget,
    Spends,                        \* what an observation may report, as [calls, tokens]
    MaxPlans, MaxAttempts, MaxSpent, \* bounds: plans, attempts, calls reported
    MaxRollbacks, MaxCrashes       \* bounds: failures of a session, of the process

PathKinds == {"api", "schema", "test"}
CheckNames == {"contract", "migration-empty-db", "migration-existing-db", "unit",
               "validation-integrity"}
Edits == {"removed assertions", "skip introduced", "suppressed validation failure"}

ASSUME RepairBounds ==
    /\ {MaxRepairs, Threshold, MaxIterations, TokenBudget} \subseteq Nat
    /\ {MaxPlans, MaxAttempts, MaxSpent, MaxRollbacks, MaxCrashes} \subseteq Nat
    /\ Spends \subseteq [calls : Nat, tokens : Nat]

ASSUME RepairNames ==
    /\ NoTarget \notin Targets /\ NoSignature \notin Signatures
    /\ Impacts \subseteq [pytest : BOOLEAN, kinds : SUBSET PathKinds]

VARIABLES
    services,            \* what this caller uses
    row, saved,          \* the task's row, as the open session has it and as committed
    plans, savedPlans,   \* its plans with their runs, likewise; a plan's place is its version
    attempts,            \* RepairLoop: the attempts this process has recorded
    monitor,             \* StagnationMonitor: the counters of this process
    execution,           \* the loop of ValidationExecutor.execute(), while it runs
    answer,              \* of the services that keep nothing, the last
    rollbacks, crashes

repairVars == <<services, row, saved, plans, savedPlans, attempts, monitor, execution, answer,
                rollbacks, crashes>>
taskRows == <<row, saved>>
planRows == <<plans, savedPlans>>
memory == <<attempts, monitor>>
caller == <<services, rollbacks, crashes>>

\* The task: its columns, the repairs it was granted, its alerts, the kinds of its feedback
\* signals and progress events, and its evaluation.
NewTask == [status |-> "VALIDATING", repairs |-> 0, granted |-> 0, stagnation |-> 0, alerts |-> 0,
            signals |-> {}, events |-> {}, evaluation |-> "none", overall |-> "none"]
NewMonitor == [last |-> NoTarget, repeated |-> 0, iterations |-> 0, tokens |-> 0]
NotRunning == [plan |-> 0, pending |-> {}, passed |-> TRUE]
NoAnswer == "none"

\* The caller uses the service, and is not inside execute().
Calls(service) == service \in services /\ execution = NotRunning
Answers(a) == answer' = a

-----------------------------------------------------------------------------
(* Services that only answer. *)

\* ValidationEvasionDetector.detect() as the repair governance calls it: without
\* counts of tests or lists of checks.
Evades(patch) == patch.edits \cap Edits # {}

\* RepairGovernance.evaluate()
Verdict(patch) ==
    IF ~ (patch.paths \subseteq Approved) THEN "repair_scope_expanded"
    ELSE IF ~ (patch.commands \subseteq ApprovedCommands) THEN "repair_command_expanded"
    ELSE IF patch.revision # PolicyRevision THEN "repair_knowledge_stale"
    ELSE IF Evades(patch) THEN "repair_validation_evasion"
    ELSE "approved_repair_scope"

\* FailureClassifier.classify(): by the exit code, if there is one, and by what the output
\* shows.
Category(exit, environment, structured, output, kind) ==
    IF exit = "missing" THEN "INCONCLUSIVE"
    ELSE IF environment THEN "ENVIRONMENT_FAILURE"
    ELSE IF structured \/ (exit = "nonzero" /\ output) THEN kind
    ELSE "INCONCLUSIVE"
TestKinds == {"CONTRACT_FAILURE", "MIGRATION_FAILURE", "INTEGRATION_TEST_FAILURE", "UNIT_TEST_FAILURE"}

\* CompletionGate.evaluate(), on what its caller says; clear is that nothing is pending,
\* open, held or blocking, and that the audit is recorded.
CanComplete(requested, readOnly, diff, available, passed, clear) ==
    /\ requested
    /\ readOnly \/ (diff /\ available /\ passed /\ clear)

Decide ==
    /\ Calls("decisions")
    /\ \/ \E patch \in Patches : Answers(Verdict(patch))
       \/ \E exit \in {"missing", "zero", "nonzero"}, kind \in TestKinds :
             \E environment, structured, output \in BOOLEAN :
                Answers(Category(exit, environment, structured, output, kind))
       \/ \E requested, readOnly, diff, available, passed, clear \in BOOLEAN :
             Answers(IF CanComplete(requested, readOnly, diff, available, passed, clear)
                     THEN "complete" ELSE "incomplete")
    /\ UNCHANGED <<caller, taskRows, planRows, memory, execution>>

\* FeedbackController.create(): a signal of the source's kind.
FeedbackKinds == {"VALIDATION", "GOVERNANCE", "PROGRESS", "TOOL"}
Feedback ==
    /\ Calls("feedback")
    /\ \E kind \in FeedbackKinds : row' = [row EXCEPT !.signals = @ \union {kind}]
    /\ Answers(NoAnswer)
    /\ UNCHANGED <<caller, saved, planRows, memory, execution>>

\* ProgressMonitor.evaluate(): fewer failing tests, or news of another kind; either way an
\* event of the task.
ProgressEvents == {"progress", "no_progress"}
Progress(before, after, news) == IF after < before \/ news THEN "progress" ELSE "no_progress"
EvaluateProgress ==
    /\ Calls("feedback")
    /\ \E before, after \in 0 .. 1, news \in BOOLEAN :
          row' = [row EXCEPT !.events = @ \union {Progress(before, after, news)}]
    /\ Answers(NoAnswer)
    /\ UNCHANGED <<caller, saved, planRows, memory, execution>>

-----------------------------------------------------------------------------
(* Validation. *)

\* What a change touches calls for checks; without pytest there may be none.
ChecksFor(impact) ==
    (IF impact.pytest THEN {"unit"} ELSE {})
    \union (IF "api" \in impact.kinds THEN {"contract"} ELSE {})
    \union (IF "schema" \in impact.kinds
            THEN {"migration-empty-db", "migration-existing-db"} ELSE {})
    \union (IF "test" \in impact.kinds THEN {"validation-integrity"} ELSE {})

\* ValidationPlanner.plan(): a new version with the checks of the impact.
MakePlan ==
    /\ Calls("validation")
    /\ Len(plans) < MaxPlans
    /\ \E impact \in Impacts :
          plans' = Append(plans, [checks |-> ChecksFor(impact), runs |-> {}, verdict |-> "none"])
    /\ Answers(NoAnswer)
    /\ UNCHANGED <<caller, taskRows, savedPlans, memory, execution>>

\* ValidationExecutor.execute() begins with any plan of the task.
Execute ==
    /\ Calls("validation")
    /\ \E v \in 1 .. Len(plans) :
          execution' = [plan |-> v, pending |-> plans[v].checks, passed |-> TRUE]
    /\ Answers(NoAnswer)
    /\ UNCHANGED <<caller, taskRows, planRows, memory>>

\* The plan lists its checks in the order of their names.
Rank == [c \in CheckNames |->
           CASE c = "contract" -> 1 [] c = "migration-empty-db" -> 2
             [] c = "migration-existing-db" -> 3 [] c = "unit" -> 4 [] OTHER -> 5]
IsNext(c) == c \in execution.pending /\ \A d \in execution.pending : Rank[c] <= Rank[d]

\* Mutant of Executed: the verdict of the last check is the verdict.
ExecutedLast(c, ok) == [execution EXCEPT !.pending = @ \ {c}, !.passed = ok]

\* The loop goes on with the next check: one failure is a failure.
Executed(c, ok) == [execution EXCEPT !.pending = @ \ {c}, !.passed = @ /\ ok]

\* A plan has one run of each place in its list, by a unique index.
HasRun(plan, c) == \E r \in plan.runs : r.check = c
WithRun(plan, c, exit) == [plan EXCEPT !.runs = @ \union {[check |-> c, exit |-> exit]}]

\* _run_check(): every check is required, so only exit code 0 is a success.
RunCheck ==
    /\ execution # NotRunning
    /\ \E c \in CheckNames, exit \in {0, 1} :
          /\ IsNext(c) /\ ~ HasRun(plans[execution.plan], c)
          /\ plans' = [plans EXCEPT ![execution.plan] = WithRun(@, c, exit)]
          /\ execution' = Executed(c, exit = 0)
    /\ UNCHANGED <<caller, taskRows, savedPlans, memory, answer>>

\* The policy denies the dispatch, or the runner raises: no run, but not a success.
CheckNotRun ==
    /\ execution # NotRunning
    /\ \E c \in CheckNames : IsNext(c) /\ execution' = Executed(c, FALSE)
    /\ UNCHANGED <<caller, taskRows, planRows, memory, answer>>

\* The session is given up.
Abandon == row' = saved /\ plans' = savedPlans /\ execution' = NotRunning /\ Answers(NoAnswer)

\* A check that has a run already is run again: its row cannot be written, and the failed
\* flush leaves the dispatcher's record of it, and everything else, to a rollback.
RunAgain ==
    /\ execution # NotRunning
    /\ \E c \in CheckNames : IsNext(c) /\ HasRun(plans[execution.plan], c)
    /\ Abandon
    /\ UNCHANGED <<caller, saved, savedPlans, memory>>

\* execute() returns; a plan it answers "passed" for is marked.
Passed(plan) == [plan EXCEPT !.verdict = "passed"]
EndExecute ==
    /\ execution # NotRunning /\ execution.pending = {}
    /\ plans' = IF execution.passed THEN [plans EXCEPT ![execution.plan] = Passed(@)] ELSE plans
    /\ execution' = NotRunning
    /\ UNCHANGED <<caller, taskRows, savedPlans, memory, answer>>

-----------------------------------------------------------------------------
(* The repair loop. *)

Tried(diff) == \E i \in 1 .. Len(attempts) : attempts[i].diff = diff
Failed(signature) ==
    /\ signature # NoSignature
    /\ \E i \in 1 .. Len(attempts) : attempts[i].signature = signature

\* Mutants of Exhausted: the budget is counted in memory; repeats are not noticed.
ExhaustedInMemory(diff, signature) ==
    Tried(diff) \/ Failed(signature) \/ Len(attempts) + 1 >= MaxRepairs
ExhaustedByBudgetOnly(diff, signature) == row.repairs + 1 >= MaxRepairs

\* The same patch or the same failure again, or the budget is spent.
Exhausted(diff, signature) ==
    Tried(diff) \/ Failed(signature) \/ row.repairs + 1 >= MaxRepairs

\* RepairLoop.record_attempt(): the attempt, as its caller describes it, is remembered and
\* counted whatever comes of it.
RecordAttempt ==
    /\ Calls("repair")
    /\ row.repairs < MaxAttempts /\ Len(attempts) < MaxAttempts
    /\ \E diff \in Diffs, signature \in Signatures \union {NoSignature}, passed \in BOOLEAN :
          LET status == IF passed THEN "COMPLETED"
                        ELSE IF Exhausted(diff, signature) THEN "STAGNATION_WARNING"
                        ELSE "REPAIRING"
          IN /\ attempts' = Append(attempts, [diff |-> diff, signature |-> signature, made |-> status])
             /\ row' = [row EXCEPT !.status = status, !.repairs = @ + 1,
                                   !.granted = IF status = "REPAIRING" THEN @ + 1 ELSE @]
    /\ Answers(NoAnswer)
    /\ UNCHANGED <<caller, saved, planRows, monitor, execution>>

\* StagnationMonitor.record(): the same action without progress or evidence, too many calls
\* or too many tokens stop the provider.
Observe ==
    /\ Calls("monitor")
    /\ \E target \in Targets, news \in BOOLEAN, spent \in Spends :
          LET repeated == IF news THEN 0
                          ELSE IF monitor.last = target THEN monitor.repeated + 1 ELSE 1
              iterations == monitor.iterations + spent.calls
              tokens == monitor.tokens + spent.tokens
              stop == repeated >= Threshold \/ iterations >= MaxIterations \/ tokens >= TokenBudget
          IN /\ iterations <= MaxSpent
             /\ monitor' = [last |-> target, repeated |-> repeated, iterations |-> iterations,
                            tokens |-> tokens]
             /\ row' = IF stop THEN [row EXCEPT !.status = "STAGNATION_WARNING",
                                                !.stagnation = repeated, !.alerts = @ + 1]
                       ELSE row
    /\ Answers(NoAnswer)
    /\ UNCHANGED <<caller, saved, planRows, attempts, execution>>

-----------------------------------------------------------------------------
(* The session and the process. *)

\* session_scope() ends.
Commit ==
    /\ execution = NotRunning
    /\ <<row, plans>> # <<saved, savedPlans>>
    /\ saved' = row /\ savedPlans' = plans
    /\ UNCHANGED <<caller, row, plans, memory, execution, answer>>

\* An exception rolls the session back; the services live on.
RollBack ==
    /\ rollbacks < MaxRollbacks
    /\ rollbacks' = rollbacks + 1
    /\ Abandon
    /\ UNCHANGED <<services, saved, savedPlans, memory, crashes>>

\* A new process has new services.
Restart ==
    /\ crashes < MaxCrashes
    /\ crashes' = crashes + 1
    /\ Abandon
    /\ attempts' = <<>> /\ monitor' = NewMonitor
    /\ UNCHANGED <<services, saved, savedPlans, rollbacks>>

RepairInit ==
    /\ services \in Callers
    /\ row = NewTask /\ saved = NewTask /\ plans = <<>> /\ savedPlans = <<>>
    /\ attempts = <<>> /\ monitor = NewMonitor
    /\ execution = NotRunning /\ answer = NoAnswer
    /\ rollbacks = 0 /\ crashes = 0

RepairNext ==
    \/ Decide \/ Feedback \/ EvaluateProgress
    \/ MakePlan \/ Execute \/ RunCheck \/ CheckNotRun \/ RunAgain \/ EndExecute
    \/ RecordAttempt \/ Observe
    \/ Commit \/ RollBack

-----------------------------------------------------------------------------
(* Properties. *)

Statuses == {"VALIDATING", "REPAIRING", "STAGNATION_WARNING", "COMPLETED"}
TaskRows == [status : Statuses, repairs : Nat, granted : Nat, stagnation : Nat, alerts : Nat,
             signals : SUBSET FeedbackKinds, events : SUBSET ProgressEvents,
             evaluation : {"none", "PARTIAL", "COMPLETED"},
             overall : {"none", "EMPTY", "ATTENTION_REQUIRED", "BLOCKED", "COMPLETED", "IN_PROGRESS"}]
Runs == [check : CheckNames, exit : {0, 1}]
Plans == [checks : SUBSET CheckNames, runs : SUBSET Runs, verdict : {"none", "passed"}]
Attempts == [diff : Diffs, signature : Signatures \union {NoSignature},
             made : {"COMPLETED", "STAGNATION_WARNING", "REPAIRING"}]
Monitors == [last : Targets \union {NoTarget}, repeated : Nat, iterations : Nat, tokens : Nat]

RepairTypeOK ==
    /\ services \in Callers
    /\ row \in TaskRows /\ saved \in TaskRows
    /\ plans \in Seq(Plans) /\ savedPlans \in Seq(Plans)
    /\ attempts \in Seq(Attempts) /\ monitor \in Monitors
    /\ execution \in [plan : Nat, pending : SUBSET CheckNames, passed : BOOLEAN]
    /\ execution # NotRunning => execution.plan \in 1 .. Len(plans)
    /\ rollbacks \in 0 .. MaxRollbacks /\ crashes \in 0 .. MaxCrashes

\* What execute() answers is what the rows say, in the open session and after its commit:
\* a plan it has called passed has one run of every check, all of them successes, however
\* often it is executed again, denied, abandoned or interrupted.  (A plan without checks is
\* called passed with no run at all.)
PassedMeansRun ==
    \A ps \in {plans, savedPlans} : \A v \in 1 .. Len(ps) :
        ps[v].verdict = "passed" => ps[v].runs = {[check |-> c, exit |-> 0] : c \in ps[v].checks}

\* record_attempt() grants fewer repairs than max_repairs, over any number of restarts and
\* whoever asks, in the sessions that are not rolled back: a warning is not final, but the
\* count in the row is.
BudgetSurvivesRestart ==
    \A task \in {row, saved} : task.granted > 0 => task.granted < MaxRepairs

\* One process never goes on with a patch it has seen before, nor after a failure that it
\* has seen before, also when the sessions of the earlier attempts were rolled back.
RepeatsAreStopped ==
    \A i, j \in 1 .. Len(attempts) :
        i < j /\ attempts[j].made = "REPAIRING" =>
            /\ attempts[i].diff # attempts[j].diff
            /\ attempts[j].signature # NoSignature => attempts[i].signature # attempts[j].signature

=============================================================================
