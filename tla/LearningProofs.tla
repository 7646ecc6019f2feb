--------------------------- MODULE LearningProofs ---------------------------
(***************************************************************************)
(* What holds of Learning for any caller, patches, checks, budgets,        *)
(* failures of sessions and processes, and any number of rows of           *)
(* knowledge.                                                              *)
(***************************************************************************)
EXTENDS Learning, TLAPS

\* Every run of a plan is of one of its checks, and one that passed has exactly the runs
\* that it should have.
Exact(p) == p.runs = {[check |-> c, exit |-> 0] : c \in p.checks}
Fits(p) == /\ \A r \in p.runs : r.check \in p.checks
           /\ p.verdict = "passed" => Exact(p)
PlansFit(ps) == \A v \in 1 .. Len(ps) : Fits(ps[v])

\* While nothing has failed, every check that is not pending has one run, a success.
Succeeded(p, c) == /\ [check |-> c, exit |-> 0] \in p.runs
                   /\ \A r \in p.runs : r.check = c => r.exit = 0
SoFar(p, e) == /\ e.pending \subseteq p.checks
               /\ e.passed = TRUE => \A c \in p.checks \ e.pending : Succeeded(p, c)
RunsSoFar == execution # NotRunning => SoFar(plans[execution.plan], execution)

PlansInv == PlansFit(plans) /\ PlansFit(savedPlans) /\ RunsSoFar

\* Every repair that was granted is counted.
BudgetFits(task) == task.granted <= task.repairs /\ (task.granted > 0 => task.granted < MaxRepairs)
TaskInv == /\ BudgetFits(row) /\ BudgetFits(saved)
           /\ row.evaluation = saved.evaluation

RepairInv == RepairTypeOK /\ PlansInv /\ TaskInv /\ RepeatsAreStopped

\* What retrieval prefers is what is verified or reviewed.
Preferred == {"VERIFIED", "REVIEWED"}
Founded(r) == r.status \in Preferred => r.basis # "words"
EvidenceBehind == \A i \in Rows : Founded(rows[i])

KnowledgeInv == KnowledgeTypeOK /\ StaleNeverAllows /\ EvidenceBehind
LearningInv == RepairInv /\ KnowledgeInv

Executions == [plan : Nat, pending : SUBSET CheckNames, passed : BOOLEAN]

-----------------------------------------------------------------------------
(* Types of the services of validation and repair. *)

LEMMA CheckNamesType == ASSUME NEW impact PROVE ChecksFor(impact) \in SUBSET CheckNames
BY DEF ChecksFor, CheckNames

LEMMA TaskRowFields ==
    ASSUME NEW t \in TaskRows
    PROVE  /\ t.repairs \in Nat /\ t.granted \in Nat /\ t.alerts \in Nat /\ t.stagnation \in Nat
           /\ t.signals \in SUBSET FeedbackKinds /\ t.events \in SUBSET ProgressEvents
BY DEF TaskRows

LEMMA NotRunningType == NotRunning \in Executions /\ NotRunning.plan = 0
BY DEF NotRunning, Executions

\* What an attempt makes of the task.
LEMMA AttemptOutcome ==
    ASSUME RecordAttempt
    PROVE  \E diff \in Diffs, signature \in Signatures \union {NoSignature},
              status \in {"COMPLETED", "STAGNATION_WARNING", "REPAIRING"} :
             /\ status = "REPAIRING" => ~ Exhausted(diff, signature)
             /\ attempts' = Append(attempts, [diff |-> diff, signature |-> signature, made |-> status])
             /\ row' = [row EXCEPT !.status = status, !.repairs = @ + 1,
                                   !.granted = IF status = "REPAIRING" THEN @ + 1 ELSE @]
BY DEF RecordAttempt

\* What the monitor makes of an observation: it goes on, or stops with a warning.
LEMMA ObserveOutcome ==
    ASSUME RepairTypeOK, Observe
    PROVE  /\ monitor' \in Monitors
           /\ \/ row' = row
              \/ \E repeated \in Nat :
                    row' = [row EXCEPT !.status = "STAGNATION_WARNING", !.stagnation = repeated,
                                       !.alerts = @ + 1]
<1> USE RepairBounds
<1>1. PICK target \in Targets, news \in BOOLEAN, spent \in Spends :
        LET repeated == IF news THEN 0
                        ELSE IF monitor.last = target THEN monitor.repeated + 1 ELSE 1
            iterations == monitor.iterations + spent.calls
            tokens == monitor.tokens + spent.tokens
            stop == repeated >= Threshold \/ iterations >= MaxIterations \/ tokens >= TokenBudget
        IN /\ monitor' = [last |-> target, repeated |-> repeated, iterations |-> iterations,
                          tokens |-> tokens]
           /\ row' = IF stop THEN [row EXCEPT !.status = "STAGNATION_WARNING",
                                              !.stagnation = repeated, !.alerts = @ + 1]
                     ELSE row
  BY DEF Observe
<1> DEFINE repeated == IF news THEN 0
                       ELSE IF monitor.last = target THEN monitor.repeated + 1 ELSE 1
           iterations == monitor.iterations + spent.calls
           tokens == monitor.tokens + spent.tokens
<1>2. /\ monitor.repeated \in Nat /\ monitor.iterations \in Nat /\ monitor.tokens \in Nat
      /\ spent.calls \in Nat /\ spent.tokens \in Nat
  BY DEF RepairTypeOK, Monitors
<1>3. repeated \in Nat /\ iterations \in Nat /\ tokens \in Nat
  BY <1>2
<1>4. monitor' = [last |-> target, repeated |-> repeated, iterations |-> iterations, tokens |-> tokens]
  BY <1>1
<1>5. \/ row' = row
      \/ row' = [row EXCEPT !.status = "STAGNATION_WARNING", !.stagnation = repeated, !.alerts = @ + 1]
  BY <1>1
<1> HIDE DEF repeated, iterations, tokens
<1> QED
  BY <1>3, <1>4, <1>5 DEF Monitors

\* The session is given up, by an exception, a failed flush or the end of the process.
LEMMA AbandonTypes ==
    ASSUME RepairTypeOK, Abandon, UNCHANGED <<saved, savedPlans>>
    PROVE  /\ row' \in TaskRows /\ saved' \in TaskRows
           /\ plans' \in Seq(Plans) /\ savedPlans' \in Seq(Plans)
           /\ execution' = NotRunning /\ execution' \in Executions
BY NotRunningType DEF RepairTypeOK, Abandon

LEMMA RepairTypes == RepairTypeOK /\ (RepairNext \/ Restart) => RepairTypeOK'
<1> SUFFICES ASSUME RepairTypeOK, RepairNext \/ Restart PROVE RepairTypeOK'
  OBVIOUS
<1> USE RepairBounds
<1>1. CASE Decide
  BY <1>1 DEF Decide, RepairTypeOK, caller, taskRows, planRows, memory
<1>2. CASE Feedback
  <2>1. PICK kind \in FeedbackKinds : row' = [row EXCEPT !.signals = @ \union {kind}]
    BY <1>2 DEF Feedback
  <2>2. row.signals \union {kind} \in SUBSET FeedbackKinds
    BY TaskRowFields DEF RepairTypeOK
  <2>3. row' \in TaskRows
    BY <2>1, <2>2 DEF RepairTypeOK, TaskRows
  <2> QED
    BY <1>2, <2>3 DEF Feedback, RepairTypeOK, caller, planRows, memory
<1>3. CASE MakePlan
  <2>1. PICK impact \in Impacts :
          plans' = Append(plans, [checks |-> ChecksFor(impact), runs |-> {}, verdict |-> "none"])
    BY <1>3 DEF MakePlan
  <2>2. [checks |-> ChecksFor(impact), runs |-> {}, verdict |-> "none"] \in Plans
    BY CheckNamesType DEF Plans
  <2>3. plans' \in Seq(Plans) /\ Len(plans') = Len(plans) + 1 /\ Len(plans) \in Nat
    BY <2>1, <2>2 DEF RepairTypeOK
  <2> QED
    BY <1>3, <2>3 DEF MakePlan, RepairTypeOK, caller, taskRows, memory
<1>4. CASE Execute
  <2>1. PICK v \in 1 .. Len(plans) :
          execution' = [plan |-> v, pending |-> plans[v].checks, passed |-> TRUE]
    BY <1>4 DEF Execute
  <2>2. plans[v] \in Plans /\ v \in Nat
    BY DEF RepairTypeOK
  <2>3. plans[v].checks \in SUBSET CheckNames
    BY <2>2 DEF Plans
  <2>4. execution' \in Executions /\ execution'.plan = v
    BY <2>1, <2>2, <2>3 DEF Executions
  <2> QED
    BY <1>4, <2>4 DEF Execute, RepairTypeOK, caller, taskRows, planRows, memory, Executions
<1>5. CASE RunCheck
  <2>1. PICK c \in CheckNames, exit \in {0, 1} :
          /\ plans' = [plans EXCEPT ![execution.plan] = WithRun(@, c, exit)]
          /\ execution' = Executed(c, exit = 0)
    BY <1>5 DEF RunCheck
  <2>2. execution.plan \in 1 .. Len(plans)
    BY <1>5 DEF RunCheck, RepairTypeOK
  <2>3. plans[execution.plan] \in Plans
    BY <2>2 DEF RepairTypeOK
  <2> DEFINE p == plans[execution.plan]
  <2>4. p.runs \union {[check |-> c, exit |-> exit]} \in SUBSET Runs
    BY <2>3 DEF Plans, Runs
  <2>5. WithRun(p, c, exit) \in Plans
    BY <2>3, <2>4 DEF Plans, WithRun
  <2>7. plans' \in Seq(Plans) /\ Len(plans') = Len(plans)
    BY <2>1, <2>2, <2>5 DEF RepairTypeOK
  <2>8. execution' \in Executions /\ execution'.plan = execution.plan
    BY <2>1 DEF Executed, RepairTypeOK, Executions
  <2> QED
    BY <1>5, <2>2, <2>7, <2>8 DEF RunCheck, RepairTypeOK, Executions, caller, taskRows, memory
<1>6. CASE CheckNotRun
  <2>1. PICK c \in CheckNames : execution' = Executed(c, FALSE)
    BY <1>6 DEF CheckNotRun
  <2>2. execution.plan \in 1 .. Len(plans)
    BY <1>6 DEF CheckNotRun, RepairTypeOK
  <2>3. execution' \in Executions /\ execution'.plan = execution.plan
    BY <2>1 DEF Executed, RepairTypeOK, Executions
  <2> QED
    BY <1>6, <2>2, <2>3 DEF CheckNotRun, RepairTypeOK, Executions, caller, taskRows, planRows, memory
<1>7. CASE RunAgain
  BY <1>7, AbandonTypes DEF RunAgain, RepairTypeOK, Executions, caller, memory
<1>8. CASE EndExecute
  <2>1. execution.plan \in 1 .. Len(plans)
    BY <1>8 DEF EndExecute, RepairTypeOK
  <2>2. plans[execution.plan] \in Plans
    BY <2>1 DEF RepairTypeOK
  <2>3. Passed(plans[execution.plan]) \in Plans
    BY <2>2 DEF Plans, Passed
  <2>4. plans' = plans \/ plans' = [plans EXCEPT ![execution.plan] = Passed(@)]
    BY <1>8 DEF EndExecute
  <2>5. plans' \in Seq(Plans) /\ Len(plans') = Len(plans)
    <3>1. CASE plans' = plans
      BY <3>1 DEF RepairTypeOK
    <3>2. CASE plans' = [plans EXCEPT ![execution.plan] = Passed(@)]
      BY <2>1, <2>3, <3>2 DEF RepairTypeOK
    <3> QED
      BY <2>4, <3>1, <3>2
  <2>6. execution' = NotRunning /\ execution' \in Executions
    BY <1>8, NotRunningType DEF EndExecute
  <2> QED
    BY <1>8, <2>5, <2>6 DEF EndExecute, RepairTypeOK, Executions, caller, taskRows, memory
<1>9. CASE RecordAttempt
  <2>1. PICK diff \in Diffs, signature \in Signatures \union {NoSignature},
             status \in {"COMPLETED", "STAGNATION_WARNING", "REPAIRING"} :
          /\ attempts' = Append(attempts, [diff |-> diff, signature |-> signature, made |-> status])
          /\ row' = [row EXCEPT !.status = status, !.repairs = @ + 1,
                                !.granted = IF status = "REPAIRING" THEN @ + 1 ELSE @]
    BY <1>9, AttemptOutcome
  <2>2. row.repairs \in Nat /\ row.granted \in Nat
    BY TaskRowFields DEF RepairTypeOK
  <2>5. row.repairs + 1 \in Nat /\ row.granted + 1 \in Nat /\ status \in Statuses
    BY <2>2 DEF Statuses
  <2>3. row' \in TaskRows
    BY <2>1, <2>2, <2>5 DEF RepairTypeOK, TaskRows
  <2>4. attempts' \in Seq(Attempts)
    BY <2>1 DEF RepairTypeOK, Attempts
  <2> QED
    BY <1>9, <2>3, <2>4 DEF RecordAttempt, RepairTypeOK, caller, planRows
<1>10. CASE Observe
  <2>1. row' \in TaskRows
    <3>1. ASSUME NEW repeated \in Nat,
                 row' = [row EXCEPT !.status = "STAGNATION_WARNING", !.stagnation = repeated,
                                    !.alerts = @ + 1]
          PROVE  row' \in TaskRows
      <4>1. row.alerts + 1 \in Nat /\ "STAGNATION_WARNING" \in Statuses
        BY TaskRowFields DEF RepairTypeOK, Statuses
      <4> QED
        BY <3>1, <4>1 DEF RepairTypeOK, TaskRows
    <3> QED
      BY <1>10, <3>1, ObserveOutcome DEF RepairTypeOK
  <2> QED
    BY <1>10, <2>1, ObserveOutcome DEF Observe, RepairTypeOK, caller, planRows
<1>11. CASE Commit
  BY <1>11 DEF Commit, RepairTypeOK, caller, memory
<1>12. CASE RollBack
  BY <1>12, AbandonTypes DEF RollBack, RepairTypeOK, Executions, memory
<1>13. CASE Restart
  <2>1. NewMonitor \in Monitors /\ <<>> \in Seq(Attempts)
    BY DEF NewMonitor, Monitors
  <2> QED
    BY <1>13, <2>1, AbandonTypes DEF Restart, RepairTypeOK, Executions
<1>14. CASE EvaluateProgress
  <2>1. PICK event \in ProgressEvents : row' = [row EXCEPT !.events = @ \union {event}]
    BY <1>14 DEF EvaluateProgress, Progress, ProgressEvents
  <2>2. row.events \union {event} \in SUBSET ProgressEvents
    BY TaskRowFields DEF RepairTypeOK
  <2>3. row' \in TaskRows
    BY <2>1, <2>2 DEF RepairTypeOK, TaskRows
  <2> QED
    BY <1>14, <2>3 DEF EvaluateProgress, RepairTypeOK, caller, planRows, memory
<1> QED
  BY <1>1, <1>2, <1>3, <1>4, <1>5, <1>6, <1>7, <1>8, <1>9, <1>10, <1>11, <1>12, <1>13, <1>14
     DEF RepairNext

-----------------------------------------------------------------------------
(* Plans and their runs. *)

\* One plan of many is changed to one that fits.
LEMMA OnePlanFits ==
    ASSUME plans \in Seq(Plans), PlansFit(plans), NEW v \in 1 .. Len(plans), NEW new, Fits(new),
           plans' = [plans EXCEPT ![v] = new]
    PROVE  PlansFit(plans') /\ plans'[v] = new
<1>1. Len(plans') = Len(plans) /\ \A w \in 1 .. Len(plans) : plans'[w] = IF w = v THEN new ELSE plans[w]
  OBVIOUS
<1> QED
  BY <1>1 DEF PlansFit

\* A run of the next check of a plan, which has none yet.
LEMMA RunFits ==
    ASSUME NEW p \in Plans, NEW e \in Executions, Fits(p), SoFar(p, e),
           NEW c \in e.pending, NEW exit \in {0, 1}, ~ HasRun(p, c),
           NEW d \in Executions, d.pending = e.pending \ {c},
           d.passed = TRUE => e.passed = TRUE /\ exit = 0
    PROVE  Fits(WithRun(p, c, exit)) /\ SoFar(WithRun(p, c, exit), d)
<1> DEFINE q == WithRun(p, c, exit)
<1>1. /\ q.checks = p.checks /\ q.verdict = p.verdict
      /\ q.runs = p.runs \union {[check |-> c, exit |-> exit]}
  BY DEF WithRun, Plans
<1>2. c \in p.checks
  BY DEF SoFar
<1>3. p.verdict # "passed"
  <2>1. Exact(p) => [check |-> c, exit |-> 0] \in p.runs
    BY <1>2 DEF Exact
  <2> QED
    BY <2>1 DEF Fits, HasRun
<1> HIDE DEF q
<1>4. Fits(q)
  BY <1>1, <1>2, <1>3 DEF Fits
<1>5. ASSUME d.passed = TRUE, NEW k \in q.checks \ d.pending PROVE Succeeded(q, k)
  <2>1. CASE k = c
    BY <1>1, <1>5, <2>1 DEF Succeeded, HasRun
  <2>2. CASE k # c
    <3>1. Succeeded(p, k)
      BY <1>1, <1>5, <2>2 DEF SoFar
    <3> QED
      BY <1>1, <2>2, <3>1 DEF Succeeded
  <2> QED
    BY <2>1, <2>2
<1>6. d.pending \subseteq q.checks
  BY <1>1 DEF SoFar
<1>7. SoFar(q, d)
  BY <1>5, <1>6 DEF SoFar
<1> QED
  BY <1>4, <1>7 DEF q

\* execute() has gone through a plan and nothing has failed.
LEMMA PassedFits ==
    ASSUME NEW p \in Plans, NEW e \in Executions, Fits(p), SoFar(p, e), e.pending = {}, e.passed = TRUE
    PROVE  Fits(Passed(p))
<1>1. \A c \in p.checks : Succeeded(p, c)
  BY DEF SoFar
<1>2. p.runs \subseteq Runs
  BY DEF Plans
<1>3. ASSUME NEW r \in p.runs PROVE \E c \in p.checks : r = [check |-> c, exit |-> 0]
  <2>1. r.check \in p.checks /\ r.exit = 0
    BY <1>1 DEF Fits, Succeeded
  <2>2. r \in [check : CheckNames, exit : {0, 1}]
    BY <1>2 DEF Runs
  <2>3. r = [check |-> r.check, exit |-> r.exit]
    BY <2>2
  <2> QED
    BY <2>1, <2>3
<1>4. Exact(p)
  BY <1>1, <1>3 DEF Exact, Succeeded
<1>5. Passed(p).checks = p.checks /\ Passed(p).runs = p.runs
  BY DEF Passed, Plans
<1> QED
  BY <1>4, <1>5 DEF Fits, Exact

LEMMA ExecutedFields ==
    ASSUME execution \in Executions, NEW c, NEW ok \in BOOLEAN
    PROVE  /\ Executed(c, ok).pending = execution.pending \ {c}
           /\ Executed(c, ok).plan = execution.plan
           /\ Executed(c, ok).passed = TRUE => execution.passed = TRUE /\ ok
BY DEF Executed, Executions

LEMMA PlansKept == RepairTypeOK /\ PlansInv /\ (RepairNext \/ Restart) => PlansInv'
<1> SUFFICES ASSUME RepairTypeOK, PlansInv, RepairNext \/ Restart PROVE PlansInv'
  OBVIOUS
<1>0. /\ plans \in Seq(Plans) /\ execution \in Executions /\ execution' \in Executions
      /\ PlansFit(plans) /\ PlansFit(savedPlans)
      /\ execution # NotRunning => /\ execution.plan \in 1 .. Len(plans)
                                   /\ SoFar(plans[execution.plan], execution)
  BY RepairTypes DEF RepairTypeOK, PlansInv, RunsSoFar, Executions
<1>1. CASE Decide \/ Feedback \/ EvaluateProgress \/ RecordAttempt \/ Observe
  BY <1>1 DEF Decide, Feedback, EvaluateProgress, RecordAttempt, Observe, planRows, PlansInv, RunsSoFar
<1>2. CASE MakePlan
  <2>1. PICK p : /\ plans' = Append(plans, p) /\ p.runs = {} /\ p.verdict = "none"
    BY <1>2 DEF MakePlan
  <2>2. Fits(p)
    BY <2>1 DEF Fits
  <2>3. PlansFit(plans')
    <3>1. /\ Len(plans') = Len(plans) + 1 /\ plans'[Len(plans) + 1] = p /\ Len(plans) \in Nat
          /\ \A v \in 1 .. Len(plans) : plans'[v] = plans[v]
      BY <1>0, <2>1
    <3> QED
      BY <1>0, <2>2, <3>1 DEF PlansFit
  <2> QED
    BY <1>0, <1>2, <2>3 DEF MakePlan, Calls, PlansInv, RunsSoFar
<1>3. CASE Execute
  <2>1. PICK v \in 1 .. Len(plans) :
          execution' = [plan |-> v, pending |-> plans[v].checks, passed |-> TRUE]
    BY <1>3 DEF Execute
  <2>2. plans' = plans /\ savedPlans' = savedPlans
    BY <1>3 DEF Execute, planRows
  <2>3. execution'.plan = v /\ execution'.pending = plans[v].checks
    BY <2>1
  <2>4. SoFar(plans[v], execution')
    BY <2>3 DEF SoFar
  <2> QED
    BY <1>0, <2>2, <2>3, <2>4 DEF PlansInv, RunsSoFar
<1>4. CASE RunCheck
  <2>1. PICK c \in CheckNames, exit \in {0, 1} :
          /\ IsNext(c) /\ ~ HasRun(plans[execution.plan], c)
          /\ plans' = [plans EXCEPT ![execution.plan] = WithRun(@, c, exit)]
          /\ execution' = Executed(c, exit = 0)
    BY <1>4 DEF RunCheck
  <2>2. /\ execution.plan \in 1 .. Len(plans) /\ c \in execution.pending
        /\ savedPlans' = savedPlans
        /\ SoFar(plans[execution.plan], execution)
    BY <1>0, <1>4, <2>1 DEF RunCheck, IsNext
  <2> DEFINE p == plans[execution.plan]
  <2>3. p \in Plans /\ Fits(p)
    BY <1>0, <2>2 DEF PlansFit
  <2>4. /\ execution'.pending = execution.pending \ {c} /\ execution'.plan = execution.plan
        /\ execution'.passed = TRUE => execution.passed = TRUE /\ exit = 0
    BY <1>0, <2>1, ExecutedFields
  <2>5. Fits(WithRun(p, c, exit)) /\ SoFar(WithRun(p, c, exit), execution')
    BY <1>0, <2>1, <2>2, <2>3, <2>4, RunFits
  <2> DEFINE q == WithRun(p, c, exit)
  <2>6. plans' = [plans EXCEPT ![execution.plan] = q]
    BY <1>0, <2>1
  <2> HIDE DEF q
  <2>7. Fits(q)
    BY <2>5 DEF q
  <2>8. PlansFit(plans') /\ plans'[execution.plan] = q
    BY <1>0, <2>2, <2>6, <2>7, OnePlanFits
  <2> QED
    BY <1>0, <2>2, <2>4, <2>5, <2>8 DEF PlansInv, RunsSoFar, q
<1>5. CASE CheckNotRun
  <2>1. PICK c \in CheckNames : execution' = Executed(c, FALSE)
    BY <1>5 DEF CheckNotRun
  <2>2. /\ execution'.pending = execution.pending \ {c} /\ execution'.plan = execution.plan
        /\ execution'.passed # TRUE
    BY <1>0, <2>1, ExecutedFields
  <2>3. /\ plans' = plans /\ savedPlans' = savedPlans
        /\ SoFar(plans[execution.plan], execution)
    BY <1>0, <1>5 DEF CheckNotRun, planRows
  <2>4. SoFar(plans[execution.plan], execution')
    BY <2>2, <2>3 DEF SoFar
  <2> QED
    BY <1>0, <2>2, <2>3, <2>4 DEF PlansInv, RunsSoFar
<1>6. CASE EndExecute
  <2>1. /\ execution.plan \in 1 .. Len(plans) /\ execution.pending = {} /\ savedPlans' = savedPlans
        /\ SoFar(plans[execution.plan], execution) /\ execution' = NotRunning
    BY <1>0, <1>6 DEF EndExecute
  <2> DEFINE p == plans[execution.plan]
  <2>2. p \in Plans /\ Fits(p)
    BY <1>0, <2>1 DEF PlansFit
  <2>3. PlansFit(plans')
    <3>1. CASE execution.passed = TRUE
      <4>1. plans' = [plans EXCEPT ![execution.plan] = Passed(p)]
        BY <1>0, <1>6, <3>1 DEF EndExecute
      <4>2. Fits(Passed(p))
        BY <1>0, <2>1, <2>2, <3>1, PassedFits
      <4> QED
        BY <1>0, <2>1, <4>1, <4>2, OnePlanFits
    <3>2. CASE execution.passed = FALSE
      BY <1>0, <1>6, <3>2 DEF EndExecute
    <3> QED
      BY <1>0, <3>1, <3>2 DEF Executions
  <2> QED
    BY <1>0, <2>1, <2>3 DEF PlansInv, RunsSoFar
<1>7. CASE RunAgain \/ RollBack \/ Restart
  BY <1>0, <1>7 DEF RunAgain, RollBack, Restart, Abandon, PlansInv, RunsSoFar
<1>8. CASE Commit
  BY <1>0, <1>8 DEF Commit, PlansInv, RunsSoFar
<1> QED
  BY <1>1, <1>2, <1>3, <1>4, <1>5, <1>6, <1>7, <1>8 DEF RepairNext

-----------------------------------------------------------------------------
(* The repair loop. *)

\* A repair is granted only while the count in the row leaves one.
LEMMA TaskKept == RepairTypeOK /\ TaskInv /\ (RepairNext \/ Restart) => TaskInv'
<1> SUFFICES ASSUME RepairTypeOK, TaskInv, RepairNext \/ Restart PROVE TaskInv'
  OBVIOUS
<1> USE RepairBounds
<1>0. /\ row \in TaskRows /\ row.repairs \in Nat /\ row.granted \in Nat
      /\ BudgetFits(row) /\ BudgetFits(saved) /\ row.evaluation = saved.evaluation
  BY TaskRowFields DEF RepairTypeOK, TaskInv
<1>1. CASE RecordAttempt
  <2>1. PICK diff \in Diffs, signature \in Signatures \union {NoSignature},
             status \in {"COMPLETED", "STAGNATION_WARNING", "REPAIRING"} :
          /\ status = "REPAIRING" => ~ Exhausted(diff, signature)
          /\ row' = [row EXCEPT !.status = status, !.repairs = @ + 1,
                                !.granted = IF status = "REPAIRING" THEN @ + 1 ELSE @]
    BY <1>1, AttemptOutcome
  <2>2. /\ row'.repairs = row.repairs + 1 /\ row'.evaluation = row.evaluation
        /\ row'.granted = IF status = "REPAIRING" THEN row.granted + 1 ELSE row.granted
    BY <1>0, <2>1 DEF TaskRows
  <2>3. status = "REPAIRING" => row.repairs + 1 < MaxRepairs
    BY <1>0, <2>1 DEF Exhausted
  <2>4. BudgetFits(row')
    BY <1>0, <2>2, <2>3 DEF BudgetFits
  <2> QED
    BY <1>0, <1>1, <2>2, <2>4 DEF RecordAttempt, TaskInv
<1>2. CASE Feedback \/ EvaluateProgress
  <2>1. row'.repairs = row.repairs /\ row'.granted = row.granted /\ row'.evaluation = row.evaluation
    BY <1>0, <1>2 DEF Feedback, EvaluateProgress, TaskRows
  <2> QED
    BY <1>0, <1>2, <2>1 DEF Feedback, EvaluateProgress, TaskInv, BudgetFits
<1>3. CASE Observe
  <2>1. row'.repairs = row.repairs /\ row'.granted = row.granted /\ row'.evaluation = row.evaluation
    BY <1>0, <1>3, ObserveOutcome DEF TaskRows
  <2> QED
    BY <1>0, <1>3, <2>1 DEF Observe, TaskInv, BudgetFits
<1>4. CASE Decide \/ MakePlan \/ Execute \/ RunCheck \/ CheckNotRun \/ EndExecute
  BY <1>4 DEF Decide, MakePlan, Execute, RunCheck, CheckNotRun, EndExecute, taskRows, TaskInv, BudgetFits
<1>5. CASE RunAgain \/ RollBack \/ Restart
  BY <1>0, <1>5 DEF RunAgain, RollBack, Restart, Abandon, TaskInv
<1>6. CASE Commit
  BY <1>0, <1>6 DEF Commit, TaskInv
<1> QED
  BY <1>1, <1>2, <1>3, <1>4, <1>5, <1>6 DEF RepairNext

\* What the loop goes on after is new to the process.
LEMMA RepeatsKept == RepairTypeOK /\ RepeatsAreStopped /\ (RepairNext \/ Restart) => RepeatsAreStopped'
<1> SUFFICES ASSUME RepairTypeOK, RepeatsAreStopped, RepairNext \/ Restart PROVE RepeatsAreStopped'
  OBVIOUS
<1>1. CASE RecordAttempt
  <2>1. PICK diff \in Diffs, signature \in Signatures \union {NoSignature},
             status \in {"COMPLETED", "STAGNATION_WARNING", "REPAIRING"} :
          /\ status = "REPAIRING" => ~ Exhausted(diff, signature)
          /\ attempts' = Append(attempts, [diff |-> diff, signature |-> signature, made |-> status])
    BY <1>1, AttemptOutcome
  <2> DEFINE n == Len(attempts)
             new == [diff |-> diff, signature |-> signature, made |-> status]
  <2>2. /\ n \in Nat /\ Len(attempts') = n + 1 /\ attempts'[n + 1] = new
        /\ \A i \in 1 .. n : attempts'[i] = attempts[i]
    BY <2>1 DEF RepairTypeOK
  <2>3. new.diff = diff /\ new.signature = signature /\ new.made = status
    OBVIOUS
  <2> HIDE DEF new
  <2>4. ASSUME NEW i \in 1 .. n, status = "REPAIRING"
        PROVE  /\ attempts[i].diff # diff
               /\ signature # NoSignature => attempts[i].signature # signature
    BY <2>1, <2>4 DEF Exhausted, Tried, Failed
  <2>5. ASSUME NEW i \in 1 .. n + 1, NEW j \in 1 .. n + 1, i < j, attempts'[j].made = "REPAIRING"
        PROVE  /\ attempts'[i].diff # attempts'[j].diff
               /\ attempts'[j].signature # NoSignature => attempts'[i].signature # attempts'[j].signature
    <3>1. i \in 1 .. n
      BY <2>2, <2>5
    <3>2. CASE j = n + 1
      BY <2>2, <2>3, <2>4, <2>5, <3>1, <3>2
    <3>3. CASE j # n + 1
      <4>1. j \in 1 .. n
        BY <2>2, <3>3
      <4> QED
        BY <2>2, <2>5, <3>1, <4>1 DEF RepeatsAreStopped
    <3> QED
      BY <3>2, <3>3
  <2> QED
    BY <2>2, <2>5 DEF RepeatsAreStopped
<1>2. CASE Restart
  BY <1>2 DEF Restart, RepeatsAreStopped
<1>3. CASE ~ RecordAttempt /\ ~ Restart
  <2>1. attempts' = attempts
    BY <1>3 DEF RepairNext, Decide, Feedback, EvaluateProgress, MakePlan, Execute, RunCheck, CheckNotRun, RunAgain,
                EndExecute, Observe, Commit, RollBack, memory
  <2> QED
    BY <2>1 DEF RepeatsAreStopped
<1> QED
  BY <1>1, <1>2, <1>3

LEMMA RepairKeeps == RepairInv /\ (RepairNext \/ Restart) => RepairInv'
BY RepairTypes, PlansKept, TaskKept, RepeatsKept DEF RepairInv

LEMMA RepairStutters == RepairInv /\ UNCHANGED repairVars => RepairInv'
BY DEF RepairInv, RepairTypeOK, PlansInv, RunsSoFar, TaskInv, RepeatsAreStopped, repairVars

-----------------------------------------------------------------------------
(* Knowledge. *)

LEMMA PreferredFounded == KnowledgeTypeOK /\ EvidenceBehind => WordsNeedEvidence
<1> SUFFICES ASSUME KnowledgeTypeOK, EvidenceBehind, NEW i \in Rows,
                    CanInformSuccess(i), Boost[rows[i].status] > 0
             PROVE  rows[i].basis # "words"
  BY DEF WordsNeedEvidence
<1>0. rows[i] \in KnowledgeRows
  BY DEF KnowledgeTypeOK, Rows
<1>1. rows[i].status \in KnowledgeStatus
  BY <1>0 DEF KnowledgeRows
<1>2. rows[i].status \in Preferred
  BY <1>1 DEF CanInformSuccess, Boost, KnowledgeStatus, Preferred
<1> QED
  BY <1>2 DEF EvidenceBehind, Founded

LEMMA RowType ==
    ASSUME NEW key \in Keys, NEW version \in 1 .. MaxVersion, NEW summary \in Summaries,
           NEW status \in KnowledgeStatus, NEW basis \in Bases, NEW hash \in Hashes \union {NoHash}
    PROVE  /\ Row(key, version, summary, status, basis, hash) \in KnowledgeRows
           /\ basis # "words" \/ status \notin Preferred
              => Founded(Row(key, version, summary, status, basis, hash))
BY DEF Row, KnowledgeRows, Founded

\* A row more: its key and version are new, and it is founded.
LEMMA AppendKeeps ==
    ASSUME KnowledgeInv, NEW new \in KnowledgeRows, Founded(new), Len(rows) < MaxRows,
           \A i \in Rows : rows[i].key = new.key => rows[i].version # new.version,
           rows' = Append(rows, new), UNCHANGED <<relations, queue, allowed>>
    PROVE  KnowledgeInv'
<1> USE KnowledgeBounds DEF Rows
<1>1. /\ Len(rows) \in Nat /\ Len(rows') = Len(rows) + 1 /\ rows'[Len(rows) + 1] = new
      /\ \A i \in 1 .. Len(rows) : rows'[i] = rows[i]
      /\ rows' \in Seq(KnowledgeRows)
  BY DEF KnowledgeInv, KnowledgeTypeOK
<1>2. KnowledgeTypeOK'
  <2>1. relations' \subseteq (Rows \X Rows)' /\ allowed' \subseteq Rows'
    BY <1>1 DEF KnowledgeInv, KnowledgeTypeOK
  <2>2. queue' \in Seq(Rows')
    BY <1>1 DEF KnowledgeInv, KnowledgeTypeOK
  <2>3. \A i, j \in Rows' :
          rows'[i].key = rows'[j].key /\ rows'[i].version = rows'[j].version => i = j
    BY <1>1 DEF KnowledgeInv, KnowledgeTypeOK
  <2> QED
    BY <1>1, <2>1, <2>2, <2>3 DEF KnowledgeInv, KnowledgeTypeOK
<1>3. StaleNeverAllows'
  BY <1>1 DEF KnowledgeInv, KnowledgeTypeOK, StaleNeverAllows
<1>4. EvidenceBehind'
  BY <1>1 DEF KnowledgeInv, EvidenceBehind
<1> QED
  BY <1>2, <1>3, <1>4 DEF KnowledgeInv

LEMMA KnowledgeStutters == KnowledgeInv /\ UNCHANGED knowledgeVars => KnowledgeInv'
BY DEF KnowledgeInv, KnowledgeTypeOK, StaleNeverAllows, EvidenceBehind, Rows, knowledgeVars

LEMMA InsertKeeps ==
    ASSUME KnowledgeInv, NEW new \in KnowledgeRows, Founded(new), Insert(new)
    PROVE  KnowledgeInv'
<1>1. CASE Taken(new.key, new.version)
  BY <1>1, KnowledgeStutters DEF Insert
<1>2. CASE ~ Taken(new.key, new.version)
  <2>1. /\ Len(rows) < MaxRows /\ rows' = Append(rows, new) /\ UNCHANGED <<relations, queue, allowed>>
    BY <1>2 DEF Insert
  <2>2. \A i \in Rows : rows[i].key = new.key => rows[i].version # new.version
    BY <1>2 DEF Taken
  <2> QED
    BY <2>1, <2>2, AppendKeeps
<1> QED
  BY <1>1, <1>2

\* A row of a caller, or of the model's words where those are not preferred.
LEMMA InsertRowKeeps ==
    ASSUME KnowledgeInv,
           NEW key \in Keys, NEW version \in 1 .. MaxVersion, NEW summary \in Summaries,
           NEW status \in KnowledgeStatus, NEW basis \in Bases, NEW hash \in Hashes \union {NoHash},
           basis # "words" \/ status \notin Preferred,
           Insert(Row(key, version, summary, status, basis, hash))
    PROVE  KnowledgeInv'
<1> DEFINE new == Row(key, version, summary, status, basis, hash)
<1>1. new \in KnowledgeRows /\ Founded(new)
  BY RowType
<1>2. Insert(new)
  OBVIOUS
<1> HIDE DEF new
<1> QED
  BY <1>1, <1>2, InsertKeeps

\* A change of a row that keeps its key and version, and is founded.
LEMMA UpdateKeeps ==
    ASSUME KnowledgeInv, NEW i \in Rows, NEW new \in KnowledgeRows, Founded(new),
           new.key = rows[i].key, new.version = rows[i].version,
           new.status # "STALE" \/ i \notin allowed',
           rows' = [rows EXCEPT ![i] = new],
           relations' \subseteq Rows \X Rows, queue' \in Seq(Rows), allowed' \subseteq allowed,
           \A k, l \in 1 .. Len(queue') : queue'[k] = queue'[l] => k = l
    PROVE  KnowledgeInv'
<1> USE KnowledgeBounds DEF Rows
<1>1. /\ Len(rows) \in Nat /\ Len(rows') = Len(rows) /\ rows'[i] = new
      /\ \A j \in 1 .. Len(rows) : j # i => rows'[j] = rows[j]
      /\ rows' \in Seq(KnowledgeRows)
  BY DEF KnowledgeInv, KnowledgeTypeOK
<1>2. \A j \in 1 .. Len(rows) : rows'[j].key = rows[j].key /\ rows'[j].version = rows[j].version
  BY <1>1
<1>3. KnowledgeTypeOK'
  BY <1>1, <1>2 DEF KnowledgeInv, KnowledgeTypeOK
<1>4. StaleNeverAllows'
  BY <1>1 DEF KnowledgeInv, KnowledgeTypeOK, StaleNeverAllows
<1>5. EvidenceBehind'
  BY <1>1 DEF KnowledgeInv, EvidenceBehind
<1> QED
  BY <1>3, <1>4, <1>5 DEF KnowledgeInv

LEMMA EnqueueKeeps ==
    ASSUME KnowledgeInv, NEW i \in Rows, Enqueue(i)
    PROVE  queue' \in Seq(Rows) /\ \A k, l \in 1 .. Len(queue') : queue'[k] = queue'[l] => k = l
<1>1. queue \in Seq(Rows) /\ \A k, l \in 1 .. Len(queue) : queue[k] = queue[l] => k = l
  BY DEF KnowledgeInv, KnowledgeTypeOK
<1> HIDE DEF Rows
<1>2. CASE \E k \in 1 .. Len(queue) : queue[k] = i
  BY <1>1, <1>2 DEF Enqueue
<1>3. CASE ~ \E k \in 1 .. Len(queue) : queue[k] = i
  <2>1. queue' = Append(queue, i)
    BY <1>3 DEF Enqueue
  <2>2. /\ Len(queue') = Len(queue) + 1 /\ queue'[Len(queue) + 1] = i /\ Len(queue) \in Nat
        /\ \A k \in 1 .. Len(queue) : queue'[k] = queue[k]
        /\ queue' \in Seq(Rows)
    BY <1>1, <2>1
  <2> QED
    BY <1>1, <1>3, <2>2
<1> QED
  BY <1>2, <1>3

LEMMA ConflictsKeep ==
    ASSUME KnowledgeInv, EvaluateCandidate
    PROVE  KnowledgeInv'
<1>1. PICK i \in Rows, j \in Rows :
        /\ rows' = [rows EXCEPT ![i].status = "CONFLICTING"]
        /\ relations' = relations \union {<<i, j>>}
        /\ UNCHANGED <<queue, allowed>>
  BY DEF EvaluateCandidate, Related, Contradicts
<1>2. rows[i] \in KnowledgeRows
  BY DEF KnowledgeInv, KnowledgeTypeOK, Rows
<1> DEFINE new == [rows[i] EXCEPT !.status = "CONFLICTING"]
<1>3. "CONFLICTING" \in KnowledgeStatus
  BY DEF KnowledgeStatus
<1>4. /\ new \in KnowledgeRows /\ new.key = rows[i].key
      /\ new.version = rows[i].version /\ new.status = "CONFLICTING"
  BY <1>2, <1>3 DEF KnowledgeRows
<1>5. rows' = [rows EXCEPT ![i] = new]
  BY <1>1
<1> HIDE DEF new
<1>6. Founded(new)
  BY <1>4 DEF Founded, Preferred
<1>7. /\ relations' \subseteq Rows \X Rows /\ queue' \in Seq(Rows) /\ allowed' \subseteq allowed
      /\ \A k, l \in 1 .. Len(queue') : queue'[k] = queue'[l] => k = l
  BY <1>1 DEF KnowledgeInv, KnowledgeTypeOK
<1> QED
  BY <1>4, <1>5, <1>6, <1>7, UpdateKeeps

LEMMA PromotionsKeep ==
    ASSUME KnowledgeInv, Promote
    PROVE  KnowledgeInv'
<1>1. PICK i \in Rows, source \in SourceTypes, refs \in BOOLEAN :
        rows' = Promoted(i, source, refs) /\ UNCHANGED <<relations, queue, allowed>>
  BY DEF Promote
<1>2. CASE ~ refs
  BY <1>1, <1>2, KnowledgeStutters DEF Promoted, knowledgeVars
<1>3. CASE refs
  <2>1. rows \in Seq(KnowledgeRows) /\ rows[i] \in KnowledgeRows
    BY DEF KnowledgeInv, KnowledgeTypeOK, Rows
  <2> DEFINE status == IF source = "USER_REVIEW" THEN "REVIEWED" ELSE "VERIFIED"
             new == [rows[i] EXCEPT !.basis = "evidence", !.status = status]
  <2>2. status \in KnowledgeStatus /\ status # "STALE" /\ "evidence" \in Bases
    BY DEF KnowledgeStatus, Bases
  <2>3. rows' = [rows EXCEPT ![i] = new]
    <3>1. rows' = [rows EXCEPT ![i].basis = "evidence", ![i].status = status]
      BY <1>1, <1>3 DEF Promoted
    <3> QED
      BY <2>1, <3>1 DEF KnowledgeRows, Rows
  <2> HIDE DEF status
  <2>4. /\ new \in KnowledgeRows /\ new.key = rows[i].key /\ new.version = rows[i].version
        /\ new.status = status /\ new.basis = "evidence"
    BY <2>1, <2>2 DEF KnowledgeRows
  <2> HIDE DEF new
  <2>5. Founded(new)
    BY <2>4 DEF Founded
  <2>6. /\ relations' \subseteq Rows \X Rows /\ queue' \in Seq(Rows) /\ allowed' \subseteq allowed
        /\ \A k, l \in 1 .. Len(queue') : queue'[k] = queue'[l] => k = l
    BY <1>1 DEF KnowledgeInv, KnowledgeTypeOK
  <2> QED
    BY <2>2, <2>3, <2>4, <2>5, <2>6, UpdateKeeps
<1> QED
  BY <1>2, <1>3

LEMMA FreshnessKeeps ==
    ASSUME KnowledgeInv, NEW i \in Rows, NEW current, EvaluateFreshness(i, current)
    PROVE  KnowledgeInv'
<1>1. CASE /\ rows' = rows /\ relations' = relations /\ queue' = queue
           /\ allowed' = allowed \ {i} \/ (allowed' = allowed \union {i} /\ rows[i].status # "STALE")
  BY <1>1 DEF KnowledgeInv, KnowledgeTypeOK, StaleNeverAllows, EvidenceBehind, Rows
<1>2. CASE rows' = rows /\ relations' = relations /\ Enqueue(i) /\ allowed' = allowed \ {i}
  <2>1. queue' \in Seq(Rows) /\ \A k, l \in 1 .. Len(queue') : queue'[k] = queue'[l] => k = l
    BY <1>2, EnqueueKeeps
  <2>2. Rows' = Rows
    BY <1>2 DEF Rows
  <2> QED
    BY <1>2, <2>1, <2>2 DEF KnowledgeInv, KnowledgeTypeOK, StaleNeverAllows, EvidenceBehind
<1>3. CASE /\ rows' = [rows EXCEPT ![i].status = "STALE"] /\ relations' = relations
           /\ Enqueue(i) /\ allowed' = allowed \ {i}
  <2>1. queue' \in Seq(Rows) /\ \A k, l \in 1 .. Len(queue') : queue'[k] = queue'[l] => k = l
    BY <1>3, EnqueueKeeps
  <2>2. rows[i] \in KnowledgeRows
    BY DEF KnowledgeInv, KnowledgeTypeOK, Rows
  <2> DEFINE new == [rows[i] EXCEPT !.status = "STALE"]
  <2>3. "STALE" \in KnowledgeStatus
    BY DEF KnowledgeStatus
  <2>4. /\ new \in KnowledgeRows /\ new.key = rows[i].key
        /\ new.version = rows[i].version /\ new.status = "STALE"
    BY <2>2, <2>3 DEF KnowledgeRows
  <2>5. rows' = [rows EXCEPT ![i] = new]
    BY <1>3
  <2> HIDE DEF new
  <2>6. Founded(new)
    BY <2>4 DEF Founded, Preferred
  <2>7. relations' \subseteq Rows \X Rows /\ allowed' \subseteq allowed /\ i \notin allowed'
    BY <1>3 DEF KnowledgeInv, KnowledgeTypeOK
  <2> QED
    BY <2>1, <2>4, <2>5, <2>6, <2>7, UpdateKeeps
<1> QED
  BY <1>1, <1>2, <1>3 DEF EvaluateFreshness

LEMMA KnowledgeKeeps == KnowledgeInv /\ KnowledgeNext => KnowledgeInv'
<1> SUFFICES ASSUME KnowledgeInv, KnowledgeNext PROVE KnowledgeInv'
  OBVIOUS
<1> USE KnowledgeBounds
<1>1. CASE Add
  <2>1. PICK key \in Keys, version \in 1 .. MaxVersion, summary \in Summaries,
             status \in KnowledgeStatus, hash \in Hashes \union {NoHash} :
          Insert(Row(key, version, summary, status, "caller", hash))
    BY <1>1 DEF Add
  <2>2. "caller" \in Bases
    BY DEF Bases
  <2> QED
    BY <2>1, <2>2, InsertRowKeeps
<1>2. CASE FromLlmSummary
  <2>1. PICK key \in Keys, summary \in Summaries, status \in {"CANDIDATE", "FAILED_EXPERIENCE"} :
          Insert(Row(key, 1, summary, status, "words", NoHash))
    BY <1>2 DEF FromLlmSummary
  <2>2. /\ "words" \in Bases /\ status \in KnowledgeStatus /\ status \notin Preferred
        /\ 1 \in 1 .. MaxVersion
    BY DEF Bases, KnowledgeStatus, Preferred
  <2> QED
    BY <2>1, <2>2, InsertRowKeeps
<1>3. CASE WriteBack
  <2>1. PICK key \in Keys, summary \in Summaries :
          Insert(Row(key, 1, summary, "VERIFIED", "caller", NoHash))
    BY <1>3 DEF WriteBack
  <2>2. "caller" \in Bases /\ "VERIFIED" \in KnowledgeStatus /\ 1 \in 1 .. MaxVersion
    BY DEF Bases, KnowledgeStatus
  <2> QED
    BY <2>1, <2>2, InsertRowKeeps
<1>4. CASE EvaluateCandidate
  BY <1>4, ConflictsKeep
<1>5. CASE Promote
  BY <1>5, PromotionsKeep
<1>6. CASE CheckFreshness
  <2>1. PICK i \in Rows, current \in Hashes \union {NoHash} : EvaluateFreshness(i, current)
    BY <1>6 DEF CheckFreshness
  <2> QED
    BY <2>1, FreshnessKeeps
<1> QED
  BY <1>1, <1>2, <1>3, <1>4, <1>5, <1>6 DEF KnowledgeNext

LEMMA ForgetKeeps == KnowledgeInv /\ ForgetQueue => KnowledgeInv'
BY DEF ForgetQueue, KnowledgeInv, KnowledgeTypeOK, StaleNeverAllows, EvidenceBehind, Rows

-----------------------------------------------------------------------------
(* The composition. *)

LEMMA LessonsKeep == KnowledgeInv /\ (LearnSuccess \/ LearnFailure) => KnowledgeInv'
<1> SUFFICES ASSUME KnowledgeInv, LearnSuccess \/ LearnFailure PROVE KnowledgeInv'
  OBVIOUS
<1> USE KnowledgeBounds
<1>0. "caller" \in Bases /\ {"VERIFIED", "FAILED_EXPERIENCE"} \subseteq KnowledgeStatus /\ 1 \in 1 .. MaxVersion
  BY DEF Bases, KnowledgeStatus
<1>1. CASE UNCHANGED knowledgeVars
  BY <1>1, KnowledgeStutters
<1>2. ASSUME NEW key \in Keys, NEW summary \in Summaries, NEW hash \in Hashes \union {NoHash},
             NEW status \in {"VERIFIED", "FAILED_EXPERIENCE"},
             Insert(Row(key, 1, summary, status, "caller", hash))
      PROVE  KnowledgeInv'
  BY <1>0, <1>2, InsertRowKeeps
<1> QED
  BY <1>1, <1>2 DEF LearnSuccess, LearnFailure

\* What an evaluation makes of the task and of the knowledge base.
LEMMA EvaluationOutcome ==
    ASSUME PersistEvaluation
    PROVE  \E rest, blocked \in BOOLEAN :
             LET overall == Overall(plans # <<>> \/ rest, blocked)
             IN /\ row' = [row EXCEPT !.overall = overall, !.evaluation = EvaluationStatus(overall)]
                /\ saved' = row' /\ row = saved /\ plans = savedPlans
                /\ \/ UNCHANGED knowledgeVars
                   \/ \E key \in Keys, summary \in Summaries : MemoryProjection(key, summary)
BY DEF PersistEvaluation

LEMMA EvaluationKeeps == RepairInv /\ KnowledgeInv /\ PersistEvaluation => RepairInv' /\ KnowledgeInv'
<1> SUFFICES ASSUME RepairInv, KnowledgeInv, PersistEvaluation PROVE RepairInv' /\ KnowledgeInv'
  OBVIOUS
<1>1. PICK rest \in BOOLEAN, blocked \in BOOLEAN :
        LET overall == Overall(plans # <<>> \/ rest, blocked)
        IN /\ row' = [row EXCEPT !.overall = overall, !.evaluation = EvaluationStatus(overall)]
           /\ saved' = row' /\ row = saved /\ plans = savedPlans
           /\ \/ UNCHANGED knowledgeVars
              \/ \E key \in Keys, summary \in Summaries : MemoryProjection(key, summary)
  BY EvaluationOutcome
<1> DEFINE overall == Overall(plans # <<>> \/ rest, blocked)
<1>2. /\ overall \in {"EMPTY", "ATTENTION_REQUIRED", "BLOCKED", "COMPLETED", "IN_PROGRESS"}
      /\ EvaluationStatus(overall) \in {"PARTIAL", "COMPLETED"}
  BY DEF Overall, EvaluationStatus
<1>3. /\ row' = [row EXCEPT !.overall = overall, !.evaluation = EvaluationStatus(overall)]
      /\ saved' = row'
  BY <1>1
<1> HIDE DEF overall
<1>4. /\ row' \in TaskRows /\ row'.granted = row.granted /\ row'.repairs = row.repairs
  BY <1>2, <1>3 DEF RepairInv, RepairTypeOK, TaskRows
<1>5. UNCHANGED <<services, plans, savedPlans, attempts, monitor, execution, rollbacks, crashes>>
  BY DEF PersistEvaluation, caller, planRows, memory
<1>6. RepairTypeOK'
  BY <1>3, <1>4, <1>5 DEF RepairInv, RepairTypeOK
<1>7. PlansInv' /\ RepeatsAreStopped'
  BY <1>5 DEF RepairInv, PlansInv, RunsSoFar, RepeatsAreStopped
<1>8. TaskInv'
  BY <1>3, <1>4 DEF RepairInv, TaskInv, BudgetFits
<1>9. KnowledgeInv'
  <2>1. ASSUME NEW key \in Keys, NEW summary \in Summaries, MemoryProjection(key, summary)
        PROVE  KnowledgeInv'
    <3>1. "caller" \in Bases /\ "REVIEWED" \in KnowledgeStatus /\ 1 \in 1 .. MaxVersion
      BY KnowledgeBounds DEF Bases, KnowledgeStatus
    <3> QED
      BY <2>1, <3>1, InsertRowKeeps DEF MemoryProjection
  <2> QED
    BY <1>1, <2>1, KnowledgeStutters
<1> QED
  BY <1>6, <1>7, <1>8, <1>9 DEF RepairInv

LEMMA LearningKeeps == LearningInv /\ [LearningNext]_learningVars => LearningInv'
<1> SUFFICES ASSUME RepairInv, KnowledgeInv, [LearningNext]_learningVars PROVE RepairInv' /\ KnowledgeInv'
  BY DEF LearningInv
<1>1. CASE RepairNext /\ UNCHANGED knowledgeVars
  BY <1>1, RepairKeeps, KnowledgeStutters
<1>2. CASE Restart /\ ForgetQueue
  BY <1>2, RepairKeeps, ForgetKeeps
<1>3. CASE Calls("knowledge") /\ KnowledgeNext /\ UNCHANGED repairVars
  BY <1>3, RepairStutters, KnowledgeKeeps
<1>4. CASE LearnSuccess \/ LearnFailure
  <2>1. UNCHANGED repairVars
    BY <1>4 DEF LearnSuccess, LearnFailure
  <2> QED
    BY <1>4, <2>1, RepairStutters, LessonsKeep
<1>5. CASE PersistEvaluation
  BY <1>5, EvaluationKeeps
<1>6. CASE UNCHANGED learningVars
  BY <1>6, RepairStutters, KnowledgeStutters DEF learningVars
<1> QED
  BY <1>1, <1>2, <1>3, <1>4, <1>5, <1>6 DEF LearningNext

LEMMA LearningBegins == LearningInit => LearningInv
<1> SUFFICES ASSUME LearningInit PROVE LearningInv
  OBVIOUS
<1> USE RepairBounds, KnowledgeBounds
<1>1. /\ services \in Callers /\ row = NewTask /\ saved = NewTask /\ plans = <<>> /\ savedPlans = <<>>
      /\ attempts = <<>> /\ monitor = NewMonitor /\ execution = NotRunning
      /\ rollbacks = 0 /\ crashes = 0
      /\ rows = <<>> /\ relations = {} /\ queue = <<>> /\ allowed = {}
  BY DEF LearningInit, RepairInit, KnowledgeInit
<1>2. RepairTypeOK
  <2>1. NewTask \in TaskRows
    BY DEF NewTask, TaskRows, Statuses
  <2>2. NewMonitor \in Monitors
    BY DEF NewMonitor, Monitors
  <2> QED
    BY <1>1, <2>1, <2>2, NotRunningType DEF RepairTypeOK, Executions
<1>3. PlansInv /\ RepeatsAreStopped
  BY <1>1 DEF PlansInv, PlansFit, RunsSoFar, RepeatsAreStopped
<1>4. TaskInv
  BY <1>1 DEF TaskInv, BudgetFits, NewTask
<1>5. KnowledgeInv
  BY <1>1 DEF KnowledgeInv, KnowledgeTypeOK, StaleNeverAllows, EvidenceBehind, Rows
<1> QED
  BY <1>2, <1>3, <1>4, <1>5 DEF LearningInv, RepairInv

LEMMA LearningInvariant == LearningSpec => []LearningInv
<1>1. LearningInit => LearningInv
  BY LearningBegins
<1>2. LearningInv /\ [LearningNext]_learningVars => LearningInv'
  BY LearningKeeps
<1> QED
  BY <1>1, <1>2, PTL DEF LearningSpec

\* The evaluation is changed by persist_for_task() only, which looks at the runs of every
\* plan.
LEMMA FailureStaysStep ==
    LearningInv /\ [LearningNext]_learningVars
        => (HasFailed(savedPlans) /\ saved.evaluation = "PARTIAL" => saved'.evaluation = "PARTIAL")
<1> SUFFICES ASSUME LearningInv, [LearningNext]_learningVars, HasFailed(savedPlans),
                    saved.evaluation = "PARTIAL"
             PROVE  saved'.evaluation = "PARTIAL"
  OBVIOUS
<1>0. row \in TaskRows /\ row.evaluation = saved.evaluation
  BY DEF LearningInv, RepairInv, RepairTypeOK, TaskInv
<1>1. CASE PersistEvaluation
  <2>1. PICK rest \in BOOLEAN, blocked \in BOOLEAN :
          LET overall == Overall(plans # <<>> \/ rest, blocked)
          IN /\ row' = [row EXCEPT !.overall = overall, !.evaluation = EvaluationStatus(overall)]
             /\ saved' = row' /\ row = saved /\ plans = savedPlans
    BY <1>1, EvaluationOutcome
  <2>2. HasFailed(plans) /\ plans # <<>>
    BY <2>1 DEF HasFailed
  <2>3. Overall(plans # <<>> \/ rest, blocked) = "ATTENTION_REQUIRED"
    BY <2>2 DEF Overall
  <2>4. EvaluationStatus("ATTENTION_REQUIRED") = "PARTIAL"
    BY DEF EvaluationStatus
  <2> QED
    BY <1>0, <2>1, <2>3, <2>4 DEF TaskRows
<1>2. CASE Commit
  BY <1>0, <1>2 DEF Commit
<1>3. CASE ~ PersistEvaluation /\ ~ Commit
  <2>1. saved' = saved
    BY <1>3 DEF LearningNext, LearnSuccess, LearnFailure, RepairNext, Restart, Decide, Feedback,
                EvaluateProgress, MakePlan, Execute, RunCheck, CheckNotRun, RunAgain, EndExecute, RecordAttempt, Observe,
                RollBack, taskRows, repairVars, learningVars
  <2> QED
    BY <2>1
<1> QED
  BY <1>1, <1>2, <1>3

\* Rows, counters and knowledge keep their types, keys and versions stay unique, and
\* RefreshQueue never holds a row twice.
THEOREM LearningTypeCorrect == LearningSpec => []LearningTypeOK
<1>1. LearningInv => LearningTypeOK
  BY DEF LearningInv, RepairInv, KnowledgeInv, LearningTypeOK
<1> QED
  BY <1>1, LearningInvariant, PTL

\* ValidationExecutor.execute() calls no plan passed whose rows say otherwise, for any plans,
\* denials, repetitions and failures.
THEOREM PassedIsRun == LearningSpec => []PassedMeansRun
<1>1. LearningInv => PassedMeansRun
  BY DEF LearningInv, RepairInv, PlansInv, PlansFit, Fits, Exact, PassedMeansRun
<1> QED
  BY <1>1, LearningInvariant, PTL

\* RepairLoop's budget is kept over any number of restarts and failed sessions.
THEOREM BudgetIsKept == LearningSpec => []BudgetSurvivesRestart
<1>1. LearningInv => BudgetSurvivesRestart
  BY DEF LearningInv, RepairInv, TaskInv, BudgetFits, BudgetSurvivesRestart
<1> QED
  BY <1>1, LearningInvariant, PTL

\* One RepairLoop object does not go on after a patch or a failure that it has seen.
THEOREM RepeatsStop == LearningSpec => []RepeatsAreStopped
<1>1. LearningInv => RepeatsAreStopped
  BY DEF LearningInv, RepairInv
<1> QED
  BY <1>1, LearningInvariant, PTL

\* FreshnessService.evaluate() never lets STALE knowledge support an automatic ALLOW.
THEOREM StaleIsRefused == LearningSpec => []StaleNeverAllows
<1>1. LearningInv => StaleNeverAllows
  BY DEF LearningInv, KnowledgeInv
<1> QED
  BY <1>1, LearningInvariant, PTL

\* What KnowledgeRetriever prefers is not the words of the model alone.
THEOREM WordsAreNotPreferred == LearningSpec => []WordsNeedEvidence
<1>1. LearningInv => WordsNeedEvidence
  BY PreferredFounded DEF LearningInv, KnowledgeInv
<1> QED
  BY <1>1, LearningInvariant, PTL

\* EvaluationService.persist_for_task() never turns an evaluation that a failed check has
\* made PARTIAL into a COMPLETED one.
THEOREM FailureStays == LearningSpec => FailureIsNotForgotten
<1>1. LearningInv /\ [LearningNext]_learningVars
        => [HasFailed(savedPlans) /\ saved.evaluation = "PARTIAL" => saved'.evaluation = "PARTIAL"]_learningVars
  BY FailureStaysStep
<1> QED
  BY <1>1, LearningInvariant, PTL DEF LearningSpec, FailureIsNotForgotten

=============================================================================
