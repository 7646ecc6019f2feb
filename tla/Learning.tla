------------------------------ MODULE Learning ------------------------------
(***************************************************************************)
(* What a task leaves behind: the rows of validation and repair, its       *)
(* evaluation, and the knowledge that its caller and the evaluation store. *)
(***************************************************************************)
EXTENDS RepairCycle, Knowledge

-----------------------------------------------------------------------------
(* Lessons. *)

\* SuccessKnowledgeUpdater.extract(): no diff, or no reference to a validation, no lesson.
\* Both are what the caller says they are.
Learned(diff, refs) == diff /\ refs

\* The caller keeps the lesson with the signature of the file as it is now.  Nothing under
\* backend/src does: the tests that extract lessons do.
LearnSuccess ==
    /\ Calls("knowledge")
    /\ \E diff, refs \in BOOLEAN :
          IF Learned(diff, refs)
          THEN \E key \in Keys, summary \in Summaries, hash \in Hashes :
                  Insert(Row(key, 1, summary, "VERIFIED", "caller", hash))
          ELSE UNCHANGED knowledgeVars
    /\ UNCHANGED repairVars

\* FailureKnowledgeUpdater.extract(): a failed experience, never a fact.
LearnFailure ==
    /\ Calls("knowledge")
    /\ \E key \in Keys, summary \in Summaries :
          Insert(Row(key, 1, summary, "FAILED_EXPERIENCE", "caller", NoHash))
    /\ UNCHANGED repairVars

-----------------------------------------------------------------------------
(* Evaluation. *)

HasFailed(ps) == \E v \in 1 .. Len(ps) : \E r \in ps[v].runs : r.exit # 0

\* Mutant of Overall: the runs of the latest plan.
OverallOfLatestPlan(has, blocked) ==
    IF ~ has THEN "EMPTY"
    ELSE IF plans # <<>> /\ HasFailed(<<plans[Len(plans)]>>) THEN "ATTENTION_REQUIRED"
    ELSE IF blocked THEN "BLOCKED"
    ELSE IF row.status = "COMPLETED" THEN "COMPLETED"
    ELSE "IN_PROGRESS"

\* _overall(): a failed run of any plan asks for attention, whatever came later.
Overall(has, blocked) ==
    IF ~ has THEN "EMPTY"
    ELSE IF HasFailed(plans) THEN "ATTENTION_REQUIRED"
    ELSE IF blocked THEN "BLOCKED"
    ELSE IF row.status = "COMPLETED" THEN "COMPLETED"
    ELSE "IN_PROGRESS"

\* _evaluation_status(), what the row of the evaluation keeps of it.
EvaluationStatus(overall) ==
    IF overall \in {"ATTENTION_REQUIRED", "EMPTY"} THEN "PARTIAL" ELSE "COMPLETED"

\* EvaluationService.persist_for_task(), in a session of its own: a task is evaluated on its
\* plans and on the rest of its rows, a proposal, decision or change; where those name a
\* scope, the evaluation writes a memory.  (In the session of an execution it is part of
\* TaskExecution.)
PersistEvaluation ==
    /\ Calls("evaluation")
    /\ row = saved /\ plans = savedPlans
    /\ \E rest, blocked, scope \in BOOLEAN :
          LET overall == Overall(plans # <<>> \/ rest, blocked)
          IN /\ blocked \/ scope => rest
             /\ row' = [row EXCEPT !.overall = overall, !.evaluation = EvaluationStatus(overall)]
             /\ saved' = row'
             /\ Answers(NoAnswer)
             /\ IF scope THEN \E key \in Keys, summary \in Summaries : MemoryProjection(key, summary)
                ELSE UNCHANGED knowledgeVars
    /\ UNCHANGED <<caller, planRows, memory, execution>>

-----------------------------------------------------------------------------

LearningInit == RepairInit /\ KnowledgeInit

LearningNext ==
    \/ RepairNext /\ UNCHANGED knowledgeVars
    \/ Restart /\ ForgetQueue
    \/ Calls("knowledge") /\ KnowledgeNext /\ UNCHANGED repairVars
    \/ LearnSuccess \/ LearnFailure
    \/ PersistEvaluation

learningVars == <<repairVars, knowledgeVars>>
LearningSpec == LearningInit /\ [][LearningNext]_learningVars

-----------------------------------------------------------------------------
(* Properties. *)

\* Types of the task's rows, the counters in memory and the knowledge base; each version of
\* a key is one row, and what waits for a refresh waits once.
LearningTypeOK == RepairTypeOK /\ KnowledgeTypeOK

\* A check that failed is not evaluated away: once the evaluation of a task has asked for
\* attention because of it, no later plan, repair, rollback, restart or evaluation makes
\* the stored evaluation COMPLETED.
FailureIsNotForgotten ==
    [][HasFailed(savedPlans) /\ saved.evaluation = "PARTIAL" => saved'.evaluation = "PARTIAL"]_learningVars

=============================================================================
