------------------------- MODULE TaskExecutionProofs -------------------------
(***************************************************************************)
(* What holds of TaskExecution for any number of tasks and executions and  *)
(* for every RuntimePolicy whose max_stalled_iterations is at least 2.     *)
(***************************************************************************)
EXTENDS TaskExecution, TLAPS

\* Only the execution that holds the write lock is RUNNING, and no execution
\* began after it.  What it wrote is under its transaction, and its row ends the
\* loop.
RunningSound ==
    /\ \A e \in Execs : ex[e].state = "RUNNING" => e = running
    /\ running # NoExec =>
          /\ ex[running].state = "RUNNING"
          /\ \A e \in Execs : ex[e].state # "ABSENT" => e <= running
          /\ ex[running].wrote => ex[running].tx = "PREPARED"
          /\ ex[running].row => loop.verdict = "FILES_CHANGED" /\ ex[running].tx # "NONE"

\* Executions are numbered without gaps.
NoGaps == \A e, f \in Execs : f < e /\ ex[e].state # "ABSENT" => ex[f].state # "ABSENT"

\* Every turn without progress is a read-only one.
StreakIsStall == loop.streak = loop.stalled

ExecInv ==
    /\ ExecTypeOK
    /\ RunningSound
    /\ NoGaps
    /\ StreakIsStall
    /\ StallsOnlyAfterCorrections
    /\ FailedIsAccountedFor
    /\ CompletedOnChanges

-----------------------------------------------------------------------------
\* A turn that goes on, or stops with a code, has a loop of its type, and moves
\* nothing but the counter of turns and the verdict.
LEMMA TurnTypes ==
    ASSUME NEW l \in Loop, NEW code \in Verdicts
    PROVE  /\ NextTurn(l) \in Loop
           /\ NextTurn(l).verdict \in {"NONE", "MAX_ITERATIONS"}
           /\ NextTurn(l).streak = l.streak /\ NextTurn(l).stalled = l.stalled
           /\ Stop(l, code) \in Loop
           /\ Stop(l, code).verdict = code
           /\ Stop(l, code).streak = l.streak /\ Stop(l, code).stalled = l.stalled
           /\ Stop(l, code).corrections = l.corrections
<1>1. l.it + 1 \in Nat
  BY DEF Loop
<1> DEFINE v == IF l.it + 1 >= MaxIterations THEN "MAX_ITERATIONS" ELSE "NONE"
<1>2. v \in Verdicts /\ v \in {"NONE", "MAX_ITERATIONS"}
  BY DEF Verdicts
<1>3. NextTurn(l) = [l EXCEPT !.it = l.it + 1, !.verdict = v]
  BY DEF NextTurn
<1>4. Stop(l, code) = [l EXCEPT !.it = l.it + 1, !.verdict = code]
  BY DEF Stop
<1> HIDE DEF v
<1>5. QED
  BY <1>1, <1>2, <1>3, <1>4 DEF Loop

\* A stall verdict after a read comes with every correction given, unless the
\* task has rows of write tools.
LEMMA AfterReadStalls ==
    ASSUME NEW l \in Loop, NEW r \in Reads, NEW v \in Results, NEW tried \in BOOLEAN,
           l.streak = l.stalled
    PROVE  LET n == AfterRead(l, r, v, tried)
           IN  /\ n \in Loop
               /\ n.streak = n.stalled
               /\ n.verdict # "FILES_CHANGED"
               /\ n.verdict \in {"STALLED", "STALLED_READ_ONLY_LOOP"} /\ ~tried
                  => n.corrections >= MaxCorrections
<1> DEFINE fresh == v \notin l.evidence
           n == [l EXCEPT !.seen = @ \union {r}, !.evidence = @ \union {v},
                          !.streak = IF fresh THEN 0 ELSE @ + 1,
                          !.stalled = IF fresh THEN 0 ELSE @ + 1]
           idle == n.streak >= 2 \/ r \in l.seen
           more == [n EXCEPT !.corrections = @ + 1]
           code == IF ~tried /\ n.corrections >= MaxCorrections
                   THEN "STALLED_READ_ONLY_LOOP" ELSE "STALLED"
           k == IF fresh THEN 0 ELSE l.streak + 1
<1>1. n \in Loop /\ n.streak = n.stalled /\ n.corrections = l.corrections
  <2>1. k \in Nat /\ l.seen \union {r} \in SUBSET Reads /\ l.evidence \union {v} \in SUBSET Results
    BY DEF Loop
  <2>2. n = [l EXCEPT !.seen = l.seen \union {r}, !.evidence = l.evidence \union {v},
                      !.streak = k, !.stalled = k]
    OBVIOUS
  <2> HIDE DEF n, k
  <2>3. QED
    BY <2>1, <2>2 DEF Loop
<1>2. more \in Loop /\ more.streak = more.stalled
  <2> HIDE DEF n
  <2>1. n.corrections + 1 \in Nat
    BY <1>1 DEF Loop
  <2>2. QED
    BY <1>1, <2>1 DEF Loop
<1>3. code \in Verdicts /\ code \in {"STALLED", "STALLED_READ_ONLY_LOOP"}
  BY DEF Verdicts
<1> HIDE DEF n, more, code
<1>4. CASE ~tried /\ idle /\ n.corrections < MaxCorrections
  <2>1. AfterRead(l, r, v, tried) = NextTurn(more)
    BY <1>4 DEF AfterRead, n, more
  <2>2. QED
    BY <1>2, <1>3, <2>1, TurnTypes
<1>5. CASE ~(~tried /\ idle /\ n.corrections < MaxCorrections) /\ n.stalled >= MaxStalled
  <2>1. AfterRead(l, r, v, tried) = Stop(n, code)
    BY <1>5 DEF AfterRead, n, code
  <2>2. ~tried => n.corrections >= MaxCorrections
    BY <1>1, <1>5, ExecConstants DEF Loop
  <2>3. Stop(n, code) \in Loop /\ Stop(n, code).streak = n.streak /\ Stop(n, code).stalled = n.stalled
        /\ Stop(n, code).verdict = code /\ Stop(n, code).corrections = n.corrections
    BY <1>1, <1>3, TurnTypes
  <2>4. QED
    BY <1>1, <1>3, <2>1, <2>2, <2>3
<1>6. CASE ~(~tried /\ idle /\ n.corrections < MaxCorrections) /\ ~(n.stalled >= MaxStalled)
  <2>1. AfterRead(l, r, v, tried) = NextTurn(n)
    BY <1>6 DEF AfterRead, n
  <2>2. QED
    BY <1>1, <1>3, <2>1, TurnTypes
<1>7. QED
  BY <1>4, <1>5, <1>6

\* A turn that leaves the rows alone keeps the invariant if its loop does.
LEMMA RowlessTurn ==
    ASSUME ExecInv, InLoop, UNCHANGED <<waiting, running, ex>>, loop' \in Loop,
           loop'.streak = loop'.stalled, StallsOnlyAfterCorrections'
    PROVE  ExecInv'
<1>1. ~ex[running].row
  BY DEF ExecInv, InLoop, RunningSound
<1>2. ExecTypeOK'
  BY DEF ExecInv, ExecTypeOK
<1>3. RunningSound'
  BY <1>1 DEF ExecInv, RunningSound
<1>4. NoGaps' /\ StreakIsStall' /\ FailedIsAccountedFor' /\ CompletedOnChanges'
  BY DEF ExecInv, NoGaps, StreakIsStall, FailedIsAccountedFor, CompletedOnChanges, Committed
<1>5. QED
  BY <1>2, <1>3, <1>4 DEF ExecInv

\* A turn of the agent that uses a write tool keeps the invariant if it writes
\* a row only inside a transaction and then stops.
LEMMA WriteTurn ==
    ASSUME ExecInv, InLoop, UNCHANGED <<waiting, running>>,
           ex' = [ex EXCEPT ![running] = ex'[running]],
           ex'[running] \in Execution,
           ex'[running].state = "RUNNING", ex'[running].tried,
           ex'[running].wrote => ex'[running].tx = "PREPARED",
           ex'[running].row => ex'[running].tx # "NONE" /\ loop'.verdict = "FILES_CHANGED",
           loop' \in Loop, loop'.streak = loop'.stalled
    PROVE  ExecInv'
<1>1. running \in Execs /\ ex \in [Execs -> Execution] /\ ex[running].state = "RUNNING"
  BY DEF ExecInv, ExecTypeOK, RunningSound, InLoop
<1> DEFINE row == ex'[running]
<1>2. ex' = [ex EXCEPT ![running] = row] /\ row \in Execution /\ row.state = "RUNNING"
  OBVIOUS
<1>3. ex' \in [Execs -> Execution] /\ \A e \in Execs : e # running => ex'[e] = ex[e]
  <2> HIDE DEF row
  <2>1. QED
    BY <1>1, <1>2
<1>4. ExecTypeOK'
  BY <1>3 DEF ExecInv, ExecTypeOK
<1>5. RunningSound'
  BY <1>1, <1>3 DEF ExecInv, RunningSound
<1>6. NoGaps' /\ StreakIsStall'
  BY <1>1, <1>3 DEF ExecInv, NoGaps, StreakIsStall
<1>7. StallsOnlyAfterCorrections'
  BY <1>1 DEF StallsOnlyAfterCorrections, HasWriteRows, SameTask
<1>8. FailedIsAccountedFor'
  BY <1>1, <1>3 DEF ExecInv, FailedIsAccountedFor
<1>9. CompletedOnChanges'
  BY <1>1, <1>3 DEF ExecInv, CompletedOnChanges, Committed
<1>10. QED
  BY <1>4, <1>5, <1>6, <1>7, <1>8, <1>9 DEF ExecInv

\* One turn of the agent loop keeps the invariant.
LEMMA TurnKeepsInv ==
    ASSUME ExecInv, Turn
    PROVE  ExecInv'
<1>1. InLoop /\ UNCHANGED <<waiting, running>>
  BY DEF Turn, TurnRaises, TurnInvalid, ReadFails, ReadSucceeds, WriteUngrounded, WriteFails,
         PatchMismatch, WriteSucceeds
<1>2. /\ running \in Execs /\ ex \in [Execs -> Execution] /\ ex[running] \in Execution
      /\ ex[running].state = "RUNNING" /\ ~ex[running].row /\ (ex[running].wrote => ex[running].tx = "PREPARED")
      /\ loop \in Loop /\ loop.streak = loop.stalled /\ loop.verdict = "NONE"
  BY <1>1 DEF ExecInv, ExecTypeOK, RunningSound, StreakIsStall, InLoop
<1>3. ASSUME NEW code \in Verdicts, TurnRaises(code)
      PROVE  ExecInv'
  <2>1. loop' = Stop(loop, code) /\ UNCHANGED ex /\ code \in {"EXECUTION_FAILED", "GOVERNANCE_PAUSED"}
    BY <1>3 DEF TurnRaises
  <2>2. loop' \in Loop /\ loop'.streak = loop'.stalled /\ loop'.verdict = code
    BY <1>2, <2>1, TurnTypes
  <2>3. StallsOnlyAfterCorrections'
    BY <2>1, <2>2 DEF StallsOnlyAfterCorrections
  <2>4. QED
    BY <1>1, <2>1, <2>2, <2>3, RowlessTurn
<1>4. CASE TurnInvalid
  <2> DEFINE l == [loop EXCEPT !.parse = @ + 1]
  <2>1. l \in Loop /\ l.streak = l.stalled
    <3>1. loop.parse + 1 \in Nat
      BY <1>2 DEF Loop
    <3>2. QED
      BY <1>2, <3>1 DEF Loop
  <2>2. (loop' = Stop(l, "ACTION_PARSE_FAILED") \/ loop' = NextTurn(l)) /\ UNCHANGED ex
    BY <1>4 DEF TurnInvalid
  <2>3. "ACTION_PARSE_FAILED" \in Verdicts
    BY DEF Verdicts
  <2> HIDE DEF l
  <2>4. /\ loop' \in Loop /\ loop'.streak = loop'.stalled
        /\ loop'.verdict \in {"ACTION_PARSE_FAILED", "NONE", "MAX_ITERATIONS"}
    BY <2>1, <2>2, <2>3, TurnTypes
  <2>5. StallsOnlyAfterCorrections'
    BY <2>4 DEF StallsOnlyAfterCorrections
  <2>6. QED
    BY <1>1, <2>2, <2>4, <2>5, RowlessTurn
<1>5. CASE ReadFails
  <2>1. loop' = Stop(loop, "TOOL_EXECUTION_FAILED") /\ UNCHANGED ex /\ "TOOL_EXECUTION_FAILED" \in Verdicts
    BY <1>5 DEF ReadFails, Verdicts
  <2>2. loop' \in Loop /\ loop'.streak = loop'.stalled /\ loop'.verdict = "TOOL_EXECUTION_FAILED"
    BY <1>2, <2>1, TurnTypes
  <2>3. StallsOnlyAfterCorrections'
    BY <2>2 DEF StallsOnlyAfterCorrections
  <2>4. QED
    BY <1>1, <2>1, <2>2, <2>3, RowlessTurn
<1>6. ASSUME NEW r \in Reads, NEW v \in Results, ReadSucceeds(r, v)
      PROVE  ExecInv'
  <2>1. UNCHANGED ex /\ HasWriteRows(running) \in BOOLEAN /\ (HasWriteRows(running))' = HasWriteRows(running)
    BY <1>1, <1>6 DEF ReadSucceeds, HasWriteRows, SameTask, Committed
  <2>2. CASE HasFileChanges(running)
    <3>1. loop' = Stop(loop, "FILES_CHANGED") /\ "FILES_CHANGED" \in Verdicts
      BY <1>6, <2>2 DEF ReadSucceeds, Verdicts
    <3>2. loop' \in Loop /\ loop'.streak = loop'.stalled /\ loop'.verdict = "FILES_CHANGED"
      BY <1>2, <3>1, TurnTypes
    <3>3. StallsOnlyAfterCorrections'
      BY <3>2 DEF StallsOnlyAfterCorrections
    <3>4. QED
      BY <1>1, <2>1, <3>2, <3>3, RowlessTurn
  <2>3. CASE ~HasFileChanges(running)
    <3>1. loop' = AfterRead(loop, r, v, HasWriteRows(running))
      BY <1>6, <2>3 DEF ReadSucceeds
    <3>2. /\ loop' \in Loop /\ loop'.streak = loop'.stalled
          /\ loop'.verdict \in {"STALLED", "STALLED_READ_ONLY_LOOP"} /\ ~HasWriteRows(running)
             => loop'.corrections >= MaxCorrections
      BY <1>2, <2>1, <3>1, AfterReadStalls
    <3>3. StallsOnlyAfterCorrections'
      BY <2>1, <3>2 DEF StallsOnlyAfterCorrections
    <3>4. QED
      BY <1>1, <2>1, <3>2, <3>3, RowlessTurn
  <2>4. QED
    BY <2>2, <2>3
<1>7. CASE WriteUngrounded \/ PatchMismatch
  <2>1. PICK tx \in {ex[running].tx, "PREPARED"} :
            ex' = [ex EXCEPT ![running] = [ex[running] EXCEPT !.tried = TRUE, !.tx = tx]]
    <3>1. CASE WriteUngrounded
      <4>1. ex' = [ex EXCEPT ![running] = [ex[running] EXCEPT !.tried = TRUE, !.tx = ex[running].tx]]
        BY <1>2, <3>1 DEF WriteUngrounded, Execution
      <4>2. QED
        BY <4>1
    <3>2. CASE PatchMismatch
      BY <1>2, <3>2 DEF PatchMismatch, Execution
    <3>3. QED
      BY <1>7, <3>1, <3>2
  <2>2. loop' = NextTurn(loop) /\ "NONE" \in Verdicts
    BY <1>7 DEF WriteUngrounded, PatchMismatch, Verdicts
  <2>3. loop' \in Loop /\ loop'.streak = loop'.stalled
    BY <1>2, <2>2, TurnTypes
  <2>4. tx \in TxStates
    BY <1>2 DEF Execution, TxStates
  <2>5. /\ ex'[running] \in Execution /\ ex'[running].state = "RUNNING" /\ ex'[running].tried
        /\ ~ex'[running].row /\ (ex'[running].wrote => ex'[running].tx = "PREPARED")
        /\ ex' = [ex EXCEPT ![running] = ex'[running]]
    BY <1>2, <2>1, <2>4 DEF Execution
  <2>6. QED
    BY <1>1, <2>3, <2>5, WriteTurn
<1>8. ASSUME NEW tx \in TxStates, NEW changed \in BOOLEAN, WriteFails(tx, changed)
      PROVE  ExecInv'
  <2> DEFINE w == ex[running].wrote \/ changed
  <2>1. ex' = [ex EXCEPT ![running] = [ex[running] EXCEPT !.tried = TRUE, !.tx = tx, !.wrote = w]]
    BY <1>2, <1>8 DEF WriteFails, Execution
  <2>2. loop' = Stop(loop, "TOOL_EXECUTION_FAILED") /\ "TOOL_EXECUTION_FAILED" \in Verdicts
    BY <1>8 DEF WriteFails, Verdicts
  <2>3. loop' \in Loop /\ loop'.streak = loop'.stalled
    BY <1>2, <2>2, TurnTypes
  <2>4. w \in BOOLEAN /\ (w => tx = "PREPARED")
    BY <1>2, <1>8 DEF WriteFails, Execution
  <2> HIDE DEF w
  <2>5. /\ ex'[running] \in Execution /\ ex'[running].state = "RUNNING" /\ ex'[running].tried
        /\ ~ex'[running].row /\ (ex'[running].wrote => ex'[running].tx = "PREPARED")
        /\ ex' = [ex EXCEPT ![running] = ex'[running]]
    BY <1>2, <2>1, <2>4 DEF Execution
  <2>6. QED
    BY <1>1, <2>3, <2>5, WriteTurn
<1>9. CASE WriteSucceeds
  <2>1. ex' = [ex EXCEPT ![running] = [ex[running] EXCEPT !.tried = TRUE, !.tx = "PREPARED",
                                                          !.row = TRUE, !.wrote = TRUE]]
    BY <1>2, <1>9 DEF WriteSucceeds, Execution
  <2>2. loop' = Stop(loop, "FILES_CHANGED") /\ "FILES_CHANGED" \in Verdicts
    BY <1>9 DEF WriteSucceeds, Verdicts
  <2>3. loop' \in Loop /\ loop'.streak = loop'.stalled /\ loop'.verdict = "FILES_CHANGED"
    BY <1>2, <2>2, TurnTypes
  <2>4. "PREPARED" \in TxStates
    BY DEF TxStates
  <2>5. /\ ex'[running] \in Execution /\ ex'[running].state = "RUNNING" /\ ex'[running].tried
        /\ ex'[running].row /\ ex'[running].tx = "PREPARED"
        /\ ex' = [ex EXCEPT ![running] = ex'[running]]
    BY <1>2, <2>1, <2>4 DEF Execution
  <2>6. QED
    BY <1>1, <2>3, <2>5, WriteTurn
<1>10. QED
  BY <1>3, <1>4, <1>5, <1>6, <1>7, <1>8, <1>9 DEF Turn

\* The idle values are of their types.
LEMMA FreshTypes == FreshLoop \in Loop /\ Absent \in Execution
<1>1. FreshLoop \in Loop
  BY DEF FreshLoop, Loop, Verdicts
<1>2. Absent \in Execution
  BY DEF Absent, Execution, States, TxStates
<1>3. QED
  BY <1>1, <1>2

\* The first flush of an execution keeps the invariant.
LEMMA BeginKeepsInv ==
    ASSUME ExecInv, NEW t \in Tasks, NEW e \in Execs, Begin(t, e)
    PROVE  ExecInv'
<1> DEFINE row == [Absent EXCEPT !.task = t, !.state = "RUNNING"]
<1>1. row \in Execution /\ row.state = "RUNNING" /\ ~row.wrote /\ ~row.row
  <2>1. "RUNNING" \in States
    BY DEF States
  <2>2. QED
    BY <2>1, FreshTypes DEF Execution, Absent
<1>2. /\ ex \in [Execs -> Execution] /\ ex' = [ex EXCEPT ![e] = row]
      /\ running = NoExec /\ running' = e /\ loop' = FreshLoop
      /\ ex[e].state = "ABSENT"
  BY DEF Begin, NextExec, ExecInv, ExecTypeOK
<1> HIDE DEF row
<1>3. ex' \in [Execs -> Execution] /\ ex'[e] = row /\ \A f \in Execs : f # e => ex'[f] = ex[f]
  BY <1>1, <1>2
<1>4. ExecTypeOK'
  BY <1>2, <1>3, FreshTypes DEF Begin, ExecInv, ExecTypeOK
<1>5. \A f \in Execs : ex[f].state # "ABSENT" => f <= e
  BY <1>2, ExecConstants DEF ExecInv, NoGaps
<1>6. \A f \in Execs : ex[f].state # "RUNNING"
  BY <1>2, ExecConstants DEF ExecInv, RunningSound
<1>7. RunningSound'
  BY <1>1, <1>2, <1>3, <1>5, <1>6, ExecConstants DEF RunningSound
<1>8. NoGaps'
  BY <1>1, <1>3, ExecConstants DEF Begin, NextExec, ExecInv, NoGaps
<1>9. StreakIsStall' /\ StallsOnlyAfterCorrections'
  BY <1>2 DEF StreakIsStall, StallsOnlyAfterCorrections, FreshLoop
<1>10. FailedIsAccountedFor' /\ CompletedOnChanges'
  BY <1>1, <1>2, <1>3 DEF ExecInv, FailedIsAccountedFor, CompletedOnChanges, Committed
<1>11. QED
  BY <1>4, <1>7, <1>8, <1>9, <1>10 DEF ExecInv

\* The end of an execution keeps the invariant: a row ends the loop with
\* FILES_CHANGED, and whatever was counted belongs to no later execution.
LEMMA FinishKeepsInv ==
    ASSUME ExecInv, Finish
    PROVE  ExecInv'
<1> DEFINE ok == loop.verdict = "FILES_CHANGED" /\ HasFileChanges(running)
           st == IF ok THEN "COMPLETED" ELSE "FAILED"
           tx == IF ex[running].tx = "NONE" THEN "NONE" ELSE IF ok THEN "COMMITTED" ELSE "CONFLICT"
           row == [ex[running] EXCEPT !.state = st, !.tx = tx]
<1>1. /\ running \in Execs /\ ex \in [Execs -> Execution] /\ ex[running] \in Execution
      /\ ex[running].state = "RUNNING"
  BY DEF ExecInv, ExecTypeOK, RunningSound, Finish
<1>2. ex' = [ex EXCEPT ![running] = row] /\ running' = NoExec /\ loop' = FreshLoop
  BY <1>1 DEF Finish, Execution
<1>3. st \in States /\ tx \in TxStates /\ st \in {"COMPLETED", "FAILED"}
  BY DEF States, TxStates
<1>4. ok => \E f \in Execs : f <= running /\ ex[f].task = ex[running].task /\ ex[f].row
                             /\ (f = running \/ Committed(f))
  BY <1>1, ExecConstants DEF Finish, HasFileChanges, SameTask, ExecInv, RunningSound, Committed
<1>5. ~ok => ~ex[running].row /\ (ex[running].wrote => tx = "CONFLICT")
  BY <1>1 DEF Finish, HasFileChanges, ExecInv, RunningSound
<1>6. (st = "COMPLETED") = ok
  OBVIOUS
<1> HIDE DEF st, tx, ok
<1>7. /\ row \in Execution /\ row.state = st /\ row.task = ex[running].task
      /\ row.row = ex[running].row /\ row.wrote = ex[running].wrote /\ row.tx = tx
  BY <1>1, <1>3 DEF Execution
<1> HIDE DEF row
<1>8. ex' \in [Execs -> Execution] /\ ex'[running] = row /\ \A f \in Execs : f # running => ex'[f] = ex[f]
  BY <1>1, <1>2, <1>7
<1>9. ExecTypeOK'
  BY <1>2, <1>8, FreshTypes DEF Finish, ExecInv, ExecTypeOK
<1>10. RunningSound' /\ NoGaps' /\ StreakIsStall' /\ StallsOnlyAfterCorrections'
  BY <1>1, <1>2, <1>3, <1>7, <1>8 DEF ExecInv, RunningSound, NoGaps, StreakIsStall,
     StallsOnlyAfterCorrections, FreshLoop
<1>11. FailedIsAccountedFor'
  BY <1>1, <1>3, <1>5, <1>6, <1>7, <1>8 DEF ExecInv, FailedIsAccountedFor
<1>12. CompletedOnChanges'
  <2>1. \A f \in Execs : Committed(f) => f # running
    BY <1>1 DEF Committed
  <2>2. \A f \in Execs : Committed(f) \/ f = running => Committed(f)'
    BY <1>3, <1>7, <1>8 DEF Committed
  <2>3. SUFFICES ASSUME NEW e \in Execs, ex'[e].state = "COMPLETED"
                 PROVE  \E f \in Execs : f <= e /\ ex'[f].task = ex'[e].task /\ Committed(f)' /\ ex'[f].row
    BY DEF CompletedOnChanges
  <2>4. CASE e = running
    BY <1>4, <1>6, <1>7, <1>8, <2>2, <2>3, <2>4
  <2>5. CASE e # running
    BY <1>8, <2>1, <2>2, <2>3, <2>5 DEF ExecInv, CompletedOnChanges
  <2>6. QED
    BY <2>4, <2>5
<1>13. QED
  BY <1>9, <1>10, <1>11, <1>12 DEF ExecInv

\* A crash keeps the invariant.
LEMMA CrashKeepsInv ==
    ASSUME ExecInv, Crash
    PROVE  ExecInv'
<1> DEFINE row == [ex[running] EXCEPT !.state = "LOST", !.tx = "NONE", !.tried = FALSE, !.row = FALSE]
<1>1. /\ running \in Execs /\ ex \in [Execs -> Execution] /\ ex[running] \in Execution
      /\ ex[running].state = "RUNNING"
  BY DEF ExecInv, ExecTypeOK, RunningSound, Crash
<1>2. ex' = [ex EXCEPT ![running] = row] /\ running' = NoExec /\ loop' = FreshLoop /\ waiting' = {}
  BY DEF Crash
<1>3. "LOST" \in States /\ "NONE" \in TxStates
  BY DEF States, TxStates
<1>4. row \in Execution /\ row.state = "LOST"
  BY <1>1, <1>3 DEF Execution
<1> HIDE DEF row
<1>5. ex' \in [Execs -> Execution] /\ ex'[running] = row /\ \A f \in Execs : f # running => ex'[f] = ex[f]
  BY <1>1, <1>2, <1>4
<1>6. ExecTypeOK'
  BY <1>2, <1>5, FreshTypes DEF ExecTypeOK
<1>7. RunningSound' /\ NoGaps' /\ StreakIsStall' /\ StallsOnlyAfterCorrections'
  BY <1>1, <1>2, <1>4, <1>5 DEF ExecInv, RunningSound, NoGaps, StreakIsStall,
     StallsOnlyAfterCorrections, FreshLoop
<1>8. FailedIsAccountedFor'
  BY <1>4, <1>5 DEF ExecInv, FailedIsAccountedFor
<1>9. CompletedOnChanges'
  BY <1>1, <1>4, <1>5 DEF ExecInv, CompletedOnChanges, Committed
<1>10. QED
  BY <1>6, <1>7, <1>8, <1>9 DEF ExecInv

\* A rollback, done or refused, keeps the invariant: its transaction is that of
\* an execution that has ended.
LEMMA RecoveryKeepsInv ==
    ASSUME ExecInv, NEW e \in Execs, ResolveByRollback(e) \/ RollbackConflict(e)
    PROVE  ExecInv'
<1>1. ex \in [Execs -> Execution] /\ ex[e] \in Execution /\ Committed(e) /\ UNCHANGED <<waiting, running, loop>>
  BY DEF ResolveByRollback, RollbackConflict, RecoveryTarget, Open, Done, ExecInv, ExecTypeOK
<1>2. e # running
  BY <1>1, ExecConstants DEF ExecInv, RunningSound, Committed
<1>3. PICK w \in BOOLEAN, tx \in TxStates :
         (w => ex[e].wrote) /\ tx \in {ex[e].tx, "CONFLICT", "ROLLED_BACK"} /\ ex' = [ex EXCEPT ![e] = [ex[e] EXCEPT !.wrote = w, !.tx = tx]]
  <2>1. CASE ResolveByRollback(e)
    <3> DEFINE w == ex[e].wrote /\ ~ex[e].row
               tx == IF running = NoExec THEN "ROLLED_BACK" ELSE ex[e].tx
    <3>1. ex' = [ex EXCEPT ![e] = [ex[e] EXCEPT !.wrote = w, !.tx = tx]]
      BY <1>1, <2>1 DEF ResolveByRollback, Execution
    <3>2. /\ w \in BOOLEAN /\ tx \in TxStates /\ (w => ex[e].wrote)
          /\ tx \in {ex[e].tx, "CONFLICT", "ROLLED_BACK"}
      BY <1>1 DEF Execution, TxStates
    <3> HIDE DEF w, tx
    <3>3. QED
      BY <3>1, <3>2
  <2>2. CASE RollbackConflict(e)
    <3>1. ex' = [ex EXCEPT ![e] = [ex[e] EXCEPT !.wrote = ex[e].wrote, !.tx = "CONFLICT"]]
      BY <1>1, <2>2 DEF RollbackConflict, Execution
    <3>2. ex[e].wrote \in BOOLEAN /\ "CONFLICT" \in TxStates
      BY <1>1 DEF Execution, TxStates
    <3>3. QED
      BY <3>1, <3>2
  <2>3. QED
    BY <2>1, <2>2
<1> DEFINE row == [ex[e] EXCEPT !.wrote = w, !.tx = tx]
<1>4. /\ row \in Execution /\ row.state = ex[e].state /\ row.task = ex[e].task
      /\ row.row = ex[e].row /\ row.tried = ex[e].tried /\ (row.wrote => ex[e].wrote)
      /\ row.tx \in {ex[e].tx, "CONFLICT", "ROLLED_BACK"}
  BY <1>1, <1>3 DEF Execution
<1>5. ex' = [ex EXCEPT ![e] = row]
  BY <1>3
<1> HIDE DEF row
<1>6. ex' \in [Execs -> Execution] /\ ex'[e] = row /\ \A f \in Execs : f # e => ex'[f] = ex[f]
  BY <1>1, <1>4, <1>5
<1>7. \A f \in Execs : /\ ex'[f].state = ex[f].state /\ ex'[f].task = ex[f].task
                       /\ ex'[f].row = ex[f].row /\ ex'[f].tried = ex[f].tried
                       /\ (ex'[f].wrote => ex[f].wrote)
                       /\ ex'[f].tx \in {ex[f].tx, "CONFLICT", "ROLLED_BACK"}
  BY <1>4, <1>6
<1>8. ExecTypeOK'
  BY <1>1, <1>6 DEF ExecInv, ExecTypeOK
<1>9. RunningSound'
  BY <1>1, <1>2, <1>6, <1>7, <1>8 DEF ExecInv, RunningSound, ExecTypeOK
<1>10. NoGaps' /\ StreakIsStall' /\ FailedIsAccountedFor'
  BY <1>1, <1>7 DEF ExecInv, NoGaps, StreakIsStall, FailedIsAccountedFor
<1>11. StallsOnlyAfterCorrections'
  <2>1. running # NoExec => running \in Execs
    BY DEF ExecInv, ExecTypeOK
  <2>2. running # NoExec => (HasWriteRows(running)' <=> HasWriteRows(running))
    BY <1>1, <1>7, <2>1 DEF HasWriteRows, SameTask, Committed
  <2>3. QED
    BY <1>1, <2>2 DEF ExecInv, StallsOnlyAfterCorrections
<1>12. CompletedOnChanges'
  BY <1>7 DEF ExecInv, CompletedOnChanges, Committed
<1>13. QED
  BY <1>8, <1>9, <1>10, <1>11, <1>12 DEF ExecInv

\* The inductive step.
LEMMA ExecStep ==
    ASSUME ExecInv, [ExecNext]_execVars
    PROVE  ExecInv'
<1>1. CASE /\ UNCHANGED <<running, loop, ex>>
           /\ waiting' \subseteq Tasks
  BY <1>1 DEF ExecInv, ExecTypeOK, RunningSound, NoGaps, StreakIsStall, StallsOnlyAfterCorrections,
     FailedIsAccountedFor, CompletedOnChanges, Committed, HasWriteRows, SameTask
<1>2. ASSUME NEW t \in Tasks, Request(t) \/ Busy(t)
      PROVE  ExecInv'
  BY <1>1, <1>2 DEF Request, Busy, ExecInv, ExecTypeOK
<1>3. CASE UNCHANGED execVars
  BY <1>1, <1>3 DEF execVars, ExecInv, ExecTypeOK
<1>4. QED
  BY <1>2, <1>3, TurnKeepsInv, BeginKeepsInv, FinishKeepsInv, CrashKeepsInv, RecoveryKeepsInv
  DEF ExecNext, Answer

\* The initial states satisfy the invariant.
LEMMA ExecInitInv == ExecInit => ExecInv
<1> SUFFICES ASSUME ExecInit PROVE ExecInv
  OBVIOUS
<1>1. \A e \in Execs : ex[e].state = "ABSENT"
  BY DEF ExecInit, Absent
<1>2. ExecTypeOK
  BY FreshTypes DEF ExecInit, ExecTypeOK
<1>3. QED
  BY <1>1, <1>2 DEF ExecInit, ExecInv, RunningSound, NoGaps, StreakIsStall, StallsOnlyAfterCorrections,
     FailedIsAccountedFor, CompletedOnChanges, FreshLoop

\* The invariant holds in every reachable state.
LEMMA ExecInvariance == ExecSpec => []ExecInv
<1>1. ExecInv /\ [ExecNext]_execVars => ExecInv'
  BY ExecStep
<1>2. QED
  BY <1>1, ExecInitInv, PTL DEF ExecSpec

-----------------------------------------------------------------------------
\* Every reachable state of TaskExecution is well typed.
THEOREM ExecTypeCorrect == ExecSpec => []ExecTypeOK
<1>1. ExecInv => ExecTypeOK
  BY DEF ExecInv
<1>2. QED
  BY <1>1, ExecInvariance, PTL

\* However many turns and corrections the policy allows, run_task never calls a
\* reading agent stalled before every correction was given.
THEOREM CorrectionsComeFirst == ExecSpec => []StallsOnlyAfterCorrections
<1>1. ExecInv => StallsOnlyAfterCorrections
  BY DEF ExecInv
<1>2. QED
  BY <1>1, ExecInvariance, PTL

\* An execution whose rows say FAILED has no FileChange, and a change that its
\* tool did not record is under a transaction that is CONFLICT or rolled back,
\* for any number of executions, crashes and rollbacks (orchestrator.py).
THEOREM FailureIsAccountedFor == ExecSpec => []FailedIsAccountedFor
<1>1. ExecInv => FailedIsAccountedFor
  BY DEF ExecInv
<1>2. QED
  BY <1>1, ExecInvariance, PTL

\* A COMPLETED execution has a FileChange of its task, not later than its own.
THEOREM CompletionHasChanges == ExecSpec => []CompletedOnChanges
<1>1. ExecInv => CompletedOnChanges
  BY DEF ExecInv
<1>2. QED
  BY <1>1, ExecInvariance, PTL

=============================================================================
