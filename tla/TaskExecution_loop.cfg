SPECIFICATION FairExecSpec
CONSTANTS
    Tasks = {t1, t2}
    Execs <- TwoExecs
    Reads = {r1, r2}
    Results = {v1, v2}
    NoTask = NoTask
    NoExec = NoExec
    MaxIterations = 5
    MaxParseFailures = 2
    MaxStalled = 3
    MaxCorrections = 2
CHECK_DEADLOCK FALSE
INVARIANTS ExecTypeOK StallsOnlyAfterCorrections FailedIsAccountedFor CompletedOnChanges
PROPERTIES RequestsEnd
