SPECIFICATION ExecSpec
CONSTANTS
    Tasks = {t1}
    Execs <- TwoExecs
    Reads = {r1, r2}
    Results = {v1, v2}
    NoTask = NoTask
    NoExec = NoExec
    MaxIterations = 8
    MaxParseFailures = 4
    MaxStalled = 3
    MaxCorrections = 2
CHECK_DEADLOCK FALSE
INVARIANTS CompletedChangedFiles
