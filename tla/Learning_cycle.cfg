SPECIFICATION LearningSpec
CONSTANTS
    p1 = p1
    p2 = p2
    c1 = c1
    c2 = c2
    r1 = r1
    r2 = r2
    Callers <- MCCallers
    Patches <- MCPatches
    Approved = {p1}
    ApprovedCommands = {c1}
    PolicyRevision = r1
    Impacts <- MCImpacts
    Diffs = {d1, d2}
    Signatures = {f1}
    NoSignature = NoSignature
    Targets = {t1, t2}
    NoTarget = NoTarget
    MaxRepairs = 3
    Threshold = 2
    MaxIterations = 3
    TokenBudget = 4
    Spends <- MCSpends
    MaxPlans = 2
    MaxAttempts = 3
    MaxSpent = 4
    MaxRollbacks = 1
    MaxCrashes = 1
    Keys = {k1}
    Summaries = {s1, s2}
    Hashes = {h1, h2}
    NoHash = NoHash
    MaxVersion = 2
    MaxRows = 2
SYMMETRY MCSymmetry
CHECK_DEADLOCK FALSE
INVARIANTS LearningTypeOK PassedMeansRun BudgetSurvivesRestart RepeatsAreStopped StaleNeverAllows WordsNeedEvidence
PROPERTY FailureIsNotForgotten
