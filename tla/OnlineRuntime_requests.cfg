SPECIFICATION OnlineSpec
CONSTANTS
    h1 = h1
    h2 = h2
    Handlers = {h1, h2}
    Calls <- MCCalls
    Archives = {a1}
    MaxSessions = 2
    MaxActive = 2
    Ttl = 1
    MaxRequests = 3
    MaxRestarts = 1
CHECK_DEADLOCK FALSE
INVARIANTS OnlineTypeOK OneSessionBehindAnswer ReadyWasUnderstood NoLostBootstrap
PROPERTIES QuietWorkspaceSurvives
