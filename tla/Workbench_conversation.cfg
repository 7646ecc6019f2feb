SPECIFICATION WorkbenchSpec
CONSTANTS
    h1 = h1
    h2 = h2
    Tasks = {t1}
    NoTask = NoTask
    Handlers = {h1, h2}
    Nobody = Nobody
    Calls <- MCCalls
    ClientPosts <- MCClientPosts
    MaxVersions = 3
    MaxRequests = 4
    MaxCrashes = 1
CHECK_DEADLOCK FALSE
INVARIANTS WorkbenchTypeOK ConfirmableWasShown ShownInOrder
PROPERTIES KeepsConversation
