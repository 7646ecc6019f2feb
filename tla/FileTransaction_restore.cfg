SPECIFICATION CoreSpec
CONSTANTS
    Tasks = {t1}
    LockIds = {l1}
    TxIds <- OneTx
    Instances = {}
    NoTask = NoTask
    NoLock = NoLock
    NoFile = NoFile
    NoTx = NoTx
    NoPath = NoPath
    Ttl = 1
    MaxVersion = 1
    Paths = {p1}
    Contents = {c1, c2, c3}
    MaxChanges = 3
    MaxEdits = 0
    MaxCrashes = 1
SYMMETRY FileSymmetry
CHECK_DEADLOCK FALSE
PROPERTIES RollbackRestoresAlways
