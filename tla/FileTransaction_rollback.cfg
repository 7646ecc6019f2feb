SPECIFICATION CoreSpec
CONSTANTS
    Tasks = {t1}
    LockIds = {l1, l2}
    TxIds <- TwoTx
    Instances = {}
    NoTask = NoTask
    NoLock = NoLock
    NoFile = NoFile
    NoTx = NoTx
    NoPath = NoPath
    Ttl = 1
    MaxVersion = 1
    Paths = {p1, p2}
    Contents = {c1, c2}
    MaxChanges = 2
    MaxEdits = 1
    MaxCrashes = 1
SYMMETRY FileSymmetry
CHECK_DEADLOCK FALSE
INVARIANTS FileTypeOK
PROPERTIES RollbackRestores ConflictNeedsEdit
