SPECIFICATION SessionSpec
CONSTANTS
    Tasks = {t1, t2}
    LockIds = {l1, l2}
    TxIds <- TwoTx
    Instances = {}
    NoTask = NoTask
    NoLock = NoLock
    Ttl = 1
    MaxVersion = 2
PROPERTIES FailedRollbackKeepsLock
CHECK_DEADLOCK FALSE
