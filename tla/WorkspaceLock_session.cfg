SPECIFICATION FairSessionSpec
CONSTANTS
    Tasks = {t1, t2}
    LockIds = {l1, l2}
    TxIds <- TwoTx
    Instances = {}
    NoTask = NoTask
    NoLock = NoLock
    Ttl = 1
    MaxVersion = 2
INVARIANTS TypeOK WriteExcludesAll UnfinishedOwnsWorkspace OneUnfinished
PROPERTIES AbandonedLockExpires
CHECK_DEADLOCK FALSE
