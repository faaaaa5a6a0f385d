SPECIFICATION FairQueueSpec
CONSTANTS
    w1 = w1
    w2 = w2
    w3 = w3
    t1 = t1
    t2 = t2
    t3 = t3
    t4 = t4
    d1 = d1
    d2 = d2
    NoTask = NoTask
    Task = {t1, t2, t3, t4}
    Worker = {w1, w2, w3}
    Doc = {d1, d2}
    MaxAttempts = 2
    DocOf <- MCDocOf
    Key <- MCKey
    EnqueuedAt <- MCEnqueuedAt
    TaskGroup <- MCTaskGroup
    WorkerGroup <- MCWorkerGroup
CHECK_DEADLOCK FALSE
INVARIANTS
    TypeOK
    LeaseExclusive
PROPERTIES
    LateRunChangesNothing
    ImplementsTaskLease
    EveryTaskSettles
