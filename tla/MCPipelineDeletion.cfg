SPECIFICATION PipelineSpec
CONSTANTS
    w1 = w1
    w2 = w2
    c1 = c1
    t1 = t1
    t2 = t2
    d1 = d1
    a1 = a1
    here = here
    there = there
    NoTask = NoTask
    NoDoc = NoDoc
    NoAsset = NoAsset
    Task = {t1}
    Worker = {w1}
    Asset = {a1}
    Cleaner = {c1}
    MaxAttempts = 1
    Workspace = {here, there}
    IndexStore = "milvus"
    Publishable = {d1}
    PatchStatus = {"pending"}
    ExclusiveLock = FALSE
    Doc = {d1}
    IngestTask = {t1}
    DocOf <- MCDocOf
    WorkspaceOf <- MCWorkspaceOf
    Key <- MCKey
    EnqueuedAt <- MCEnqueuedAt
    TaskGroup <- MCTaskGroup
    WorkerGroup <- MCWorkerGroup
CHECK_DEADLOCK FALSE
INVARIANTS
    DeletedHasNoRows
    DeletionBuriesUploads
    DeletionInv
PROPERTIES
    DeletionIsFinal
    
