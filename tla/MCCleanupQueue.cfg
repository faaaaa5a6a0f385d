SPECIFICATION FairCleanupSpec
CONSTANTS
    c1 = c1
    c2 = c2
    d1 = d1
    a1 = a1
    a2 = a2
    here = here
    there = there
    NoDoc = NoDoc
    NoAsset = NoAsset
    Workspace = {here, there}
    IndexStore = "milvus"
    Doc = {d1}
    Asset = {a1, a2}
    Cleaner = {c1, c2}
    MaxAttempts = 2
CHECK_DEADLOCK FALSE
INVARIANTS
    CleanupInv
    DeletedMeansGone
    DeletedShowsNoError
PROPERTIES
    ImplementsTaskLease
    RowsOutliveObjects
    DeletionSettles
