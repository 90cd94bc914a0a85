\* A node, its ports and a link between them, while a refresh is under way.
CONSTANTS
    Ids <- LinkedIds
    NoObj = NoObj
    PostResolved = TRUE
    InitialWorlds <- LinkedWorlds
    Catalog <- LinkedCatalog
    IterateFails = FALSE
    MaxChanges = 2
    MaxRefresh = 1
SPECIFICATION FairSpec
INVARIANTS NativeIntegrity InitialSnapshotComplete
PROPERTIES EventuallyInStep
CHECK_DEADLOCK FALSE
