\* A node, two ports and a link that change, go and come back as something
\* else, while the graph is copied twice.
CONSTANTS
    Ids <- LockedIds
    NoObj = NoObj
    PostResolved = TRUE
    InitialWorlds <- LockedWorlds
    Catalog <- LockedCatalog
    IterateFails = FALSE
    MaxChanges = 2
    MaxRefresh = 1
SPECIFICATION FairLockedSpec
INVARIANTS LockedTypeOK NoMapRace CopyIsWhole
PROPERTIES ImplementsMirror MutexReleased
CHECK_DEADLOCK FALSE
