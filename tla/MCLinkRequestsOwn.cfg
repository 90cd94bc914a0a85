\* Another client links the same ports.
CONSTANTS
    Ids <- LinkIds
    NoObj = NoObj
    PostResolved = TRUE
    InitialWorlds <- Unlinked
    Catalog <- LinkCatalog
    IterateFails = FALSE
    MaxChanges = 2
    MaxRefresh = 0
    Calls = {c1}
    Others = Others
    Capacity = 1
    Signalled = TRUE
SPECIFICATION LinkSpec
PROPERTIES ReturnsOwnLink
CHECK_DEADLOCK FALSE
