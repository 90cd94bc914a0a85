\* Ids reused within and across kinds while a refresh is under way.
CONSTANTS
    Ids <- ChurnIds
    NoObj = NoObj
    PostResolved = TRUE
    InitialWorlds <- ChurnWorlds
    Catalog <- ChurnCatalog
    IterateFails = TRUE
    MaxChanges = 3
    MaxRefresh = 1
SPECIFICATION Spec
INVARIANTS TypeOK OneKindPerId FreshGlobals Convergence DanglingIsPassing InStepWhenIdle
CHECK_DEADLOCK FALSE
