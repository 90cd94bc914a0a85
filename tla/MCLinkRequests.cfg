\* Two calls on a ring of one command, with a refresh, a change of another
\* client, timeouts and dispose at any moment.
CONSTANTS
    Ids <- LinkIds
    NoObj = NoObj
    PostResolved = TRUE
    InitialWorlds <- Unlinked
    Catalog <- LinkCatalog
    IterateFails = FALSE
    MaxChanges = 2
    MaxRefresh = 1
    Calls = {c1, c2}
    Others = Others
    Capacity = 1
    Signalled = TRUE
SPECIFICATION LinkSpec
INVARIANTS LinkTypeOK AnswerOnTheWay NoAnswerLost CallsEndBeforeDisconnect
PROPERTIES OutcomesAreFinal
SYMMETRY AnyCall
CHECK_DEADLOCK FALSE
