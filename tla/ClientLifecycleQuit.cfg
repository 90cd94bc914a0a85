\* A client that is disconnected as soon as it is connected.
CONSTANTS
    Signals = FALSE
    Capacity = 1
    MaxCommands = 1
SPECIFICATION FairSpec
PROPERTIES DisconnectReturns
CHECK_DEADLOCK FALSE
