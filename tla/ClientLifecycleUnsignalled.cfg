\* The code as it is: nothing signals the loop's event source.
CONSTANTS
    Signals = FALSE
    Capacity = 2
    MaxCommands = 3
SPECIFICATION FairSpec
PROPERTIES CommandsServed
CHECK_DEADLOCK FALSE
