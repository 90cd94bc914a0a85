\* More commands than the ring holds; the loop's event source may be signalled
\* at any moment.
CONSTANTS
    Signals = TRUE
    Capacity = 2
    MaxCommands = 3
SPECIFICATION FairSpec
INVARIANTS TypeOK ThreadObjectsAlive Nested HooksIntact NothingLeft QuitComing
PROPERTIES RunningLoopQuits
CHECK_DEADLOCK FALSE
