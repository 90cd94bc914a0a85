\* Four calls on two parameters of two nodes, a ring of two, and dispose at any
\* moment.
CONSTANTS
    Ids = {1, 2}
    Keys = {volume, mute}
    Capacity = 2
    MaxSets = 4
    NoEntry = NoEntry
SPECIFICATION Spec
INVARIANTS TypeOK CacheNotBehind  SeenWhenTold
CHECK_DEADLOCK FALSE
