\* A ring of 4 slots, as command_queue_test.cpp uses, lapped by 9 pushes.
CONSTANTS
    N = 4
    Items = {c1, c2}
    Empty = Empty
    Pushes = 9
    MaxPush <- MCMaxPush
SPECIFICATION Spec
INVARIANTS TypeOK NoSlotRace IndInv
PROPERTIES AnswersAreExact ImplementsFifo
