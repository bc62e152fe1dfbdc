\* Changes and faults are used up: the run ends.
SPECIFICATION Spec
CHECK_DEADLOCK FALSE
CONSTANTS
    RingSize = 1
    ChanCap = 1
    MaxMessages = 2
    MaxFaults = 1
INVARIANTS
    TypeOK
    NothingTwice
    RefreshIsFresh
PROPERTIES
    ViewCatchesUp
    AwaitedSettles
