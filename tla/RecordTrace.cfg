SPECIFICATION FairSpec
CONSTANTS
    MaxSignals = 2
    MaxFaults = 1
    MaxOthers = 2
INVARIANTS
    TypeOK
    ImageHasTrace
    NothingLeft
PROPERTIES
    WatchedTaskEnds
    UnsignalledReturns
CHECK_DEADLOCK FALSE
