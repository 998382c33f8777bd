SPECIFICATION FairSpec
CONSTANTS
    Waiters = {w1}
    Second = 3
    HalfRange = 16
    PollInterval = 3
    Durations = {0, 1, 5, 6, 31}
    ChallengeDuration = 2
    Start = 8
    MaxLateness = 1
    Horizon = 25
INVARIANTS
    TypeOK
    DurationIsWaited
    IInv
PROPERTIES
    EveryWaitEnds
CHECK_DEADLOCK FALSE
