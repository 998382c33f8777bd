SPECIFICATION FairSpec
CONSTANTS
    Participants = {p1, p2}
    MaxVersion = 2
    FinalVersions <- MCFinalVersions
    Callers = {c1, c2, c3}
    MaxLag = 2
    MaxFaults = 2
INVARIANTS
    TypeOK
    SendNeverBlocks
    OwnEventsNotTaken
    NewestAndConclusionFirst
    IInv
PROPERTIES
    ImplementsSubscription
    NextReturns
    GoroutineEnds
    EventWakesNext
CHECK_DEADLOCK FALSE
