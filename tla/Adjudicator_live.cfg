SPECIFICATION FairSpec
CONSTANTS
    Participants = {p1, p2}
    MaxVersion = 1
    FinalVersions <- MCFinalVersions
    Requests <- OnlySigned
    Deadlines = {p2}
    MaxLag = 2
    MaxFaults = 2
    MaxCalls = 2
PROPERTIES
    ImplementsSettlement
    EveryCallReturns
    CooperativeCloseIsPaid
CHECK_DEADLOCK FALSE
