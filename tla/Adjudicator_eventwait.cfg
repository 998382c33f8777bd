SPECIFICATION FairSpec
CONSTANTS
    Participants = {p1, p2}
    MaxVersion = 1
    FinalVersions <- MCFinalVersions
    Requests <- OnlySigned
    Deadlines = {}
    MaxLag = 0
    MaxFaults = 0
    MaxCalls = 1
PROPERTIES
    ConclusionEventArrives
CHECK_DEADLOCK FALSE
