SPECIFICATION Spec
CONSTANTS
    Participants = {p1, p2}
    MaxVersion = 2
    FinalVersions <- MCFinalVersions
    Requests <- AllVersions
    Deadlines = {p1}
    MaxLag = 2
    MaxFaults = 2
    MaxCalls = 2
INVARIANTS
    TypeOK
    IInv
    SuccessAfterConclusion
    SuccessMeansOwnVersion
    RegisteredOwnVersion
    WithdrawnIsPaid
CHECK_DEADLOCK FALSE
