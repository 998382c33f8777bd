SPECIFICATION Spec
CONSTANTS
    Participants = {p1, p2}
    MaxVersion = 3
    FinalVersions <- MCFinalVersions
    MaxLag = 3
    GroupBase = 3
    Total = 12
    Splits <- MCSplits
    Base = 3
    NonceLen = 2
    OffIdentityLen = 2
    Uint64Len = 2
    MaxBalance = 9
    NoApp = NoApp
INVARIANTS
    ReadableLogsAreRead
    OtherBalancesHideEvents
    ChannelsAreIdentified
    SignaturesVerify
CHECK_DEADLOCK FALSE
