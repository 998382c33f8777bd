SPECIFICATION FairSpec
CONSTANTS
    p1 = p1
    p2 = p2
    q1 = q1
    Funders = {p1, p2}
    Amount <- MCAmount
    Fee = 1
    Nobody = Nobody
    Processes = {q1}
    ProcessOf <- OneProcess
    InitialBalance <- MCBalance
    MaxIters = 3
    Deadlines = {p2}
    MaxLag = 2
    MaxFaults = 2
    MaxCrashes = 1
    MaxCalls = 2
INVARIANTS
    TypeOK
    MutexHeldAtCanister
    FundedIsHeld
    IInv
PROPERTIES
    EveryFundReturns
    DepositIsNoticed
    ImplementsFunding
CHECK_DEADLOCK FALSE
