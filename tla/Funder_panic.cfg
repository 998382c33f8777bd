SPECIFICATION Spec
CONSTANTS
    p1 = p1
    p2 = p2
    q1 = q1
    Funders = {p1, p2}
    Amount <- MCAmount
    Fee = 1
    Nobody = Nobody
    Processes = {q1}
    ProcessOf <- OneProcess
    InitialBalance <- MCBalance
    MaxIters = 2
    Deadlines = {}
    MaxLag = 0
    MaxFaults = 1
    MaxCrashes = 0
    MaxCalls = 1
INVARIANTS
    TransferErrorIsReturned
CHECK_DEADLOCK FALSE
