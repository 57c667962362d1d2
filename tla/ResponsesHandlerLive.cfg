CONSTANTS
    c1 = c1
    CallIDs = {c1}
    Kinds = {"function"}
    RecIds = {r1, r2}
    Requests = {q1}
    Turns <- MCTurns
    ResultSets <- MCResultSets
    TTL = 1
    ConsumingLeaseTTL = 1
    ConsumedGracePeriod = 1
    MaxRecords = 1
    MaxBytesPerRecord = 1
    MaxAggregateBytes = 1
    MaxFunctionTools = 1
    MaxTime = 1
    NoRecord = NoRecord
    NoCall = NoCall
    MaxDeltas = 1
    NoTurn = NoTurn
SPECIFICATION HandlerFairSpec
INVARIANTS Answered
PROPERTIES ConsumedAfterStart HandlerReturns OverdueReclaimed
VIEW HandlerView
