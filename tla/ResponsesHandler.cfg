CONSTANTS
    c1 = c1
    CallIDs = {c1}
    Kinds = {"function"}
    RecIds = {r1, r2, r3}
    Requests = {q1, q2}
    Turns <- MCTurns
    ResultSets <- MCResultSets
    TTL = 1
    ConsumingLeaseTTL = 1
    ConsumedGracePeriod = 1
    MaxRecords = 1
    MaxBytesPerRecord = 1
    MaxAggregateBytes = 1
    MaxFunctionTools = 1
    MaxTime = 0
    NoRecord = NoRecord
    NoCall = NoCall
    MaxDeltas = 1
    NoTurn = NoTurn
SPECIFICATION HandlerSpec
INVARIANTS AbortAttributed Released
SYMMETRY Symmetry
VIEW HandlerView
CHECK_DEADLOCK FALSE
