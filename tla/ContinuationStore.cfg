CONSTANTS
    c1 = c1
    c2 = c2
    c3 = c3
    CallIDs = {c1, c2, c3}
    Kinds = {"function", "custom"}
    RecIds = {r1, r2, r3}
    Requests = {q1, q2}
    Turns <- MCTurns
    ResultSets <- MCResultSets
    TTL = 1
    ConsumingLeaseTTL = 2
    ConsumedGracePeriod = 1
    MaxRecords = 2
    MaxBytesPerRecord = 3
    MaxAggregateBytes = 3
    MaxFunctionTools = 1
    MaxTime = 2
    NoRecord = NoRecord
    NoCall = NoCall
SPECIFICATION Spec
INVARIANTS TypeOK IndexExact Bounded LeaseCustody
PROPERTIES TurnHistory CustodySpec
SYMMETRY Symmetry
VIEW StoreView
