CONSTANTS
    c1 = c1
    c2 = c2
    q1 = q1
    q2 = q2
    CallIDs = {c1, c2}
    Kinds = {"function", "custom"}
    RecIds = {r1, r2}
    Requests = {q1, q2}
    Turns <- MCTurns
    ResultSets <- MCResultSets
    TTL = 1
    ConsumingLeaseTTL = 1
    ConsumedGracePeriod = 1
    MaxRecords = 2
    MaxBytesPerRecord = 2
    MaxAggregateBytes = 3
    MaxFunctionTools = 2
    MaxTime = 1
    Inputs <- MCInputs
    Backends <- MCBackends
    ModelOf <- MCModelOf
    ThinkingMode = "enabled"
    MaxInputItems = 5
    MaxTools = 3
    MaxSchemaBytes = 4
    WrapperBytes = 1
    NoTurn = NoTurn
    NoRecord = NoRecord
    NoCall = NoCall
SPECIFICATION MappingSpec
PROPERTIES ReplayExact AcceptanceExact AnswerTruthful
SYMMETRY Symmetry
VIEW MappingView
