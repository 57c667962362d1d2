CONSTANTS
    Requests = {q1, q2, q3}
    MaxActiveRequests = 2
    MaxChannels = 3
SPECIFICATION LifecycleFairSpec
INVARIANTS DoneSignal ShutdownCancelsAll StoreOutlivesHandlers
PROPERTIES ShutdownEnds
CHECK_DEADLOCK FALSE
