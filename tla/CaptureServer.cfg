CONSTANTS
    s1 = s1
    s2 = s2
    Servers = {s1, s2}
    Handlers <- MCHandlers
    OneShot = {s1}
    Earlier <- MCEarlier
    EventCount = 1
    MaxCaptures = 2
    MaxStarts = 3
    Nobody = Nobody
SPECIFICATION CaptureFairSpec
INVARIANTS NumbersUnique FixtureFree
PROPERTIES CaptureEnds
CHECK_DEADLOCK FALSE
