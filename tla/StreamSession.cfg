CONSTANTS
    TextKeys = {t1}
    ToolKeys = {k1, k2}
    NoKey = NoKey
    Sizes = {0, 1, 2}
    ItemCost = 2
    MetaCost = 1
    MaxAggregateBytes = 9
    MaxToolCallArgumentBytes = 2
    MaxOutputBytes = 3
    MaxTextBytes = 2
    MaxReasoningBytes = 1
SPECIFICATION SessionSpec
INVARIANTS OneEnvelope ItemsCloseOnce TerminalClosesItems BytesExact AnnouncedUnlessLimit
