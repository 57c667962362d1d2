SPECIFICATION GatewaySpec
CONSTANTS
    MaxLineBytes = 4
    MaxEventBytes = 5
    MaxBufferedBytes = 6
    Payloads <- MCPayloads
    Empty <- MCEmpty
    Lines <- MCLines
    ChunkOf <- MCChunkOf
    AllowedToolNames <- MCAllowed
    CustomNames <- MCCustom
    InboundName <- MCInbound
    PatchInput <- MCPatchInput
    MaxChoices = 2
    MaxToolCalls = 2
    MaxToolNameBytes = 2
    MaxProviderCallIDBytes = 3
    MaxToolCallArgumentBytes = 3
    MaxAggregateBytes = 44
    MaxOutputBytes = 7
    MaxTextBytes = 1
    MaxReasoningBytes = 1
    EventOverhead = 2
    Unprintable <- MCUnprintable
    StreamValueBytes = 3
    ItemCost = 8
VIEW MCView
INVARIANTS EventsLegal SavedTurnSeen TerminalOnceLast ToolTurnWhole BudgetsHeld CutNeverCompletes
PROPERTIES FinishedChoiceFrozen EventCharged
CHECK_DEADLOCK FALSE
