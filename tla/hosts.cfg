SPECIFICATION SpecAll
CONSTANTS
    Space = 8
    DefaultRegions <- MCDefaultRegions
    Configs <- MCConfigs
    Ranges <- MCRanges
    MaxRanges = 2
    IntMax <- MCIntMax
    Wrap <- MCWrap
    MaxNum = 7
    MaxIds = 2
    MaxCalls = 2
    BlockSize = 3
    MemorySize = 8
    AddressSpace = 16
    MaxIssued = 2
    Requests <- MCRequests
    Cells = 12
    MaxLength = 4
    Images <- MCImages
    Mailbox = 0
    Entries = {0, 1}
    Heads = {0, 1, 5, 7}
    Messages = {2}
    Pokes <- MCPokes
    MaxOps = 3
INVARIANTS
    GrantsSound
    CallsHonored
    AgentConsistent
    StepExact
    DmaCopies
PROPERTIES
    AnswersStay
    IdsNotReused
    DmaEnds
    ImplementsFlat
    LoadsAnswered
CHECK_DEADLOCK FALSE
