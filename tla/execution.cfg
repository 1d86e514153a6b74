SPECIFICATION SpecAll
CONSTANTS
    Space = 64
    Regions <- MCRegions
    Instructions <- MCInstructions
    ByteValues = 4
    RegBytes = 8
    TileElements = 2
    MemMask = 32
    ExpSize = 2
    SigSize = 2
    Shift = 5
    NumVRegs = 8
    HalvesPerReg = 4
    Scenarios <- MCScenarios
INVARIANTS NothingUnchecked FaultsPrecise ConversionExact
PROPERTIES RoundTrip ElementsExact
CHECK_DEADLOCK FALSE
