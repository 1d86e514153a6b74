SPECIFICATION Spec
CONSTANTS
    N = 3
    Program <- MCPause
    MaxRuns = 3
    MaxSteps = 2
    MaxCalls = 3
    MaxHalts = 0
    Breakable = {0, 1}
    Patches = {"nop", "mpause"}
    ApiReasons = {}
    Risky = {}
INVARIANTS
    TypeOK
    PcIsArch
    PlantedExactly
    StopsTruthful
    EndsQuietly
