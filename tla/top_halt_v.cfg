SPECIFICATION Spec
CONSTANTS
    N = 3
    Program <- MCTwo
    MaxRuns = 1
    MaxSteps = 1
    MaxCalls = 1
    MaxHalts = 1
    Breakable = {0, 1}
    Patches = {}
    ApiReasons = {}
    Risky = {}
INVARIANTS
    PcIsArch
