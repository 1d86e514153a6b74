SPECIFICATION FairSpec
CONSTANTS
    N = 3
    Program <- MCTwo
    MaxRuns = 2
    MaxSteps = 1
    MaxCalls = 2
    MaxHalts = 1
    Breakable = {1}
    Patches = {}
    ApiReasons = {}
    Risky = {}
PROPERTIES
    HaltStops
    CallsReturn
