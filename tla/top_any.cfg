SPECIFICATION Spec
CONSTANTS
    N = 3
    Program <- MCPause
    MaxRuns = 2
    MaxSteps = 1
    MaxCalls = 2
    MaxHalts = 1
    Breakable = {1}
    Patches = {}
    ApiReasons = {"actionPoint"}
    Risky = {"stepFromBreakpoint", "clearAtStop", "movePcAtStop", "breakOnPause", "runBeforeWait", "concurrentHalt"}
INVARIANTS
    CoreExclusive
    OriginalsSafe
    CacheCoherent
