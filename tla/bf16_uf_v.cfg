SPECIFICATION Spec
CONSTANTS
    ExpSize = 2
    SigSize = 2
    Shift = 5
    NumVRegs = 8
    HalvesPerReg = 4
    Scenarios <- MCScenarios
INVARIANT UnderflowRaised
CHECK_DEADLOCK FALSE
