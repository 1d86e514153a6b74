SPECIFICATION AgentSpec
CONSTANTS
    IntMax <- MCIntMax
    Wrap <- MCWrap
    MaxNum = 7
    MaxIds = 2
    MaxCalls = 2
INVARIANT
    ResetRestarts
CHECK_DEADLOCK FALSE
