SPECIFICATION MCSpec
CONSTANTS
    Size = 9
    Pre = 2
    Payloads <- MCPayloads
    Injected = {"op", "nop"}
    CheckEnds <- MCCheckEnds
    Detectors = {1, 2, 3}
    Corrupted = 1
    MaxCount = 2
    MaxInserts = 1
    MaxRounds = 3
    SimPrograms <- MCSimPrograms
    StepLimit = 6
    NumVectors = 4
    Handler = 1
    NoVset <- MCNoVset
INVARIANTS
    CoverageComplete
    ImageWellFormed
    HazardsExact
    RunJudged
