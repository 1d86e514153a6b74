SPECIFICATION DpiSpec
CONSTANTS
    Space = 8
    DefaultRegions <- MCDefaultRegions
    Configs <- MCConfigs
    Ranges <- MCRanges
    MaxRanges = 2
INVARIANT
    ResetKeepsConfig
