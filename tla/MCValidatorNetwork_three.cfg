SPECIFICATION FairSpec
CONSTANTS
    MaxValidators = 3
    Counts <- MCAll
    NodeKeyFiles <- MCNodeKeyFiles
    MaxVersion = 1
    MaxFaults = 2
INVARIANTS
    SameGenesis
PROPERTIES
    ApplyEnds
CHECK_DEADLOCK FALSE
