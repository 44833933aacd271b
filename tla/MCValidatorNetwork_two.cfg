SPECIFICATION FairSpec
CONSTANTS
    MaxValidators = 2
    Counts <- MCAnyCount
    NodeKeyFiles <- MCNodeKeyFiles
    MaxVersion = 2
    MaxFaults = 2
INVARIANTS
    TypeOK
    GenesisCurrent
    SameNetwork
    KeyOneGenesis
PROPERTIES
    WipeQuiescent
    StartedComesUp
    ImplementsGenesisSource
CHECK_DEADLOCK FALSE
