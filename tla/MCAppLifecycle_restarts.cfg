SPECIFICATION FairSpec
CONSTANTS
    MaxHeight = 3
    Notice = 1
    MaxCrashes = 2
INVARIANTS
    NothingLeftOver
    CapabilitiesKnown
PROPERTIES
    ImplementsBlockMachine
    KeepsUp
CHECK_DEADLOCK FALSE
