\* Configured again and again, with pulls and failures in between.
SPECIFICATION FairSpec
CONSTANTS
    MaxEdits = 2
    MaxPulls = 2
    MaxFaults = 2
INVARIANTS
    ExplorerTypeOK
    CreatedComplete
    ServesMandelbot
    ConfiguredOnce
PROPERTIES
    FirstApplyServes
CHECK_DEADLOCK FALSE
