SPECIFICATION FairSpec
CONSTANTS
    none = none
    partial = partial
    first = first
    second = second
    own = own
    torn = torn
    s1 = s1
    s2 = s2
    Doc <- MCOneDoc
    Complete <- MCOneReady
    NoDoc = none
    Own = own
    Torn = torn
    Seed = {s1, s2}
    MaxEdits = 0
    MaxFaults = 1
PROPERTIES
    ApplyEnds
    SeedComesUp
CHECK_DEADLOCK FALSE
