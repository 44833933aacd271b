SPECIFICATION Spec
CONSTANTS
    none = none
    partial = partial
    first = first
    second = second
    own = own
    torn = torn
    s1 = s1
    s2 = s2
    Doc <- MCDoc
    Complete <- MCComplete
    NoDoc = none
    Own = own
    Torn = torn
    Seed = {s1, s2}
    MaxEdits = 2
    MaxFaults = 1
SYMMETRY Symmetric
INVARIANTS
    SeedTypeOK
    RunsPublished
    OnNetwork
CHECK_DEADLOCK FALSE
