SPECIFICATION Spec
CONSTANTS
    Life = 2
    MaxTime = 3
    MaxConfigs = 3
    MaxFaults = 2
INVARIANTS
    CopyIsFirst
    ApiServesTls
CHECK_DEADLOCK FALSE
