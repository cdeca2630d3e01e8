CONSTANTS
    MAXIMUM_REVIEW_ATTEMPTS = 3
    MAXIMUM_RUN_ATTEMPTS = 12
    MAXIMUM_ARTEFACTS = 16
    Definitions <- Workflows
    MaxFaults = 2
    MaxCrashes = 1
SPECIFICATION Spec
CHECK_DEADLOCK FALSE
INVARIANTS
    PausedRunLoads
