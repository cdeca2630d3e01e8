CONSTANTS
    Conversation = {c1, c2, c3}
    JobId = {j1, j2, j3}
    Handler = {h1, h2}
    Startup = main
    NoId = NoId
    First = c1
    MaxFaults = 1
    MaxCrashes = 1
SPECIFICATION HandoffSpec
SYMMETRY Symmetry
CHECK_DEADLOCK FALSE
INVARIANTS
    StartupCompletesHandoff
