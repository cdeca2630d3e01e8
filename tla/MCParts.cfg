CONSTANTS
    Conversation = {c1, c2}
    Environment = {e1, e2}
    Seed = e1
    Recipe = {"a", "b"}
    NoEnvironment = NoEnvironment
    MaxEnvironments = 1
    MaxPreparations = 3
    MaxRevision = 3
    RenameBound = 1
    MaxStarted = 2
    EnvFaults = 1
    EnvCrashes = 1
    Call = {h1, h2}
    MaximumModelRequests = 3
    MaximumToolDispatches = 2
    MaximumRetries = 1
    MaximumOverflowRecovery = 1
    MaximumStalled = 1
    MaximumRequests = 3
    AgentFaults = 1
    MaxMessages = 6
    MaxBudget = 2
    ChunkCapacity = 3
    SummaryRequests = 2
    NoSummary = NoSummary
    MaxPieces = 1
    MaxModel = 1
    LongModel = 2
    MaxProgress = 1
    MaxSeq = 2
    MaxSteered = 1
    Job = {j1, j2}
    MaxTicks = 2
    NoJob = NoJob
    ClockFaults = 1
    WindowSize = 2
    TreePage = 1
    TreeScan = 2
    ShownSize = 1
    MaxEntries = 6
    Listed = {1, 2, 3}
    ListPage = 1
    MaxTime = 2
    MAXIMUM_STEPS = 4
    MAXIMUM_REVIEW_ATTEMPTS = 3
    MAXIMUM_RUN_ATTEMPTS = 99
    MAXIMUM_ARTEFACTS = 99
    MaxEdits = 2
    Tab = {t1, t2}
    Starter <- OneStarter
    Name = {"A", "B"}
    Content = {1, 2}
    MAXIMUM_WORKFLOWS = 2
    MAXIMUM_RETIRED_IDS = 2
    MAXIMUM_APPLIED_SEEDS = 2
    MaxIds = 2
    MaxEdition = 2
    MaxNow = 2
    SaveFaults = 1
    Restarts = 1
    NoForm = NoForm
    Limit = 3
    Preview = 2
    MaxBytes = 3
    StoreFaults = 1
    None = None
    MAXIMUM_OUTPUT_REFERENCES = 2
    Room = 1
    CommandEntries = 1
    MaxRefs = 3
    OutputFaults = 1
    OutputRestarts = 1
    Browser = {b1}
    Digest = {f1}
    MAXIMUM_ATTACHMENTS = 1
    MAXIMUM_FORK_DRAFTS = 1
    MaxRows = 3
    MaxSent = 2
    RowFaults = 1
    RowRestarts = 1
    MaxSignIns = 2
    MaxKeys = 1
    VaultFaults = 1
    VaultStops = 1
SPECIFICATION PartsSpec
CHECK_DEADLOCK FALSE
INVARIANTS
    PinIsWhatItSays
    
    WorkIsRecorded
    SummariesAreSound
    PageShowsTheReply
    WorkTimeIsWhole
    EveryEntryIsReached
    EditorKeepsWorkflows
    EditsAreNotLost
    OutputIsFaithful
    OutputIsOwned
    FilesResolve
    ConnectionIsWhole
