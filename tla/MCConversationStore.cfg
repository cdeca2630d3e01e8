CONSTANTS
    JobId = {j1, j2}
    QueueItem = {q1}
    Settings = {m1, m2}
    NoId = NoId
    MaxEntries = 6
    MaxRevision = 5
SPECIFICATION StoreSpec
SYMMETRY Symmetry
INVARIANTS
    RecordIsSound
    ItemInOnePlace
PROPERTIES
    HistoryIsKept
    SteeringStaysWithItsRequest
