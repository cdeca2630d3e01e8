CONSTANTS
    JobId = {j1, j2}
    QueueItem = {}
    Settings = {m1}
    Handler = {h1, h2}
    NoId = NoId
    MaxEntries = 4
    MaxRevision = 3
SPECIFICATION WorkSpec
SYMMETRY Symmetry
INVARIANTS
    WorkIsOwned
    ActiveJobIsAttended
PROPERTIES
    RequestExtendsWhatWasRead
