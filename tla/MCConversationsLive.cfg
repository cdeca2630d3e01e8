CONSTANTS
    JobId = {j1, j2}
    QueueItem = {q1}
    Settings = {m1}
    Handler = {h1}
    NoId = NoId
    MaxEntries = 4
    MaxRevision = 0
SPECIFICATION FairWorkSpec
PROPERTIES
    RegistrationIsReleased
