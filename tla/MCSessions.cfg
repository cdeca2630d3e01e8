CONSTANTS
    SessionId = {s1, s2}
    ConversationId = {c1}
    JobId = {j1, j2}
    Request = {r1}
    NoId = NoId
    Session = {s1, s2}
    NoOne = NoId
    Conversation = {c2, c3}
    Handler = {j1, j2}
    Draft = {d1}
    Grant = {g1}
    Host = Host
    RunId = {run1}
    Capacity = 1
    MaxRevision = 2
    MaxAgreed = 1
SPECIFICATION PartsSpec
SYMMETRY Symmetry
INVARIANTS
    OneOperationPerConversation
    ReservationExcludesWork
    TokenIsHeld
    OrphanJobIsCancelled
    GateHasOneHolder
    
PROPERTIES
    DropFreesOnlyItsOwnHold
