CONSTANTS
    SessionId = {s1}
    ConversationId = {c1}
    JobId = {j1}
    RequestId = {r1, r2}
    Handler = {h1, h2}
    Expiring = {}
    NoId = NoId
    NoRequest = NoRequest
    MAXIMUM_PENDING = 1
SPECIFICATION ApprovalsSpec
SYMMETRY Symmetry
INVARIANTS
    WaitIsOpen
    DecisionReachesTask
PROPERTIES
    DecisionIsFinal
    AnswerResumesItsOwnWait
