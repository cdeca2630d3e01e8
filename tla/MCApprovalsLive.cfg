CONSTANTS
    SessionId = {s1}
    ConversationId = {c1}
    JobId = {j1}
    RequestId = {r1, r2}
    Handler = {h1}
    Expiring = {s1}
    NoId = NoId
    NoRequest = NoRequest
    MAXIMUM_PENDING = 1
SPECIFICATION FairApprovalsSpec
PROPERTIES
    WaitEnds
