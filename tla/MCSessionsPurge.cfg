CONSTANTS
    SessionId = {s1}
    ConversationId = {c1}
    JobId = {j1}
    Request = {r1}
    NoId = NoId
SPECIFICATION SessionsSpec
PROPERTIES
    PurgeDropsOnlyExpired
