\* A refresh fails while a request is queued behind it.
CONSTANTS
    r1 = r1  r2 = r2  r3 = r3
    Requests = {r1, r2}
    NoTokens = NoTokens
    Nobody = Nobody
    Admins = {1}
    MaxSessions = 1
SPECIFICATION FairSpec
PROPERTIES
    QueueResolves
