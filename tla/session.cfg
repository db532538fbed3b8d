\* Two sign-ins, three requests at a time.
CONSTANTS
    r1 = r1  r2 = r2  r3 = r3
    Requests = {r1, r2, r3}
    NoTokens = NoTokens
    Nobody = Nobody
    Admins = {1}
    MaxSessions = 2
SPECIFICATION FairSpec
INVARIANTS
    ResentInItsSession
    PageIsAllowed
    SubmitEnds
    OneRefreshAtATime
PROPERTIES
    QueueResolvesUnlessStranded
