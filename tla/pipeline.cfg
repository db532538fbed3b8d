\* The whole pipeline: two rows in a batch, two consumers.
CONSTANTS
    e1 = e1  e2 = e2  r1 = r1  r2 = r2  t1 = t1  t2 = t2  s1 = s1  s2 = s2
    Events = {e1, e2}
    KeyOf <- MCKeyOf
    Consumers <- AuditAndAnalytics
    InitialBindings <- AuditAndAnalytics
    MaxRetries = 1
    MaxFaults = 2
    Replicas = {r1}
    Ticks = {t1, t2}
    Owner <- OneReplica
    BatchSize = 2
    MaxAttempts = 2
    NoEvent = NoEvent
    Slots = {s1, s2}
    NoMessage = NoMessage
    Poison <- NoPoison
SPECIFICATION Spec
SYMMETRY TickAndSlotSymmetry
INVARIANTS
    AppliedOnce
    NothingLost
    DispatchedArePublished
    RepublishedOnlyAfterFault
    GivesUpOnlyAfterFaults
PROPERTIES
    ImplementsDelivery
