\* A projection that always throws, queues that are not declared yet.
CONSTANTS
    e1 = e1  e2 = e2  r1 = r1  r2 = r2  t1 = t1  t2 = t2  s1 = s1  s2 = s2
    Events = {e1}
    KeyOf <- MCKeyOf
    Consumers <- AuditAndAnalytics
    InitialBindings <- Nobody
    MaxRetries = 1
    MaxFaults = 2
    Replicas = {r1}
    Ticks = {t1}
    Owner <- OneReplica
    BatchSize = 1
    MaxAttempts = 2
    NoEvent = NoEvent
    Slots = {s1, s2}
    NoMessage = NoMessage
    Poison <- PoisonAudit
SPECIFICATION FairSpec
PROPERTIES
    OutboxDrains
    QueuesDrain
    Settled
