SPECIFICATION Spec
CONSTANTS
    s1 = s1
    s2 = s2
    t1 = t1
    t2 = t2
    t3 = t3
    t4 = t4
    NoTask = NoTask
    Sessions <- OneSession
    Tasks <- OneTask
    SessionOf <- AllInOne
    Ids <- OneId
    Attempts <- TwoAttempts
    HostTools <- OneTask
    StreamEnds <- AnyEnd
    Stoppable <- OneTask
    MaxOutputs = 1
    MaxDeltas = 1
CHECK_DEADLOCK FALSE
INVARIANTS
    TypeOK
    PendingIffAsking
    AuditTrail
    CallLifecycle
PROPERTY NoExecutionAfterStop
