SPECIFICATION Spec
CONSTANTS
    s1 = s1
    s2 = s2
    t1 = t1
    t2 = t2
    t3 = t3
    t4 = t4
    NoTask = NoTask
    Sessions <- OneSession
    Tasks <- OneTask
    SessionOf <- AllInOne
    Ids <- OneId
    Attempts <- OneAttempt
    HostTools <- OneTask
    StreamEnds <- NoEnd
    Stoppable <- NoTasks
    MaxOutputs = 1
    MaxDeltas = 0
CHECK_DEADLOCK FALSE
INVARIANT AtLeastOneTerminal
