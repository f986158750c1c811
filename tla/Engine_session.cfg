SPECIFICATION FairSpec
CONSTANTS
    s1 = s1
    s2 = s2
    t1 = t1
    t2 = t2
    t3 = t3
    t4 = t4
    NoTask = NoTask
    Sessions <- OneSession
    Tasks <- TwoTasks
    SessionOf <- AllInOne
    Ids <- OneId
    Attempts <- OneAttempt
    HostTools <- TwoTasks
    StreamEnds <- Completes
    Stoppable <- OneTask
    MaxOutputs = 1
    MaxDeltas = 0
CHECK_DEADLOCK FALSE
INVARIANTS
    SessionMutex
    NoToolOutlivesTask
    AskNeverCollides
    TerminalOnceUnlessStopped
    GaugesExact
PROPERTIES
    StopUnblocks
    EveryTaskSettles
