SPECIFICATION FairSpec
CONSTANTS
    s1 = s1
    s2 = s2
    Base = Base
    Nobody = Nobody
    Tasks <- TwoTasks
    Sessions <- TwoSessions
    Stoppable <- FirstTask
    Calls <- OneCall
    Messages <- TwoCalls
    MaxSent <- Sizes
    Placements <- SameOrOther
    MaxAttempts = 2
    Adapters <- AllAdapters
CHECK_DEADLOCK FALSE
INVARIANTS
    TypeOK
    ToolAttempts
    StreamReports
    AnswersReachCalls
    
PROPERTIES
    ImplementsRuntimeStream
    StopEnds
