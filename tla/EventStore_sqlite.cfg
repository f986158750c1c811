SPECIFICATION FairSpec
CONSTANTS
    c1 = c1
    c2 = c2
    Clients <- MCClients
    Backend = "sqlite"
    AdapterNumbers = TRUE
    MaxEvents = 6
    MaxRestarts = 2
    PageLimits <- MCPageLimits
CHECK_DEADLOCK FALSE
INVARIANTS
    DenseSeq
    ExactlyOnce
    NoGapAtSubscribe
    NoLostWakeup
PROPERTIES
    ImplementsEventLog
    CatchesUp
