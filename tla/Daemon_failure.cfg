SPECIFICATION Spec
CONSTANTS
    s1 = s1
    s2 = s2
    p1 = p1
    p2 = p2
    p3 = p3
    c1 = c1
    c2 = c2
    NoSession = NoSession
    NoPost = NoPost
    Sessions <- TwoSessions
    Posts <- ThreePosts
    SessionOf <- LastInSecond
    TaskIds <- OneId
    TaskIdOf <- SameId
    Streams <- TwoStreams
    MaxInflight = 1
    MaxSse = 1
    Backpressure <- Both
    PageSize = 1
CHECK_DEADLOCK FALSE
INVARIANT FailedTaskIsServed
