SPECIFICATION FairSpec
CONSTANTS
    o1 = o1
    o2 = o2
    m1 = m1
    r1 = r1
    w1 = w1
    w2 = w2
    Jobs <- MCJobs2
    JobType <- MCJobType2
    Workers <- MCWorkers
    ChanCap = 1
    MsgTTL = 1
    OtpTTL = 2
    MsgMaxRetry = 1
    OtpMaxRetry = 2
    BackoffUnit = 1
    PriorityWeight = 20
    MaxTime = 2
    Faults = {}
CHECK_DEADLOCK FALSE
PROPERTIES
    RequeueRestores
