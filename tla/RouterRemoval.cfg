SPECIFICATION Spec
CONSTANTS
    m1 = m1
    m2 = m2
    j1 = j1
    j2 = j2
    j3 = j3
    c1 = c1
    Consumers = {c1}
    Leavers = {c1}
    NoConsumer = NoConsumer
    Messages = {m1, m2}
    JobsOf <- MCJobsOf
    Jobs = {j1, j2, j3}
    BadJobs = {}
    NoJob = NoJob
    MaxInflights = 2
    BatchSize = 2
    ChanCap = 2
    WriteCap = 1
    MayExpire = FALSE
    MaxGens = 1
PROPERTY
    RemovalReturns
CHECK_DEADLOCK FALSE
