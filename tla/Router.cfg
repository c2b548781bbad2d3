SPECIFICATION Spec
CONSTANTS
    m1 = m1
    m2 = m2
    j1 = j1
    j2 = j2
    j3 = j3
    c1 = c1
    c2 = c2
    Consumers = {c1, c2}
    Leavers = {c2}
    NoConsumer = NoConsumer
    Messages = {m1, m2}
    JobsOf <- MCJobsOf
    Jobs = {j1, j2, j3}
    BadJobs = {j2}
    NoJob = NoJob
    MaxInflights = 2
    BatchSize = 2
    ChanCap = 2
    WriteCap = 1
    MayExpire = TRUE
    MaxGens = 2
INVARIANTS
    TypeOK
    InflightBound
    SeqInOrder
    JobInOnePlace
    NoSlotLeak
PROPERTY
    QueuedIsServed
CHECK_DEADLOCK FALSE
