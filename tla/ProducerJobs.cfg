SPECIFICATION Spec
CONSTANTS
    r1 = r1
    r2 = r2
    j1 = j1
    j2 = j2
    JobRequests = {r1, r2}
    TopicRequests = {}
    Topics = {"a"}
    NoTopic = "none"
    Jobs = {j1, j2}
    TopicOf <- MCTopicOf
    JobTopicOf <- MCTopicOf
    JobsOf <- MCJobsOf
    JobHash <- MCJobHash
    ApiIdBase = 10
    ProducerCap = 1
    InputCap = 1
    StoreCap = 2
    SendCap = 1
    RespCap = 4
    MaxAnswers = 2
    MayShutDown = FALSE
SYMMETRY RequestSymmetry
INVARIANTS
    TypeOK
    SuccessIsTrue
    RefusalIsTrue
    InOnePlace
    BusyMeansDropped
    DrainNeverBlocks
    WaitingBatchIsRoutable
PROPERTY
    KeepsPromise
CHECK_DEADLOCK FALSE
