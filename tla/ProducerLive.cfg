SPECIFICATION Spec
CONSTANTS
    r1 = r1
    r2 = r2
    j1 = j1
    j2 = j2
    JobRequests = {r1, r2}
    TopicRequests = {}
    Topics = {"a", "b"}
    NoTopic = "none"
    Jobs = {j1, j2}
    TopicOf <- MCTwoTopicOf
    JobTopicOf <- MCTwoTopicOf
    JobsOf <- MCJobsOf
    JobHash <- MCJobHash
    ApiIdBase = 10
    ProducerCap = 1
    InputCap = 2
    StoreCap = 2
    SendCap = 1
    RespCap = 4
    MaxAnswers = 1
    MayShutDown = FALSE
PROPERTIES
    QueuedIsBatched
    AnsweredBatchIsDispatched
CHECK_DEADLOCK FALSE
