SPECIFICATION Spec
CONSTANTS
    Jobs = {"j1", "j2", "j3"}
    Topics = {"a", "b"}
    NoTopic = "none"
    TopicOf <- MCTopicOf
    Consumers = {"c1", "c2"}
    ConsumerOf <- MCConsumerOf
    ProducerCap = 2
    MaxFailures = 2
    MayShutDown = TRUE
INVARIANTS
    TypeOK
    AckInOnePlace
    LastFlushIsComplete
PROPERTIES
    LostOnlyWhenOvertaken
    QueuedAckArrives
CHECK_DEADLOCK FALSE
