SPECIFICATION FairSseSpec
CONSTANTS
    a = a  b = b  c = c  d = d
    temperature = temperature  pressure = pressure
    Clients <- ThreeClients
    Topics <- OneTopic
    Subscribed <- MixedTopics
    HandlerThreads = 2
    MaxConnections = 1
    ChannelCapacity = 1
    MailboxCapacity = 1
    LastNumber = 2
INVARIANTS
    ClientOrder
    LimitOvershoot
PROPERTIES
    LiveNeverDropped
    WorkerReturns
    StreamsEnd
    DeadRemoved
CHECK_DEADLOCK FALSE
