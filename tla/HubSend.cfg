SPECIFICATION UnfairConsumersSpec
CONSTANTS
    m1 = m1  m2 = m2  m3 = m3  m4 = m4
    modbusA = modbusA  modbusB = modbusB
    t1 = t1  t2 = t2
    NoMessage = NoMessage
    Messages <- MCMessages
    Single <- MCSingle
    Subscribers <- MCSubscribers
    Threads <- MCThreads
    Recipients <- MCRecipients
    QueueCapacity = 1
    HubCapacity = 2
INVARIANTS
    OkMeansDelivered
PROPERTIES
    CallsReturn
    AcceptedReachesRecipients
