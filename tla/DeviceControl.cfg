SPECIFICATION Spec
CONSTANTS
    r1 = r1  r2 = r2  r3 = r3  c1 = c1
    plc = plc  robot = robot
    t1 = t1  t2 = t2  g = g
    NoMessage = NoMessage
    Messages <- ThreeRequests
    Requests <- ThreeRequests
    Single <- ThreeRequests
    Subscribers <- MCDevices
    Devices <- MCDevices
    Threads <- OneThread
    Recipients <- Broadcast
    QueueCapacity = 1
    HubCapacity = 1
    Target <- MixedTarget
    Operation <- MixedOperation
    Group <- GroupG
    NewGroups <- NoConfig
    Incomplete <- Nothing
    Unencodable <- Nothing
    Groups <- MCGroups
    InitialGroups <- KnowsGroup
    MaxConcurrentOps <- OneOpEach
    TaskThreads = 1
    Flaky <- PlcOnly
    BaseTimeout = 1
    MaxTimeout = 2
INVARIANTS
    CapacityExact
    AppliedAtMostOnce
    RefusedIsFinal
    DataIsBacked
    ResponseSentOnce
