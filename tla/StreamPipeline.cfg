SPECIFICATION PollingSpec
CONSTANTS
    t1 = t1  t2 = t2  boiler = boiler  pump = pump  valve = valve
    fast = fast  slow = slow
    NoMessage = NoMessage  NoStream = NoStream  Sse = Sse  Disabled = Disabled
    LastSequence = 2
    MaxUpdates = 1
    Messages <- MCMessages
    Single <- NoSingle
    Subscribers <- MCSubscribers
    Recipients <- ToSse
    Threads <- MCThreads
    Streams <- MCStreams
    Intervals <- MCIntervals
    QueueCapacity = 1
    HubCapacity = 1
SYMMETRY Interchangeable
INVARIANTS
    LateOnlyIfGivenUp
    CacheNotBehind
    GroupsTakeTurns
