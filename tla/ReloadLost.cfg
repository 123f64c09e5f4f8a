SPECIFICATION ReloadFairSpec
CONSTANTS
    t1 = t1  t2 = t2
    NoMessage = NoMessage  Broken = Broken
    Startup = "old"
    Files <- MCFiles
    Contents <- MCContents
    MaxEdits = 3
    BufferSize = 1
    Messages <- MCMessages
    Single <- NoSingle
    Subscribers <- MCWorkers
    Recipients <- ToAll
    Threads <- OneThread
    QueueCapacity = 1
    HubCapacity = 1
PROPERTY WorkersConverge
