SPECIFICATION RpcFairSpec
CONSTANTS
    a = a  b = b  c = c
    Nobody = Nobody
    Connections <- ThreeClients
    Text <- MCText
    ChunkSize = 3
    MaxRequestSize = 7
    MaxBlockingThreads = 1
INVARIANTS
    DrainWaits
PROPERTIES
    RequestsReadWhole
    WorkerStops
    ConnectionsEnd
CHECK_DEADLOCK FALSE
