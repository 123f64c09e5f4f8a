SPECIFICATION FairPoolSpec
CONSTANTS
    t1 = t1  t2 = t2  t3 = t3
    k1 = k1  k2 = k2  k3 = k3  k4 = k4
    NoConnection = NoConnection
    RuntimeThreads <- ThreeThreads
    Connections <- MCConnections
    PoolSize = 2
    HealthCheckInterval = 2
INVARIANTS
    AccountingExact
    OpenBounded
    ConnectionsExclusive
PROPERTIES
    StaleDrained
