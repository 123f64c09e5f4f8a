SPECIFICATION StartedSpec
CONSTANTS
    boiler = boiler  pump = pump
    Devices <- MCDevices
    Order <- MCOrder
    None = None
    NoRequest = NoRequest
    LatencyWindow = 3
    MinAnomalySamples = 2
    Scale = 6
INVARIANTS OnlineWasReached HealthTruthful StatisticsExact
PROPERTY EveryDeviceChecked
