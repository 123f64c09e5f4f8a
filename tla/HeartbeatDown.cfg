SPECIFICATION HeartbeatWorkingSpec
CONSTANTS
    boiler = boiler
    Devices <- MCDevices
    Order <- MCOrder
    None = None
PROPERTY DownIsNoticed
