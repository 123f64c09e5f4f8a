CONSTANTS
    ByteBase = 4
    NotANumber = NotANumber
    Idle = Idle
    Nothing = Nothing
    Callers = {c1, c2}
    Groups <- MixedGroups
    WriteRequests <- MixedRequests
    MaxAddress = 7
    DeviceChanges <- MixedChanges
    Orders <- ByteOrder
SPECIFICATION SignalsSpec
INVARIANTS ReadBack  SimulatorIsADevice
PROPERTIES FieldsAsAsked WriteStaysInGroup
