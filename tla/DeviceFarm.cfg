SPECIFICATION Spec
CONSTANTS
    DeviceCount = 2
    DisposeChunk = 1
    MaxLoginAttempts = 2
    TokenSpace = 2
    VersionSpace = 2
INVARIANTS
    TypeOK
    NoLostDevice
    SocketOwned
    StateMatchesSocket
    CountersExact
    DataOnlyAfterLogin
    NoLostDrain
    MovesOnlyOnline
    StopLeavesNothing
PROPERTIES
    StopOpensNothing
CHECK_DEADLOCK FALSE
