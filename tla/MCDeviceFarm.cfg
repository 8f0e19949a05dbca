SPECIFICATION FairSpec
CONSTANTS
    DeviceCount = 2
    DisposeChunk = 1
    MaxLoginAttempts = 1
    TokenSpace = 2
    VersionSpace = 2
PROPERTIES
    ImplementsFairLifecycle
    ComesOnline
CHECK_DEADLOCK FALSE
