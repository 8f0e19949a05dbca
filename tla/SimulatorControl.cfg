SPECIFICATION FairSpec
CONSTANTS
    WorkerCount = 2
    CallCount = 4
    MaxMoves = 1
    Modes = {"synthetic", "real-road"}
    Patient = TRUE
INVARIANTS
    TypeOK
    NothingLeftRunning
    IdleMeansStartable
    StopSavesLast
    
PROPERTIES
    Answered
CHECK_DEADLOCK FALSE
