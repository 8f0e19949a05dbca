SPECIFICATION Spec
CONSTANTS
    MaxGenerations = 2
    MaxSaves = 4
    MaxFaults = 2
INVARIANTS
    TypeOK
    AckedSurvives
    FallsBack
    FreshName
    CloseFlushes
CHECK_DEADLOCK FALSE
