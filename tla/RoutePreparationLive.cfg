SPECIFICATION FairSpec
CONSTANTS
    Regions = {0}
    MaxRounds = 2
    MaxRoutes = 2
    BatchSize = 3
    RejectedBatch = 2
    MaxCalls = 2
    AttemptsNoGain = 2
    AttemptLimit = 3
    RoundsNoGain = 2
    EmptyRounds = 2
    MinUsable = 2
    Target = 4
    Capacity = 3
    Budgets = {3}
    MaxGraph = 2
PROPERTIES
    OneGraph
    Terminates
