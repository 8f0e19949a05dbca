SPECIFICATION Spec
CONSTANTS
    Routes <- MCRoutes
    Starts = {0, 2}
    TopSpeed = 2
    Acceleration = 1
    Braking = 2
    MaxStep = 2
    DwellTime = 2
    MaxWall = 6
    None = None
INVARIANTS
    OnCourse
    RestartResumes
PROPERTIES
    MovesAsReported
CHECK_DEADLOCK FALSE
