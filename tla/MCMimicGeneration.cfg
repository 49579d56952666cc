SPECIFICATION GenerationSpec
CONSTANTS
    EefOrder <- MCEefOrder
    Body = "body"
    Subtasks <- MCSubtasks
    Trajectories <- MCTrajectories
    InPlace <- MCInPlace
    MaxNavigationSteps = 2
    Attempts = 2
INVARIANTS WaypointExists
PROPERTIES BodyWaitsForNavigation NavigationEnds
CHECK_DEADLOCK FALSE
