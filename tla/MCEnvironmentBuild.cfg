SPECIFICATION Spec
CONSTANTS
    Order <- MCOrder
    Rigid = {"mug", "can"}
    LocalBox <- MCLocalBox
    Scenarios <- MCScenarios
    Clearance = 1
    MinSeparation = 1
    Tolerance = 1
    MaxAttempts = 2
    MaxIters = 2
    MaxBuilds = 2
INVARIANTS SolvedIsAccepted CapturedAsPlaced
CHECK_DEADLOCK FALSE
