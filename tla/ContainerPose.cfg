SPECIFICATION ArenaSpec
CONSTANTS
    MaxLoads = 2
    Envs = {e1, e2}
    e1 = e1
    e2 = e2
    Requests <- TablePickAndPlace
    Limits <- MCLimits
INVARIANT DeclaredPoseKept
