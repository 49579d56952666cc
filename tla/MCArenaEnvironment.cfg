SPECIFICATION ArenaSpec
CONSTANTS
    MaxLoads = 2
    Envs = {e1, e2}
    e1 = e1
    e2 = e2
    Requests <- MCRequests
    Limits <- MCLimits
INVARIANTS AllRegistered ImportsSucceed NoStaleClasses EveryEnvironmentAssembles AsDeclared FreshNotDone MimicAgrees
