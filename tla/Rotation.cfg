SPECIFICATION FairSpec
CONSTANTS
    c1 = c1
    Scheduler = Scheduler
    Callers <- OneCaller
    MaxSets = 3
INVARIANT SaveReplacesItsBase
INVARIANT RolesKeepNewSet
INVARIANT PoolLogsInBefore
INVARIANT RolesCanBeReached
INVARIANT BusyMeansRunning
PROPERTY RotateReturns
PROPERTY StopReturns
