SPECIFICATION Spec
CONSTANTS
    c1 = c1
    Scheduler = Scheduler
    Callers <- OneCaller
    MaxSets = 3
INVARIANT GraceKeepsPool
