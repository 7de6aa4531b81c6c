SPECIFICATION Spec
CONSTANTS
    u1 = u1
    u2 = u2
    c1 = c1
    t1 = t1
    t2 = t2
    t3 = t3
    Users <- TwoUsers
    NoUser = NoUser
    Challenges <- OneChallenge
    NoChallenge = NoChallenge
    Calls <- ThreeCalls
    Existing <- Rows3
    NSessions = 2
    MaxSessions = 1
    AutoRegister = TRUE
    DefaultRole = "readonly"
CHECK_DEADLOCK FALSE
SYMMETRY Symmetry
INVARIANTS
    AdminChangesStick
    SignedOut
    SessionLimit
    OneSessionPerChallenge
PROPERTIES
    FirstUserIsAdmin
    EndedStaysEnded
