SPECIFICATION MCSpec
CONSTANTS
    u1 = u1
    u2 = u2
    u3 = u3
    i1 = i1
    t1 = t1
    t2 = t2
    t3 = t3
    Users <- ThreeUsers
    NoUser = NoUser
    Invites <- OneInvite
    NoInvite = NoInvite
    Calls <- ThreeCalls
CHECK_DEADLOCK FALSE
SYMMETRY Symmetry
INVARIANTS
    KeepsOwner
    OneAnswer
