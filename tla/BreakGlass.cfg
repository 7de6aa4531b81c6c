SPECIFICATION FairSpec
CONSTANTS
    s1 = s1
    s2 = s2
    c1 = c1
    c2 = c2
    None = None
    Sessions <- TwoSessions
    Challenges <- TwoChallenges
    MaxDuration = 1
    ChallengeTTL = 1
    RoleLifetime = 2
    MaxTime = 3
INVARIANTS
    ActiveIsCurrent
    AuditTrailWellFormed
    NoEarlyExpiry
    ChallengeOpensOneSession
PROPERTIES
    SessionEventuallyEnds
    CredentialEventuallyInvalid
