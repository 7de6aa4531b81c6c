SPECIFICATION Spec
CONSTANTS
    h1 = h1
    h2 = h2
    p1 = p1
    p2 = p2
    p3 = p3
    NoHash = NoHash
    Hashes <- TwoHashes
    Callers <- ThreeCallers
    Faults = TRUE
SYMMETRY Symmetry
INVARIANT ReadsFindBlobs
PROPERTY KeepsBlobs
