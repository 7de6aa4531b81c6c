SPECIFICATION Spec
CONSTANTS
    h1 = h1
    c1 = c1
    c2 = c2
    c3 = c3
    Gc = Gc
    NoHash = NoHash
    NoMeta = NoMeta
    Hashes <- OneHash
    Chunks <- ThreeChunks
    HashOf <- SameHash
    Readers <- OneHash
    Methods = {"mark-and-sweep", "reference-counting"}
    Faults = TRUE
SYMMETRY Symmetry
CONSTRAINT Continued
INVARIANT SequentialCallsKeepBlobs
INVARIANT RenamePublishesWholeBlobs
