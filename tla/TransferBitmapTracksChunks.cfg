SPECIFICATION Spec
CONSTANTS
    d1 = d1
    d2 = d2
    r1 = r1
    r2 = r2
    NoRun = NoRun
    Downloads <- OneDownload
    Runs <- Runs2
    Hash <- SameHash
    Total <- TwoChunks
    ByteBits = 2
    w1 = w1
    w2 = w2
    Workers <- TwoWorkers
    MaxRetries = 1
INVARIANT BitmapTracksChunks
CHECK_DEADLOCK FALSE
