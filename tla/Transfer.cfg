SPECIFICATION FairSpec
CONSTANTS
    d1 = d1
    d2 = d2
    r1 = r1
    r2 = r2
    NoRun = NoRun
    Downloads <- TwoDownloads
    Runs <- Runs2
    Hash <- SameHash
    Total <- TwoAndNoChunks
    ByteBits = 1
    w1 = w1
    w2 = w2
    Workers <- OneWorker
    MaxRetries = 2
INVARIANT CompletedMeansFetched
INVARIANT QuietAfterCancel
INVARIANT RunningIsListed
INVARIANT ListedIsRunning
PROPERTY RunsEnd
PROPERTY PausedBecomesResumable
PROPERTY StopReturns
CHECK_DEADLOCK FALSE
