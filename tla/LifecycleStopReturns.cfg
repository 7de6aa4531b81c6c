SPECIFICATION FairDaemonSpec
CONSTANTS
    p1 = p1
    Peers <- OnePeer
    MinPeers = 1
    RetryIntervals <- Intervals
    DefaultInterval = 1
    MaxInterval = 3
    MaxDuration = 7
    MaxAttempts = 4
    Configs <- ThreeConfigs
CHECK_DEADLOCK FALSE
PROPERTIES
    DaemonStopReturns
