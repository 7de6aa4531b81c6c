SPECIFICATION Spec
CONSTANTS
    job = job
    entry = entry
    manual = manual
    loop = loop
    Keys <- TwoKeys
    Jobs <- OneJob
    Takers <- Both
    Loop = loop
    MaxIndex = 2
    MaxSnapshots = 2
    Word = 16
    TrailingLogs = 1
    Threshold = 2
    RetainCount = 1
CONSTRAINT Sound
INVARIANTS CacheBacked SnapshotCovers LogCovered BootstrapsOnce
CHECK_DEADLOCK FALSE
