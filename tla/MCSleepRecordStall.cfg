SPECIFICATION MCSpec
CONSTANTS
    TickEvery = 2
    GapThreshold = 8
    FireTimes = {5, 11, 17}
    SkippedFires = {17}
    CreatedAt = 2
    NapLengths = {3, 10}
    StallLengths = {1, 3, 10}
    KeptLines = 3
    MaxTroubles = 3
    LastWall = 26
INVARIANT
    StallIsNotSleep
CHECK_DEADLOCK FALSE
