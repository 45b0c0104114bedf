SPECIFICATION MCSpec
CHECK_DEADLOCK FALSE
CONSTANTS
    Kinds <- MCKinds
    Lease = 6
    LongLease = 7
    MaxRun = 6
    MaxStart = 1
    MaxDelay = 1
    WakeBuffer = 1
    Ceiling = 1
    DetectionGrace = 2
    MaxCeiling = 2
    MaxRuntime = 0
    LateHour = 2
    SleepBackGrace = 1
    Gap = 9
    Horizon = 17
    MaxStall = 1
    MaxDeaths = 1
    Setters = {"s1", "s2"}
    Edits <- MCEdits
    Files <- MCFiles
    MaxEdits = 2
    Limits <- MCLimits
    Runtimes = {1, 4, 9}
    MaxRuntimes = {0, 3}
    MaxRuns = 3
    Thresholds <- MCThresholds
    Temps = {75, 80}
    Levels = {2, 5}
    Costs = {1, 3}
    DrainWindow = 2
    MaxNights = 3
    DayLength = 6
    ProcessStart = 2
    LastInstant = 36
    Expressions <- MCExpressions
    Zones <- MCZones
    DarkWakeGap = 2
    Lookback = 7
    FirePeriod = 2
    FireCap = 2
    minFiresForConfidence = 2
    LastSecond = 10
    TickEvery = 2
    GapThreshold = 8
    FireTimes = {5, 11, 17}
    SkippedFires = {17}
    CreatedAt = 2
    NapLengths = {3, 10}
    StallLengths = {1, 3, 10}
    KeptLines = 3
    MaxTroubles = 3
    LastWall = 24
    Candidates <- MCCandidates
    Word <- MCWord
    Crontab <- MCCrontab
    OtherLine <- MCOther
    FlagWords = {"-s"}
    NameWords = {"backup", "report", "brief", "all", "sync"}
    PlistForms <- MCForms
    MaxUserEdits = 1
    RenewOn = {"prompt"}
    StopOn = {"stop"}
    Dirs = {"old", "new"}
    UserHooks = {"chime"}
    UsersFile <- MCUsersFile
    MaxFailures = 2
    Versions = {"v1", "v2"}
    MaxCommands = 3
    MaxMishaps = 2
INVARIANTS HoldFollowsCommand WindowEnds RecordsTellTheTruth LateRunLearned
    SettingsSurviveRestart CeilingCoversRuns WakeIsWorthIt FireAsPromised RiskCountsMisses
    MissRecordedOnce ImportKeepsJobs HooksKeepUsersFile InstallIsHonest
PROPERTIES RunningJobKept SleepIsEarned NoFlapping
