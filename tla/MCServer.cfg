SPECIFICATION Spec
CONSTANTS
    Videos = {v1}
    RateLimitPause = 2
    FailingPause = 1
    IdleWait = 1
    Pace = 1
    FirstRetry = 1
    LastRetry = 2
    MaxAttempts = 3
    MaxConsecutiveFailures = 2
    MaxRefusals = 2
    MaxFaults = 2
    MaxClears = 1
    Readers = {r1, r2}
    Sessions = {s1, s2}
    HistoryReuse = 1
    RefusalPause = 2
    MaxReads = 4
    MaxHistoryFaults = 1
    LastDay = 2
    Ticks = 1
    DailyQuota = 9
    WriteUnits = 3
    PerTick = 1
    EditReserve = 2
    Attempts = 2
    MaxSyncReads = 1
    MaxApiWrites = 1
    MaxQuotaFaults = 1
    Requests = {q1, q2}
    RecordTimeout = 1
    YouTubeTimeout = 2
    PushRecordTimeout = 1
    PushYouTubeTimeout = 2
    AnswerTime = 1
INVARIANTS
    RefusalsRest
    JarKept
    CleanStop
PROPERTIES
    RefusalsRecorded
    ReadingEnds
    PushLeavesReads
