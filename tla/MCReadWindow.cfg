SPECIFICATION Spec
CONSTANTS
    Second = 2
    ReadLag = 5
    RecordTimeout = 1
    YouTubeTimeout = 2
    TrueLag = 1
    MaxNow = 22
    MaxWrites = 2
INVARIANTS
    TypeOK
    ReadShowsWrites
    RetryIsInTime
CHECK_DEADLOCK FALSE
