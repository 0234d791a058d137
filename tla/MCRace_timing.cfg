SPECIFICATION Spec
CONSTANTS
    t1 = t1
    t2 = t2
    surveyed = surveyed
    global = global
    NoLine = NoLine
    NoTrack = NoTrack
    kSectorCount = 3
    kMinLapMs = 2
    kMaxFixGapMs = 1
    kStationarySpeedKmh = 0
    Speeds = {0, 1}
    Samples <- TimingSamples
    Tracks <- OneTrack
    Databases <- NoDatabases
    Bundled <- PlainTrack
    kSaveMaxSpeedKmh = 0
    InitialFiles <- InitialGlobal
    Starred = {}
    Links = {TRUE, FALSE}
    CanSpeeds = {0}
    Stamps = {1}
    DiskFaults = FALSE
    MaxLines = 0
    MaxAge = 2
    MaxLaps = 2
    MaxSessions = 0
    MaxRestarts = 1
INVARIANTS
    ListenersKnowState
    NoStaleFix
    SplitsOfOneList
    TimerFollowsSession
    SuggestionOnlyParked
    ScanWhenUseful
