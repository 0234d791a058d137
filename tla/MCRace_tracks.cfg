SPECIFICATION Spec
CONSTANTS
    t1 = t1
    t2 = t2
    surveyed = surveyed
    global = global
    NoLine = NoLine
    NoTrack = NoTrack
    kSectorCount = 2
    kMinLapMs = 1
    kMaxFixGapMs = 1
    kStationarySpeedKmh = 0
    Speeds = {0, 1}
    Samples <- LappingSamples
    Tracks <- TwoTracks
    Databases <- NoDatabases
    Bundled <- Database
    kSaveMaxSpeedKmh = 0
    InitialFiles <- InitialLongList
    Starred <- OneTrack
    Links = {}
    CanSpeeds = {0}
    Stamps = {1}
    DiskFaults = FALSE
    MaxLines = 1
    MaxAge = 1
    MaxLaps = 1
    MaxSessions = 0
    MaxRestarts = 0
INVARIANTS
    GatesFitLine
    StoredGatesFit
    SplitsOfOneList
