SPECIFICATION Spec
CONSTANTS
    t1 = t1
    t2 = t2
    surveyed = surveyed
    global = global
    NoLine = NoLine
    NoTrack = NoTrack
    kSectorCount = 3
    kMinLapMs = 1
    kMaxFixGapMs = 1
    kStationarySpeedKmh = 0
    Speeds = {0, 1}
    Samples <- FilesSamples
    Tracks <- OneTrack
    Databases <- OneDatabase
    Bundled <- PlainTrack
    kSaveMaxSpeedKmh = 0
    InitialFiles <- InitialDamaged
    Starred = {}
    Links = {}
    CanSpeeds = {0, 1}
    Stamps = {1}
    DiskFaults = TRUE
    MaxLines = 0
    MaxAge = 1
    MaxLaps = 1
    MaxSessions = 1
    MaxRestarts = 1
INVARIANTS
    FilesAreCurrent
