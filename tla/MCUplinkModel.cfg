SPECIFICATION FairSpec
CONSTANTS
    Cars = {c1}
    NoCar = NoCar
    MaxRows = 2
    BatchSize = 2
    SqlFaults = {}
    MaxDrops = 2
    MaxMids = 20
    StampWindow = FALSE
    ConnectFaults = FALSE
    MaxSessions = 1
    MaxSeq = 1
    MaxEdits = 1
    MaxRestarts = 1
INVARIANTS
    TypeOK
    AckedMeansTaken
    DrainMoves
    ConnectedIsReal
    NoStrandedBacklog
    StateIsTrue
    SamplerAgrees
PROPERTIES
    EventuallyOnline
    BacklogDrains
