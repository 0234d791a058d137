SPECIFICATION Spec
CONSTANTS
    kSaveMaxSpeedKmh = 0
    SectorCount = 2
    MaxLaps = 3
    MaxMs = 2
INVARIANTS
    IsBestStitch
    MatchIsTheWinner
    CreditsTheLapsThatDrove
