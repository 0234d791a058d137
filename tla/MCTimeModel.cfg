SPECIFICATION FairSpec
CONSTANTS
    MaxReads = 1
    MaxMoves = 3
    MaxBoots = 1
INVARIANTS
    WritesApart
    LaterOffStays
PROPERTY
    PageCatchesUp
