SPECIFICATION FairSpec
CONSTANTS
    Ssids = {pitlane, paddock}
    Secured = {pitlane}
    None = None
    ScanEvery = 2
    MaxMoves = 3
INVARIANTS
    OneOfEach
    AsksAboutTapped
PROPERTY
    PageTellsTruth
