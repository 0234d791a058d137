SPECIFICATION FairSpec
CONSTANTS
    Current = 1
    Tags = {1, 2}
    MaxHeads = 2
    MaxSubmits = 2
    MaxBoots = 1
INVARIANTS
    PasswordWiped
    ClaimHidesNoMix
    SuccessIsWhole
PROPERTY
    NeverStuck
