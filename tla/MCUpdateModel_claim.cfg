SPECIFICATION Spec
CONSTANTS
    Current = 1
    Tags = {1, 2}
    MaxHeads = 1
    MaxSubmits = 1
    MaxBoots = 0
INVARIANT
    HonestClaim
