SPECIFICATION Spec
CONSTANTS
    a = a
    b = b
    c = c
    Seqs = {a, b, c}
    Regions = {a, b, c}
    BlockSize = 2
    MaxLen = 5
    Hashes <- MCHashes
    BlockHash <- MCBlockHash
    Ranks = {0, 1}
    NumPrefill = 3
    NumDecode = 4
    PromptLen <- MCPromptLen
    MaxInFlight = 2
    Flaky = {a}
INVARIANTS ServedSound NothingHeld
PROPERTY HandOverEnds
CHECK_DEADLOCK FALSE
