SPECIFICATION FairSpec
CONSTANTS
    a = a
    b = b
    c = c
    Seqs = {a, b, c}
    BlockSize = 2
    MaxLen = 6
    Regions <- MCRegions
    Hashes <- MCHashes
    BlockHash <- MCBlockHash
    Arrival <- MCArrival
    Modes <- TierModes
    MaxOutputLen = 2
    NumGpu = 3
    NumHost = 3
    NumDisk = 3
    DisableCache = {b}
    Decoded = {b}
    MaxBatchSize = 2
    DiskRecomputeThreshold = 2
INVARIANTS TaskConserved AllReleased HostAligned
PROPERTY AllServed
