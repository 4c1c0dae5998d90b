SPECIFICATION Spec
CONSTANTS
    a = a
    b = b
    c = c
    Seqs = {a, b, c}
    BlockSize = 2
    MaxLen = 6
    Regions <- MCRegions
    Hashes <- MCHashes
    BlockHash <- MCBlockHash
    Arrival <- MCArrival
    Modes <- DiskModes
    MaxOutputLen = 3
    NumGpu = 4
    NumHost = 0
    NumDisk = 0
    DisableCache = {}
    Decoded = {}
    MaxBatchSize = 2
    DiskRecomputeThreshold = 2
INVARIANT ChunksStored
