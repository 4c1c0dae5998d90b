SPECIFICATION Spec
CONSTANTS
    a = a
    b = b
    c = c
    Seqs = {a, b, c}
    BlockSize = 2
    MaxLen = 6
    Regions <- MCRegions
    Hashes <- MCHashes
    BlockHash <- MCBlockHash
    Arrival <- MCArrival
    Modes <- DiskModes
    MaxOutputLen = 2
    NumGpu = 5
    NumHost = 3
    NumDisk = 3
    DisableCache = {}
    Decoded = {}
    MaxBatchSize = 2
    DiskRecomputeThreshold = 2
INVARIANT DiskSound
