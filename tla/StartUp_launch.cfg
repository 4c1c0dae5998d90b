SPECIFICATION FairSpec
CONSTANTS
    TpSize = 2
    Totals = {8, 12}
    Peaks = {2, 5}
    MemoryPercent = 50
    BlockBytes = 2
    Limits <- MCLimits
    MaxRestarts = 1
INVARIANTS KvReady CacheFits WarmupIsLargestBatch
PROPERTY StartUpEnds
\* A launch may end in a panic, or hang on a process that has died.
CHECK_DEADLOCK FALSE
