SPECIFICATION Spec
CONSTANTS
    s1 = s1
    s2 = s2
    r1 = r1
    NumBlocks <- PoolSizes
    BlockSize = 2
    MaxLen = 5
    Seqs <- ForkSeqs
    Regions = {r1}
    Hashes <- ForkHashes
    BlockHash <- ForkBlockHash
INVARIANTS TypeOK RefCountExact FreeListExact HoldersSound TableExact
PROPERTIES FreeKeepsFilledPrefix
