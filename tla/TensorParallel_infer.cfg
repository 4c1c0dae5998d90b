SPECIFICATION Spec
CONSTANTS
    s1 = s1
    s2 = s2
    Seqs = {s1, s2}
    World = 2
    ModelParallelSize = 2
    PipelineLength = 1
    ContextParallelSize = 1
    Tp = 2
    Modulus = 13
    Vocab = 4
    Hidden = 4
    Heads = 4
    KvHeads = 2
    Ffn = 2
    NumLayers = 2
    MaxPositions = 6
    Page = 2
    MaxLen = 5
    Budget = 3
    Value <- MCValue
    Norm <- MCNorm
    Act <- MCAct
    Rotate <- MCRotate
    Attend <- MCAttend
    Configs <- MCConfigs
    Table <- MCTable
    Prompts <- MCPrompts
INVARIANTS CollectivesMatch KvExact
PROPERTIES Implements InferEnds
CHECK_DEADLOCK FALSE
