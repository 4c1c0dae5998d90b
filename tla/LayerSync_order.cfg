SPECIFICATION FairSpec
CONSTANTS
    NumLayers = 3
    NumMaps = 2
    MaxIters = 3
INVARIANT NothingLeft
PROPERTIES KeepsLayerOrder IterationEnds
CHECK_DEADLOCK FALSE
