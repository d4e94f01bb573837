CONSTANTS
    a = a
    b = b
    short = short
    long = long
    Id = {a, b}
    Val = {short, long}
    TextLen <- MCTextLen
    LargeText = {long}
    DeleteFactor = 3
    MaxRecords = 3
    MaxCells = 6
    FailSteps <- NoFails
    CrashSteps <- NoSteps
    Space <- MCSpace
    Embedding <- MCEmbedding
    Origin = 0
    Dist <- MCDist
    MaxVectors = 3
    MaxCentroids = 1
    MaxSample = 3
    NProbe = 1
    EmbeddingOf <- MCEmbeddingOf
SPECIFICATION EngineSpec
INVARIANTS
    TextsAreOwn
