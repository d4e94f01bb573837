CONSTANTS
    a = a
    b = b
    c = c
    t = t
    Id = {a, b}
    TextRef = {t}
    Row <- MCRow
    Space <- MCSpace
    Embedding <- MCEmbedding
    Origin = 0
    Dist <- MCDist
    MaxVectors = 2
    MaxCentroids = 2
    MaxSample = 3
    NProbe = 1
    Word <- MCWord
    Full <- MCFull
    MaxPairs = 2
    Metadata <- MCMetadata
    Filters <- MCFilters
SPECIFICATION QuerySpec
SYMMETRY Symmetry
INVARIANTS
    MetadataIsOwn
