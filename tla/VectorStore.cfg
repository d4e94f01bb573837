CONSTANTS
    Id = {a, b}
    TextRef <- MCEmbedding
    Row <- MCRow
    Space <- MCSpace
    Embedding <- MCEmbedding
    Origin = 0
    Dist <- MCDist
    MaxVectors = 3
    MaxCentroids = 2
    MaxSample = 3
    NProbe = 1
SPECIFICATION Spec
SYMMETRY Symmetry
INVARIANTS
    TypeOK
    IndexIsExact
    SearchCoversStore
    EveryVectorIsFindable
    MetadataHasOwner
    IndexFileStartsWithRam
PROPERTIES
    DeleteTakesOneRow
