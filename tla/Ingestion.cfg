SPECIFICATION FairSpec
CONSTANTS
    f = f
    g = g
    x = x
    NoChunk = NoChunk
    File = {f, g}
    BaseOf <- MCBaseOf
    ChunksOf <- MCChunksOf
    Oversized <- MCOversized
    Failures = {"read", "embed", "insert", "timeout", "save", "raise"}
    MaxChunks = 2
    KillInSave = TRUE
    MaxKills = 2
    MaxRuns = 2
INVARIANTS
    TypeOK
    AcceptedAreStored
    LoadsRecordEveryFile
PROPERTIES
    RecordsAreKept
    LoadsEnd
