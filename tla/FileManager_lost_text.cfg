CONSTANTS
    a = a
    b = b
    short = short
    long = long
    Id = {a, b}
    Val = {short, long}
    TextLen <- MCTextLen
    LargeText = {long}
    DeleteFactor = 3
    MaxRecords = 3
    MaxCells = 7
    FailSteps <- NoFails
    CrashSteps <- IdleSteps
SPECIFICATION Spec
PROPERTIES
    KillKeepsDocuments
