CONSTANTS
    a = a
    b = b
    short = short
    long = long
    Id = {a, b}
    Val = {short, long}
    TextLen <- MCTextLen
    LargeText = {}
    DeleteFactor = 3
    MaxRecords = 3
    MaxCells = 7
    FailSteps <- AllSteps
    CrashSteps <- AllSteps
SPECIFICATION Spec
SYMMETRY Symmetry
VIEW LiveFiles
INVARIANTS
    TypeOK
    HeaderIsFlushed
    NeverUndercount
    CompactionKeepsContents
PROPERTIES
    InsertIsReadable
    KillLosesAtMostTheLast
    DeleteTouchesOneId
