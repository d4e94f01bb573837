SPECIFICATION FairSpec
CONSTANTS
    Kinds = {"DELETE", "QUERY"}
    HitKinds = {"hit", "hitEND", "skip"}
    ErrorReplies <- MCErrorReplies
    Timeouts = TRUE
    MaxHits = 2
    MaxCalls = 3
INVARIANTS
    TypeOK
    CleanAnswersAreWhole
PROPERTIES
    CleanCallsReturn
