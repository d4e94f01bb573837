CONSTANTS
    c1 = c1
    c2 = c2
    a = a
    b = b
    v = v
    w = w
    z = z
    NoRequest = NoRequest
    None = None
    NoText = NoText
    Conn = {c1, c2}
    Id = {a, b}
    Val = {v, w, z}
    Zero = z
    Lines <- MCLines
    Quitters = {c2}
    Failures = {TRUE, FALSE}
    Boots <- MCBoots
    TopK = 2
    StartsAt = 2
    Factor = 2
    DeleteFactor = 2
    MaxInbox = 1
    MaxRequests <- MCRequests
SPECIFICATION FairSpec
INVARIANTS
    TypeOK
    FreeStoreIsConsistent
PROPERTIES
    ImplementsDatabase
    EveryRequestAnswered
    ThreadsEnd
