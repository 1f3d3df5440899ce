SPECIFICATION Spec
CONSTANTS
    a1 = a1  a2 = a2  a3 = a3  r1 = r1  r2 = r2  r3 = r3  other = other  bad = bad
    A = A  B = B  k = k  v = v
    NoId = NoId
    Missing = Missing
    MetadataKey = MetadataKey
    NoMetadata = NoMetadata
    Tokens <- MCTokens
    Ids = {A, B}
    IdOf <- MCIdOf
    Minted <- MCMinted
    Keys = {k}
    Values = {v}
    AccessTTL = 1
    RefreshTTL = 2
    MaxTime = 2
    Second = 2
    Batch = 2
    Clients = {c1, c2}
    NewData <- MCNewData
SYMMETRY Symmetry
VIEW Observed
CHECK_DEADLOCK FALSE
INVARIANTS
    TypeOK
    KeyNamesSession
    KeptUntilDeadline
PROPERTIES
    PurgeSparesLive
    
