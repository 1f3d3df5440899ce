SPECIFICATION Spec
CONSTANTS
    a1 = a1  a2 = a2  r1 = r1  r2 = r2  b1 = b1  s1 = s1  bad = bad
    A = A  B = B  k = k  v = v
    NoId = NoId
    Missing = Missing
    Tokens <- MCTokens
    Ids = {A, B}
    IdOf <- MCIdOf
    Minted <- MCMinted
    Keys = {k}
    Values = {v}
    AccessTTL = 1
    RefreshTTL = 2
    MaxTime = 3
    MaxSize = 2
    ReopenSize = 2
    Batch = 2
    ClearOn = TRUE
    Clients = {c1, c2}
    NewData <- MCNewData
    MaxSeq = 3
    MaxReopens = 1
CHECK_DEADLOCK FALSE
SYMMETRY Symmetry
VIEW Observed
INVARIANTS
    TypeOK
    BucketsAgree
    WithinMaxSize
PROPERTIES
    ImplementsProvider
