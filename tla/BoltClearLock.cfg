SPECIFICATION FairSpec
CONSTANTS
    a1 = a1  a2 = a2  r1 = r1  r2 = r2  b1 = b1  s1 = s1  bad = bad
    A = A  B = B  k = k  v = v
    NoId = NoId
    Missing = Missing
    Tokens <- MCTokens
    Ids = {A, B}
    IdOf <- MCIdOf
    Minted <- MCMinted
    Keys = {}
    Values = {v}
    AccessTTL = 1
    RefreshTTL = 1
    MaxTime = 2
    MaxSize = 2
    ReopenSize = 2
    Batch = 1
    ClearOn = TRUE
    Clients = {c1}
    NewData <- MCNewData
    MaxSeq = 1
    MaxReopens = 0
CHECK_DEADLOCK FALSE
PROPERTY CallsReturn
