SPECIFICATION Spec
CONSTANTS
    a1 = a1  a2 = a2  r1 = r1  r2 = r2  b1 = b1  s1 = s1  bad = bad
    A = A  B = B  k = k  v = v
    NoId = NoId
    Missing = Missing
    Tokens <- MCTokens
    Ids = {A, B}
    IdOf <- MCIdOf
    Minted <- MCMinted
    Keys = {k}
    Values = {v}
    AccessTTL = 1
    RefreshTTL = 1
    MaxTime = 2
    MaxSize = 2
    ReopenSize = 1
    Batch = 2
    ClearOn = TRUE
    Clients = {c1}
    NewData <- MCNewData
    MaxSeq = 3
    MaxReopens = 1
PROPERTY CreateKeepsWithin
