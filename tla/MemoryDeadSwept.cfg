SPECIFICATION FairSpec
CONSTANTS
    a1 = a1  a2 = a2  r1 = r1  r2 = r2  b1 = b1  s1 = s1  bad = bad
    A = A  B = B  k = k  v = v
    NoId = NoId
    Missing = Missing
    Tokens <- Tokens2
    Ids = {A}
    IdOf <- IdOf2
    Minted <- Minted2
    Keys = {}
    Values = {v}
    AccessTTL = 1
    RefreshTTL = 1
    MaxTime = 2
    MaxSize = 0
    Batch = 0
    ClearOn = TRUE
    Clients = {c1, c2}
    Elements = {e1, e2}
PROPERTIES
    DeadSwept
    GoroutinesEnd
