SPECIFICATION Spec
CONSTANTS
    a1 = a1  a2 = a2  r1 = r1  r2 = r2  b1 = b1  s1 = s1  bad = bad
    A = A  B = B  k = k  v = v
    NoId = NoId
    Missing = Missing
    Tokens <- Tokens3
    Ids = {A, B}
    IdOf <- IdOf3
    Minted <- Minted3
    Keys = {}
    Values = {v}
    AccessTTL = 1
    RefreshTTL = 1
    MaxTime = 2
    MaxSize = 2
    Batch = 1
    ClearOn = TRUE
    Clients = {c1, c2}
    Elements = {e1, e2, e3}
SYMMETRY Symmetry
VIEW Unanswered
INVARIANTS
    TypeOK
    IndexesAgree
    DestroyFindsElements
    WithinMaxSize
    NobodyStuck
PROPERTIES
    BackgroundSparesLive
    ClosedForGood
