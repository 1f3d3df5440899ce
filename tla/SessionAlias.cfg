SPECIFICATION Spec
CONSTANTS
    a1 = a1  a2 = a2  r1 = r1  r2 = r2  bad = bad
    A = A  k1 = k1  k2 = k2  v = v  w = w
    slice = slice  array = array
    NoId = NoId
    Missing = Missing
    Tokens <- MCTokens
    Ids = {A}
    IdOf <- MCIdOf
    Minted <- MCMinted
    Keys = {k1, k2}
    Values = {v, w}
    AccessTTL = 1
    RefreshTTL = 2
    MaxTime = 2
    MaxSize = 2
    Types = {slice}
    KindOf <- MCKindOf
    Decodable <- MCDecodableS
    Reused = {slice}
    Addresses = {x1, x2, x3}
PROPERTY GetReturnsStoredAnyway
