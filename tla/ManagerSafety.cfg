SPECIFICATION Spec
CONSTANTS
    a1 = a1  a2 = a2  a3 = a3  r1 = r1  r2 = r2  r3 = r3
    b1 = b1  s1 = s1  respelled = respelled  forged = forged  bad = bad
    x = x  y = y  k = k  v = v
    Key = "key"
    NoId = NoId
    Missing = Missing
    Tokens <- MCTokens
    Ids <- MCIds
    IdOf <- MCIdOf
    Minted <- MCMinted
    Keys = {k}
    Values = {v}
    AccessTTL = 1
    RefreshTTL = 2
    MaxTime = 2
    Canonical <- MCCanonical
    Users <- MCUsers
    Uuids <- MCUuids
    Owner <- MCOwner
    Text <- MCText
    MaxSize = 2
    Clients = {c1, c2}
SYMMETRY Symmetry
VIEW Unanswered
INVARIANTS
    TypeOK
    SessionsIssued
    PendingUnused
    OneHeir
PROPERTIES
    DestroyedStayGone
    TokensRetire
    DestroyReachesOwn
