CONSTANTS
    NClusters = 3
    c1 = c1
    c2 = c2
    s0 = s0
    s1 = s1
    s2 = s2
    NoKey = NoKey
    EdgeModes <- AllModes
    Share <- OwnShares
    Coins <- OneCoin
SPECIFICATION FairSpec
INVARIANTS MainKeyAgreement IndInv
PROPERTIES HandedOverOnce EventuallyEstablished
