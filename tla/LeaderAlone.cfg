CONSTANTS
    NClusters = 1
    c1 = c1
    c2 = c2
    s0 = s0
    s1 = s1
    s2 = s2
    NoKey = NoKey
    EdgeModes <- Kem
    Share <- OwnShares
    Coins <- OneCoin
SPECIFICATION FairSpec
PROPERTY EventuallyEstablished
CHECK_DEADLOCK FALSE
