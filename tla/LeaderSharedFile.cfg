CONSTANTS
    NClusters = 3
    c1 = c1
    c2 = c2
    s0 = s0
    s1 = s1
    s2 = s2
    NoKey = NoKey
    EdgeModes <- Paths
    Share <- SharedFile
    Coins <- TwoCoins
SPECIFICATION Spec
INVARIANTS EqualNeighboursStall
CHECK_DEADLOCK FALSE
