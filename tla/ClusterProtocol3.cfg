CONSTANTS
    N = 3
    Leader = 2
    m1 = m1
    m2 = m2
    c1 = c1
    c2 = c2
    NoKey = NoKey
    Coins <- TwoCoins
    MainKeys <- TwoMainKeys
SPECIFICATION FairSpec
INVARIANTS KeyAgreement MainKeyNotLost IndInv
PROPERTIES EventuallyEstablished ImplementsGroupKeyExchange
