CONSTANTS
    N = 3
    Leader = 0
    k1 = k1
    k2 = k2
    m1 = m1
    m2 = m2
    NoKey = NoKey
    Modes <- BothModes
    QkdKeys <- TwoQkdKeys
    MainKeys <- TwoMainKeys
SPECIFICATION FairSpec
INVARIANT IndInv
PROPERTIES ImplementsGroupKeyExchange EventuallyEstablished
