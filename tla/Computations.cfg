CONSTANTS
    zetas <- ZetasTable
    zetas_inv <- ZetasInvTable
    Inputs <- InputPolynomials
    Factors <- TransformedFactors
    Components = {"ntt", "packing", "rounding", "matrix", "indcpa", "keccak", "aes", "sha2", "utils"}
    PackedPositions = {0, 1, 2, 3, 4, 5, 6, 7, 255}
    PackedRests = {0}
    Rank = 2
    N = 2
    FirstBlocks = 2
    BlockValues = 2
    Values = {4095, 63250, 63251}
    MaxBlocks = 3
    Ks = {2, 3, 4}
    Seeds = {1, 77}
    Coins = {3}
    FirstBits = {63}
    KeySeeds = {91}
    Starts = {0, 16380, 4194300}
    Calls = 70
    Sampled = {16384}
    MaxPrf = 140
    MaxLen = 260
    HashedLens = {3, 56, 112, 130}
    IntBits = 12
    ByteBits = 2
    LANES = 2
    ArrayBytes = {0, 1, 3}
    MaxArray = 4
    None = None
SPECIFICATION ComputationsSpec
INVARIANTS NoOverflow KyberIsExact PrimitivesAreStandard
CHECK_DEADLOCK FALSE
