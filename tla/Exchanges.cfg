CONSTANTS
    Components = {"keys", "kex", "commitment", "gake", "sponge", "seedexpander", "drbg", "randombytes"}
    Atoms = {a, b}
    MaxN = 4
    Modes = {"uake", "ake", "qrom"}
    Sessions = {1, 2}
    MaxChangedMsgs = 1
    Owners = {1, 2}
    Texts = {1, 2}
    Coins = {1, 2}
    MaxParties = 5
    MaxChanged = 2
    SHAKE128_RATE = 4
    SHAKE256_RATE = 3
    SHA3_256_RATE = 3
    SHA3_512_RATE = 2
    SpongeBytes = {0, 31, 128, 159}
    MaxMessage = 5
    MaxSqueezed = 3
    SeedBase = 2
    SeedBlockLen = 3
    DrbgBase = 2
    VLen = 3
    DrbgBlockLen = 2
    MaxDrbgCalls = 2
    MaxRequest = 5
    MaxLen = 6
    MaxCalls = 3
    None = None
SPECIFICATION ExchangesSpec
INVARIANTS HelpersAreExact KeyNamesTranscript AcceptedRoundsAgree StreamsAreWhole
PROPERTY RunsEnd
CHECK_DEADLOCK FALSE
