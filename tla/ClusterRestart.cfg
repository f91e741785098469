CONSTANTS
    N = 3
    Leader = 0
    Coins = {c1}
    MainKeys = {m1, m2}
    Restarting = {0, 1, 2}
    MaxEpoch = 2
    MaxInNet = 3
    NoKey = NoKey
SPECIFICATION FewMessages
INVARIANTS LiveKeyAgreement LiveMainKeyAgreement NoGarbageInKey
PROPERTIES KeyFinalInRun
CHECK_DEADLOCK FALSE
