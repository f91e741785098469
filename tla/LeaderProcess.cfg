CONSTANTS
    NClusters = 3
    Me = 1
    Modes = {"kem", "path", "url"}
    ClusterModes = {"none", "kem", "path", "url"}
    MaxIn = 6
    None = None
SPECIFICATION FairSpec
INVARIANTS InitNeverWaits StuckOnlyOnEtsi NewestAnnounced
PROPERTY NothingStays
CHECK_DEADLOCK FALSE
