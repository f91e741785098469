CONSTANTS
    Components = {"chat", "terminal", "transport", "etsi"}
    Users = {u1, u2}
    NKeys = 2
    MaxTexts = 1
    Parts = 2
    LogCap = 2
    MsgCap = 1
    CharCap = 1
    Handlers = {h1}
    InitLogs = 1
    MaxProduced = 1
    Keyboard = {97, 13}
    MaxTyped = 2
    Clients = {c1, c2}
    Talkers = {c1}
    Pingers = {c2}
    Refused = {}
    Goroutines = {handler, pinger}
    Pinger = pinger
    MaxSent = 2
    r1 = r1
    r2 = r2
    g3 = g3
    Requesters = {r1, r2}
    Getters = {g1, g2, g3}
    LeaderOf <- MCLeaderOf
    MaxFailures = 1
    MaxCrashes = 1
    MemberClusters <- MCMemberClusters
    MemberFiles <- MCMemberFiles
    LeaderClusters <- MCLeaderClusters
    LeaderSections <- MCLeaderSections
    LeaderFiles <- MCLeaderFiles
    ClusterIDs <- MCClusterIDs
    Replacements <- MCReplacements
    MaxClusters = 4
    MaxMembers = 4
    None = None
    Nil = Nil
SPECIFICATION ProgramsFairSpec
PROPERTIES EventuallyPrinted EverythingShown ConnectionIsServed EverybodyHasOneKey
CHECK_DEADLOCK FALSE
