CONSTANTS
    Components = {"chat", "terminal", "transport", "configuration", "generator"}
    Users = {u1, u2}
    NKeys = 2
    MaxTexts = 2
    Parts = 2
    LogCap = 2
    MsgCap = 1
    CharCap = 1
    Handlers = {h1, h2}
    InitLogs = 1
    MaxProduced = 1
    Keyboard = {97, 98, 127, 13, 27}
    MaxTyped = 2
    Clients = {c1, c2}
    Talkers = {c1}
    Pingers = {c2}
    Refused = {c2}
    Goroutines = {handler, request, pinger}
    Pinger = pinger
    MaxSent = 1
    r1 = r1
    r2 = r2
    g3 = g3
    Requesters = {r1, r2}
    Getters = {g1, g2, g3}
    LeaderOf <- MCLeaderOf
    MaxFailures = 2
    MaxCrashes = 1
    MemberClusters <- MCMemberClusters
    MemberFiles <- MCMemberFiles
    LeaderClusters <- MCLeaderClusters
    LeaderSections <- MCLeaderSections
    LeaderFiles <- MCLeaderFiles
    ClusterIDs <- MCClusterIDs
    Replacements <- MCReplacements
    MaxClusters = 4
    MaxMembers = 4
    None = None
    Nil = Nil
SPECIFICATION ProgramsSpec
SYMMETRY Alike
INVARIANTS TextUnderOneKey OvertakenOnlyBeside StuckOnlyOnOwnLog LinesWholeInOrder TidyRunsOn FilesMatch
CHECK_DEADLOCK FALSE
