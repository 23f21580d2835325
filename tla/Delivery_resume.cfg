SPECIFICATION DeliverySpec
CONSTANTS
    u1 = u1
    g1 = g1
    c1 = c1
    c2 = c2
    t1 = t1
    Users <- MCUsers
    Guilds <- MCGuilds
    Conns <- MCConns
    Tasks <- MCTask
    Tracked <- MCTask
    NoUser = NoUser
    NoConn = NoConn
    NoGuild = NoGuild
    NoPayload = NoPayload
    Torn = Torn
    ClientStatuses <- MCNoStatuses
    RedisMayFail = FALSE
    MayRestart = FALSE
    QueueCap = 1
    ReplayCap = 2
SYMMETRY Symmetry
INVARIANTS
    ResumeReplaysMissed
CHECK_DEADLOCK FALSE
