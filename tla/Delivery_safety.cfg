SPECIFICATION DeliverySpec
CONSTANTS
    u1 = u1
    g1 = g1
    c1 = c1
    c2 = c2
    t1 = t1
    Users <- MCUsers
    Guilds <- MCGuilds
    Conns <- MCConns
    Tasks <- MCTask
    Tracked <- MCNone
    NoUser = NoUser
    NoConn = NoConn
    NoGuild = NoGuild
    NoPayload = NoPayload
    Torn = Torn
    ClientStatuses <- MCNoStatuses
    RedisMayFail = FALSE
    MayRestart = FALSE
    QueueCap = 1
    ReplayCap = 3
SYMMETRY Symmetry
VIEW View
INVARIANTS
    DeliveryTypeOK
    ReplayMissesOnlyRaced
PROPERTIES
    LookUpFindsLive
CHECK_DEADLOCK FALSE
