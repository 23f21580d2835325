SPECIFICATION Spec
CONSTANTS
    u1 = u1
    u2 = u2
    g1 = g1
    g2 = g2
    c1 = c1
    c2 = c2
    c3 = c3
    Users <- MCUsers1
    Guilds <- MCGuilds1
    Conns <- MCConns2
    NoUser = NoUser
    NoConn = NoConn
    ClientStatuses <- MCNoStatuses
    RedisMayFail = FALSE
    MayRestart = FALSE
SYMMETRY Symmetry
PROPERTIES
    NoOfflineFlash
