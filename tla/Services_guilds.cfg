SPECIFICATION Spec
CONSTANTS
    t1 = t1
    t2 = t2
    t3 = t3
    None = None
    Tasks <- MCTasks2
    AllPermissions <- MCGuildPermissions
    PageLimit = 2
    MaxRecipients = 3
    Window = 2
    Scenarios <- GuildScenarios
SYMMETRY Symmetry
INVARIANTS
    StoreOK
    InviteOvershoot
    BanHolds
    RolesOfOwnGuild
    DefaultRoleStays
    EffectiveMatchesDocs
PROPERTIES
    OwnerStays
