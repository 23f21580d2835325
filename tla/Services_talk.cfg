SPECIFICATION Spec
CONSTANTS
    t1 = t1
    t2 = t2
    t3 = t3
    None = None
    Tasks <- MCTasks3
    AllPermissions <- MCPermissions
    PageLimit = 2
    MaxRecipients = 3
    Window = 2
    Scenarios <- TalkScenarios
SYMMETRY Symmetry
INVARIANTS
    PagingSeesAll
    PairKeepsBoth
    GroupOvershoot
    NamesUnique
    SessionKept
    BurstsBounded
