CONSTANTS
    u1 = u1
    u2 = u2
    t1 = t1
    t2 = t2
    d = d
    o = o
    Users = {u1, u2}
    Targets <- TwoTargets
    Retired <- OneRetired
    Others = {o}
    InitLists <- Lists
    AdminLists <- Saved
    RelayOnly = TRUE
    MaxEvents = 0
    None = None
SPECIFICATION Spec
INVARIANTS RolledBackServersAreAsBefore
CHECK_DEADLOCK FALSE
