\* One tunnel of two configurations and one key, handled by two requests of
\* which two calls fail; every maintenance script, for two clients and four
\* servers, with two throws or kills and a second run.
CONSTANTS
    Requests = {r1, r2}
    Tunnels = {t1}
    Configs = {conf1, conf2}
    Users = {u1}
    Keys = {k1}
    MaxFaults = 2
    n1 = n1
    News = {n1, n2}
    Olds = {o1}
    Others = {x1}
    Clients = {vip, c1}
    vip = vip
    Worlds <- MCWorlds
    MaxEvents = 2
    MaxRuns = 2
    None = None
SPECIFICATION MCSpec
INVARIANTS
    UnitsAreKnown
    ActiveRuns
    LinksWork
    ListedKeysAreLimited
    BackupsHoldChanges
    OkIsComplete
    UndoneIsAsBefore
SYMMETRY Symmetry
CHECK_DEADLOCK FALSE
