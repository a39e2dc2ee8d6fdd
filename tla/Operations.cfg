\* Two requests for two servers and two clients, one of them over the limit;
\* two requests and a rebuild for one client and two links; two requests and two
\* jobs for two files; three messages to one chat.  In the parts with failures
\* one call fails.
CONSTANTS
    Servers = {s1, s2}
    Clients = {c1, c2}
    Requests = {r1, r2}
    Values = {v1}
    ClientLimit = 1
    MaxEdits = 2
    Users = {u1}
    Links = {l1, l2}
    Paths = {f1, f2}
    Jobs = {j1, j2}
    Admins = {a1, a2}
    MaxFiles = 2
    Chats = {chat}
    MaxUpdates = 3
    MaxAgents = 3
    MaxRestarts = 1
    MaxFaults = 1
    None = None
SPECIFICATION MCSpec
INVARIANTS
    EditsStay
    ClientsAreServed
    LinksReachFiles
    FilesAreKept
    EveryUpdateIsBegun
    SessionIsSaved
PROPERTIES
    ReplacesOnlyNewFiles
SYMMETRY Symmetry
CHECK_DEADLOCK FALSE
