\* One change by the panel or one failure, at any time: a user edited, created
\* or deleted, a server edited or deleted, a statement failing, the script killed.
\* Scans of three addresses by two workers, with one failed append; two runs of
\* the filter over four addresses and two hosts.
CONSTANTS
    u1 = u1
    u2 = u2
    t1 = t1
    t2 = t2
    d = d
    o = o
    Users = {u1, u2}
    Targets <- TwoTargets
    Retired <- OneRetired
    Others = {o}
    InitLists <- Lists
    AdminLists <- Saved
    RelayOnly = TRUE
    MaxEvents = 1
    None = None
    ip1 = ip1
    ip2 = ip2
    ip3 = ip3
    ip4 = ip4
    Ips = {ip1, ip2, ip3, ip4}
    Plans <- ScanPlans
    Listings <- ScanListings
    Limit = 3
    Concurrency = 2
    ApplicationLimit = 2
    Statuses = {0, 101, 404, 421}
    MaxFaults = 1
    Input <- ScanInput
    MaxSourceMs = 5
    Hostnames <- ScanHostnames
    Passes = 2
    MaxStarts = 2
SPECIFICATION MCSpec
INVARIANTS
    OkMeansPublished
    RollbackRestoresLists
    NoListNamesMissingServer
    ChangedListsAreBackedUp
    ScansLoseNothing
CHECK_DEADLOCK FALSE
