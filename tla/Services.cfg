\* The loop with two direct syncs and two commits; one client carried by two
\* pulls or pushes; two monitors and the repair under one lock, one killed.
CONSTANTS
    Handlers = {h1, h2}
    MaxCommits = 2
    Clients = {a}
    Carriers = {c1, c2}
    MaxChanges = 4
    Monitors = {m1, m2}
    Fixers = {f}
    Services = {v}
    Required = 2
    MaxKills = 1
    None = None
SPECIFICATION MCSpec
INVARIANTS
    QuietMeansPublished
    OneAtATime
    AnnouncedIffDown
PROPERTIES
    ImplementsSyncService
    EdgeConverges
    LeftLockGoes
CHECK_DEADLOCK FALSE
