\* "identity" has the requests r1 and r2, "converge" has r1, data that change
\* once and Drive files made on the way.
CONSTANTS
    Users = {u1}
    Requests = {r1}
    r2 = r2
    TwoEdits = 0
    Uncached = {1}
    CreateFiles = TRUE
    LegacyDrive = TRUE
    MaxEdits = 1
    MaxDeletes = 1
    MaxFaults = 1
    MaxFiles = 4
    MaxDrives = 4
    None = None
SPECIFICATION MCSpec
INVARIANTS TwoSlugsIdentify
PROPERTIES TwoDriveIdentityStays RefreshConverges
CHECK_DEADLOCK FALSE
