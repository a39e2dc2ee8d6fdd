CONSTANTS
    Users = {u1}
    Requests = {r1, r2}
    Uncached = {}
    CreateFiles = TRUE
    LegacyDrive = FALSE
    MaxEdits = 0
    MaxDeletes = 0
    MaxFaults = 0
    MaxFiles = 4
    MaxDrives = 2
    None = None
SPECIFICATION Spec
PROPERTIES DriveIdentityStays
CHECK_DEADLOCK FALSE
