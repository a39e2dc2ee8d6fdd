\* Two reports in both modes, resets or extensions at once for one client on two nodes; three
\* bootstraps of one installation in both public modes, two rotations, and a
\* restart that drops a mode.
SPECIFICATION MCSpec
CONSTANTS
    Users = {u1}
    Nodes = {n1, n2}
    Requests = {r1, r2}
    ReportModes = {"set", "increment"}
    Limits = {0}
    Period = 1
    MaxBytes = 2
    MaxTime = 0
    Installations = {i1}
    PublicModes = {"public", "hiddify-android"}
    Sessions = {1, 2, 3}
    Tokens = {1, 2, 3}
    None = None
SYMMETRY Symmetry
INVARIANTS
    TotalCoversNodes
    InstallationSessionsBounded
PROPERTIES
    UsageNeverShrinks
