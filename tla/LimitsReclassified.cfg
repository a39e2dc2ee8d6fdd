SPECIFICATION Spec
CONSTANTS
    Users = {u1}
    Nodes = {}
    Requests = {r1}
    ReportModes = {"set"}
    Limits = {1}
    Period = 1
    MaxBytes = 1
    MaxTime = 1
    None = None
PROPERTIES
    DisabledIsNotReclassified
