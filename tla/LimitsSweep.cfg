\* One client with a limit or without, one node, one request beside the sweeps.
SPECIFICATION LiveSpec
CONSTANTS
    Users = {u1}
    Nodes = {n1}
    Requests = {r1}
    ReportModes = {"set", "increment"}
    Limits = {0, 1}
    Period = 1
    MaxBytes = 1
    MaxTime = 2
    None = None
PROPERTIES
    LimitIsEnforced
