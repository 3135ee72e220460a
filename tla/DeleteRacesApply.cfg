SPECIFICATION Spec
CONSTANTS
    Clients = {c1, c2}
    Sources = {s1}
    Digests = {a}
    Kinds = {"apply", "delete"}
    MaxRequests = 2
    Faults = {"gone"}
    MaxFaults = 1
CHECK_DEADLOCK FALSE
PROPERTY SelectedKept
