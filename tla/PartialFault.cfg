SPECIFICATION Spec
CONSTANTS
    k1 = k1  k2 = k2  c1 = c1  c2 = c2
    Keys = {k1}
    Clients = {c1}
    Parts <- MCParts
    Kinds = {"probe"}
    External = {"restart"}
    Observed = TRUE
    Faults = {}
    MaxFaults = 0
PROPERTIES NoPartialFault
