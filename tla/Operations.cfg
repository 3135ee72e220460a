SPECIFICATION Spec
SYMMETRY Symmetry
CONSTANTS
    k1 = k1  k2 = k2  c1 = c1  c2 = c2
    Keys = {k1}
    Clients = {c1, c2}
    Parts <- MCParts
    Kinds = {"reload", "probe"}
    External = {"restart"}
    Observed = TRUE
    Faults = {"save", "answer", "job", "part", "crash"}
    MaxFaults = 1
INVARIANTS
    ExecutedOnce
    SuccessIsTrue
PROPERTY
    ShownIsTrue
