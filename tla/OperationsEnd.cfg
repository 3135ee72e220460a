SPECIFICATION FairSpec
CONSTANTS
    k1 = k1  k2 = k2  c1 = c1  c2 = c2
    Keys = {k1, k2}
    Clients = {c1, c2}
    Parts <- MCOnePart
    Kinds = {"stop", "probe"}
    External = {"start"}
    Observed = FALSE
    Faults = {"save", "answer", "job", "crash"}
    MaxFaults = 1
INVARIANTS ExecutedOnce SuccessIsTrue
PROPERTIES OperationsEnd
