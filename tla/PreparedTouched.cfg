SPECIFICATION Spec
CONSTANTS
    Clients = {c1}
    Faults <- CallOnly
    MaxFaults = 1
INVARIANT PreparedMeansUntouched
