SPECIFICATION Spec
CONSTANTS
    Clients = {c1, c2}
    Faults <- NoFaults
    MaxFaults = 0
INVARIANT EndedIsStopped
