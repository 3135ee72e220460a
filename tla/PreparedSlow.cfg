SPECIFICATION Spec
CONSTANTS
    Conns = {c1, c2}
    Pids = {p1, p2, p3}
    CliOps <- NoCommand
    Faults <- SlowOnly
    MaxFaults = 1
    MaxTries = 3
    MaxStarts = 2
CHECK_DEADLOCK FALSE
SYMMETRY Symmetry
INVARIANT OneEngine
