SPECIFICATION FairSpec
CONSTANTS
    Conns = {c1, c2}
    Pids = {p1, p2, p3}
    CliOps <- NoCommand
    Faults <- Survivable
    MaxFaults = 2
    MaxTries = 3
    MaxStarts = 2
CHECK_DEADLOCK FALSE
PROPERTY
    Released
