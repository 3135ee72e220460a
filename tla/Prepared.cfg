SPECIFICATION Spec
CONSTANTS
    Conns = {c1, c2}
    Pids = {p1, p2, p3}
    CliOps <- AnyCommand
    Faults <- AnyFault
    MaxFaults = 2
    MaxTries = 3
    MaxStarts = 2
CHECK_DEADLOCK FALSE
SYMMETRY Symmetry
INVARIANTS
    SingleOwner
    EngineIsAccounted
PROPERTIES
    LeasedEngineKept
    RecordOutlivesEngine
