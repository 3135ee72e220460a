SPECIFICATION Spec
CONSTANTS
    SameWifi = FALSE
    Readers = FALSE
    Faults <- NoRecord
    MaxFaults = 2
    MaxJobs = 1
INVARIANT ShownInAnyCase
