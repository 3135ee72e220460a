SPECIFICATION Spec
CONSTANTS
    SameWifi = FALSE
    Readers = TRUE
    Faults <- GoneOnly
    MaxFaults = 1
    MaxJobs = 1
PROPERTY RefusedByOperation
