SPECIFICATION Spec
CONSTANTS
    SameWifi = FALSE
    Readers = FALSE
    Faults <- GoneOnly
    MaxFaults = 1
    MaxJobs = 1
\* One of the two at a time; each has its counterexample.
PROPERTY RestartsFailedEngine
\* PROPERTY ConfirmedByNewStatus
