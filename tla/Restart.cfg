SPECIFICATION FairSpec
CONSTANTS
    SameWifi = TRUE
    Readers = TRUE
    Faults <- AnyFault
    MaxFaults = 2
    MaxJobs = 2
INVARIANTS
    NoEngineWithoutGateway
    ShownWhileRestarting
PROPERTIES
    OneAttempt
    IncidentsSettle
