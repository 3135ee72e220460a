SPECIFICATION Spec
CONSTANTS
    Clients = {c1, c2}
    Sources = {s1, s2}
    Digests = {a, b}
    Kinds <- Everything
    MaxRequests = 2
    Faults <- AnyFault
    MaxFaults = 2
CHECK_DEADLOCK FALSE
SYMMETRY Symmetry
INVARIANTS
    FilesAgree
    AnswerIsTrue
PROPERTIES
    NoLostUpdate
    SelectedKeptByWaiting
