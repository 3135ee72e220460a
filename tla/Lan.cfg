SPECIFICATION Spec
CONSTANTS
    Requests = {r1, r2}
    Bindings = {home}
    MaxSessions = 1
    Slots = 2
    MaxSaves = 2
    MaxMoves = 2
    MaxLogins = 2
    MaxFaults = 1
CHECK_DEADLOCK FALSE
SYMMETRY Symmetry
INVARIANTS
    SessionsAreCurrent
    NeverReopened
    NoStraySocket
