SPECIFICATION Spec
CONSTANTS
    Clients = {c1, c2}
    Faults <- AnyFailure
    MaxFaults = 2
SYMMETRY ClientSymmetry
INVARIANT
    RecordIsTrue
PROPERTIES
    StagesFollowDoc
    StartHasEvidence
    CardKept
