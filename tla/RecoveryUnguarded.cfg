SPECIFICATION Spec
CONSTANTS
    Clients = {c1}
    Faults <- NoFaults
    MaxFaults = 0
\* One of the two at a time; each has its counterexample.
PROPERTY PreparedOnlyAfresh
\* INVARIANT EveryStageHasSnapshot
