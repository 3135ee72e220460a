SPECIFICATION FairSpec
CONSTANTS
    Conns = {c1, c2}
    None = None
    Faults <- Expected
    MaxFaults = 3
INVARIANTS
    OursIsMarked
    ActiveIsTrue
PROPERTY FlagGivenBack
