SPECIFICATION FairSpec
CONSTANTS
    Conns = {c1, c2}
    None = None
    Faults <- Late
    MaxFaults = 1
PROPERTY Restored
