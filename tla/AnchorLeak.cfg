SPECIFICATION Spec
CONSTANTS
    Configs <- FullPlain
    UserDns <- OneDns
    Inst <- Some
    NoPid = NoPid
    p1 = p1
    p2 = p2
    p3 = p3
    MaxBoot = 1
    Faults <- CommandOnly
    MaxFaults = 2
SYMMETRY InstSymmetry
INVARIANTS
    NoAnchorLeft
