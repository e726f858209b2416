SPECIFICATION Spec
CONSTANTS
    p1 = p1
    p2 = p2
    ma = ma
    mb = mb
    fa = fa
    fb = fb
    fs = fs
    NoProc = NoProc
    Procs <- TwoProcs
    Models <- TwoModels
    Files <- ThreeFiles
    FilesOf <- Disjoint
    MaxFaults = 1
SYMMETRY Symmetric
INVARIANTS
    PreparingAgainHeals
