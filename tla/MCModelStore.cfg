SPECIFICATION Spec
CONSTANTS
    p1 = p1
    p2 = p2
    ma = ma
    mb = mb
    fa = fa
    fb = fb
    fs = fs
    NoProc = NoProc
    Procs <- TwoProcs
    Models <- TwoModels
    Files <- ThreeFiles
    FilesOf <- Overlapping
    MaxFaults = 2
SYMMETRY Symmetric
INVARIANTS
    PlansHaveTheirFiles
    WithinBudget
