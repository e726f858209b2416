SPECIFICATION FairSpec
CONSTANTS
    None = None
    Pids = {a, b}
    Ids = {c1, c2}
    MaxLive = 2
    MaxBoots = 1
    MaxFaults = 2
INVARIANTS
    OwnersDecide
PROPERTY AbandonedGoes
