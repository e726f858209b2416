SPECIFICATION MeasuringSpec
CONSTANTS
    NumCases = 2
    NumRows = 3
    Modes = {TRUE, FALSE}
    MaxCaseFaults = 3
    Monitors <- AllMonitors
    NumWindows = 2
    MaxFaults = 3
    Groups = 2
    PerWindow = 2
    MaxNoise = 1
    pkg = pkg
    dram = dram
    NaN = NaN
    Packages <- OnePackage
    Drams <- OneDram
    Wrap <- Wraps
    Draws <- TwoDraws
    MaxDrawn = 3
    MaxStamps = 4
    IdlePower = 1
    Cpus = {1, 2}
    Mems = {1}
    Scales = {1}
    Repeats = {1, 2}
    MaxAttempts = 2
    Results <- ThreeResults
    References = {0, 3}
    MaxProfiles = 2
    MaxMissed = 1
    Handlers <- ServedModels
    Sizes = {1, 3}
    Batches = {1, 2}
    Sent = 2
    Parallel = FALSE
    Watts = {1, 3}
    Held = {1, 2}
    Pmus = {1, 2}
    MaxRequests = 1
    MaxIdle = 1
    MaxLost = 1
    MaxBack = 1
    Unread = Unread
INVARIANTS
    ServedInTurn
    ScalesAreKept
    RowsAreTheirWindows
    FiguresAreReal
    EvidenceInOrder
    ProfilesAreTheRows
PROPERTIES
    CasesEndWell
    RowsAreMeasured
\* The matrix, the client, the merge and the meter end.
CHECK_DEADLOCK FALSE
