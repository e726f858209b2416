SPECIFICATION ArtifactsSpec
CONSTANTS
    p1 = p1
    p2 = p2
    torch = torch
    massif = massif
    NoProc = NoProc
    Procs <- TwoProcs
    Tools <- TwoTools
    MaxRuns = 2
    MaxFaults = 1
    Builders <- TwoProcs
    MaxSourceEdits = 1
    MaxImages = 4
    MaxRemovals = 1
    ScaleCount = 3
    MaxWords = 4
    Requests <- SomeRequests
    Defaults <- SomeDefaults
    Memories = {1, 3}
    Envs = {"local", "remote"}
    Sources = {"a.csv", "b.csv"}
    MaxVersions = 2
    Budgets <- Days
    Images <- SomeImages
    Tags <- SomeTags
    Facts <- SomeFacts
    Stocks <- SomeStocks
    MaxMoves = 1
SYMMETRY Symmetric
INVARIANTS
    HistoryBacked
    ImageIsItsRequest
    PlanIsEarned
    RemovalIsConfirmed
    RunsAlone
PROPERTIES
    ChoicesAreKept
    ContributionsKept
\* All runs have been started and ended, the images are built, the plan is made, the
\* screen's budget is used up.
CHECK_DEADLOCK FALSE
