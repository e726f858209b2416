SPECIFICATION ServicesSpec
CONSTANTS
    local = local
    remote = remote
    RunConfigs <- TestConfigs
    Scope <- TestScope
    N = 2
    MaxAttempts = 3
    MaxFaults = 2
    w1 = w1
    w2 = w2
    Workers <- TwoWorkers
    Requests = 4
    MaxPending = 3
    Scenarios = {"concurrent", "arrival-rate"}
    Reuse = TRUE
    c1 = c1
    c2 = c2
    c3 = c3
    Commands <- ThreeCommands
    NoCommand = NoCommand
    Results <- TestResults
    Earlier <- TestEarlier
    FitErrors <- TestErrors
    TailErrors <- TestTailErrors
    NoTask = NoTask
    Tasks <- TheTasks
    Generic = "feature"
    Operations <- TheOperations
    Adapted <- AdaptedTasks
    Piped <- PipedTasks
    Commits <- Disagreeing
    NewCommits <- PublishedLater
    Wanted <- WantedTasks
    MaxReplies = 2
    MaxRuns = 2
    MaxChanges = 1
    Inputs <- TestInputs
    Typed <- TestTyped
    Presets = {"smoke", "main"}
    MaxEdits = 2
    MaxStarts = 3
    Left <- TheLeft
    Right <- TheRight
    Studies <- TestStudies
    NextContents <- TestContents
    Purposes = {"same-hardware", "cross-hardware", "resource-scaling"}
    MinReplicates = 2
    MaxRewrites = 1
    Unrecorded = Unrecorded
    NoValue = NoValue
INVARIANTS
    SelectionIsAgreed
    FindingsAreEarned
    LoadIsHonest
PROPERTIES
    SettingsSurvive
    NothingIsLost
    ReportsAreTheRuns
    LoadFinishes
\* The sample is verified, the load is over, the commands have ended.
CHECK_DEADLOCK FALSE
