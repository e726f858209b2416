SPECIFICATION RunningSpec
CONSTANTS
    p1 = p1
    p2 = p2
    u1 = u1
    u2 = u2
    NoProc = NoProc
    Procs <- TwoProcs
    UserOf <- OneUserEach
    NumCases = 2
    Inferred = {2}
    Idents = {1, 2}
    MaxAttempts = 3
    MaxFaults = 2
    MaxEdits = 1
    PlannedCases = 2
    Tools = 1
    Posts = 2
    MaxUpsets = 2
    Commands = {"run", "probe"}
    NumItems = 2
    PipeCapacity = 2
    MaxSpoken = 2
    MaxInterrupts = 2
    r1 = r1
    r2 = r2
    key = key
    None = None
    Unsure = Unsure
    Repos <- TwoRepos
    Vars <- OneKey
    Programs <- SomeCode
INVARIANTS
    LoadsAreForeseen
    LockDiscipline
    CheckpointMatchesDisk
    EvidencePreserved
    PublishedResultUnmixed
    OutcomeIsTold
PROPERTIES
    KeepsPromise
    PageFollows
\* A bounded run: the directory may be finished or out of attempts, a run is
\* judged, a command ends.
CHECK_DEADLOCK FALSE
