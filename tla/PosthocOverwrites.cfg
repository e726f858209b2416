\* PosthocBackfill: the second of two runs started under a relative path.
SPECIFICATION Spec
CONSTANTS
    NoProc = NoProc
    Procs = {p1, p2}
    Tools = {torch}
    MaxRuns = 2
    MaxFaults = 0
PROPERTY HistoryAppendOnly
\* All runs have ended.
CHECK_DEADLOCK FALSE
