\* ProfilerReports: a report without a checkpoint is taken up.
SPECIFICATION ReportsSpec
CONSTANTS
    Cpus = {1}
    Mems = {1}
    Scales = {1}
    Repeats = {1, 2}
    MaxAttempts = 2
INVARIANT CheckpointsTellTheTruth
\* The last attempt ends.
CHECK_DEADLOCK FALSE
