SPECIFICATION PreparingSpec
CONSTANTS
    Mems <- TwoMems
    GpuModes <- TwoGpuModes
    Order <- OrderOfTwo
    MaxFaults = 1
    MaxEdits = 1
    p1 = p1
    u1 = u1
    NoProc = NoProc
INVARIANTS
    InferenceJustified
PROPERTIES
    MatricesComplete
    ResumesToTheEnd
\* A finished matrix, a refused or exhausted resume.
CHECK_DEADLOCK FALSE
