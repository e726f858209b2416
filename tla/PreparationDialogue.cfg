SPECIFICATION FairSpec
CONSTANTS
    MaxLaunches = 2
    MaxAsks = 2
    MaxFaults = 1
INVARIANTS
    NoChildLost
    EachReachesItsOwn
PROPERTIES
    WaitsEnd
\* The last launch ends.
CHECK_DEADLOCK FALSE
