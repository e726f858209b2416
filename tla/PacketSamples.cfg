SPECIFICATION PacketSpec
CONSTANTS
    Groups = 1
    PerWindow = 2
    MaxNoise = 1
INVARIANT SamplesAreTheirRequests
\* The merge ends.
CHECK_DEADLOCK FALSE
