SPECIFICATION Spec
CONSTANTS
    MaxHosts = 1
    MaxSamples = 2
    MaxRequests = 3
    MaxUrls = 2
    MaxRounds = 1
    Requests = {r1, r2}
    Partitions = 2
    BatchSize = 2
    MaxFaults = 2
SYMMETRY Symmetry
INVARIANTS TypeOK MissingBounded AnsweredIsStored PartsFollowMain CopiesBounded OrderPerHost
CHECK_DEADLOCK FALSE
