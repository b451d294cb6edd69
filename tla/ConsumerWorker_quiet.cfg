SPECIFICATION FairSpec
CONSTANTS
    BatchSize = 2
    Tables <- ProbeTables
    Rows <- ProbeRows
    Poison = {}
    MaxMsgs = 3
    MaxStarts = 1
    MaxDrops = 0
    Faults = {}
PROPERTIES ReadIsInserted
CHECK_DEADLOCK FALSE
