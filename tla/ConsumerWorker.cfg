SPECIFICATION FairSpec
CONSTANTS
    BatchSize = 2
    Tables <- AgentTables
    Rows <- AgentRows
    Poison = {2}
    MaxMsgs = 4
    MaxStarts = 2
    MaxDrops = 1
    Faults = {"crash", "rebalance", "fetch", "prepare", "send"}
INVARIANTS TypeOK LossBounded OneInsertPerStart
PROPERTIES NeverStuck TickFlushes
CHECK_DEADLOCK FALSE
