SPECIFICATION PipelineFairSpec
CONSTANTS
    MaxHosts = 1
    MaxSamples = 2
    MaxRequests = 2
    MaxUrls = 0
    MaxRounds = 0
    Requests = {r1}
    Partitions = 1
    BatchSize = 1
    MaxFaults = 1
    ConsumerBatch = 2
    MaxStarts = 2
    Tables = {1}
    MaxDrops = 1
    ConsumerFaults = {"send"}
INVARIANTS EndToEndLoss EndToEndCopies
CHECK_DEADLOCK FALSE
PROPERTIES AckedIsRead
