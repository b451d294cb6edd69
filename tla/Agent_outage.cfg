SPECIFICATION FairSpec
CONSTANTS
    MaxSamples = 5
    MaxEntries = 10
    LongSamples = {}
    Faults = {"truncate"}
INVARIANTS TypeOK
PROPERTIES ReplayedInOrder OldestIsKept ReplayedAfterOutage
