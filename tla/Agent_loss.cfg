SPECIFICATION Spec
CONSTANTS
    MaxSamples = 3
    MaxEntries = 2000
    LongSamples = {}
    Faults = {}
INVARIANTS NoLossDuringOutage
