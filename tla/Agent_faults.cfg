SPECIFICATION Spec
CONSTANTS
    MaxSamples = 5
    MaxEntries = 2
    LongSamples = {2}
    Faults = {"mkdir", "crash", "append", "torn", "open"}
INVARIANTS AckedNeverHeld OutageKeepsTwo
PROPERTIES OverflowDropsOldest DeliversOnce
