SPECIFICATION FairSpec
CONSTANTS
    r1 = r1
    r2 = r2
    Rules <- MCRules
    Configs <- MCConfigs
    NoRule = NoRule
    Values <- MCValues
    Threshold = 1
    MaxWindow = 2
    MaxChanges = 4
    MaxFaults = 2
    Faults = {"crash", "rules", "query", "lookup", "write", "answer", "stall", "send", "hang"}
INVARIANTS TypeOK OneOpenIncident NotifiedOnce SilentOnlyByFault
PROPERTIES ActsOnEvidence QuietOnceDisabled IncidentFollows
CHECK_DEADLOCK FALSE
