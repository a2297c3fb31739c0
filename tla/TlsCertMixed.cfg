SPECIFICATION Spec
CONSTANTS
    Absent = Absent
    Torn = Torn
    Setups = {"ownCert", "ownKey"}
    MaxCrashes = 0
    MaxStops = 0
INVARIANTS
    OwnFilesUsed
CHECK_DEADLOCK FALSE
