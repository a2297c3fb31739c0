SPECIFICATION FairSpec
CONSTANTS
    Absent = Absent
    Torn = Torn
    Setups = {"default", "own"}
    MaxCrashes = 4
    MaxStops = 2
INVARIANTS
    TypeOK
    TrustedStaysServed
    OnlyTornCertBreaks
    OwnFilesUsed
PROPERTIES
    ComesUp
CHECK_DEADLOCK FALSE
