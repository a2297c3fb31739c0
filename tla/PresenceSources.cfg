SPECIFICATION Spec
CONSTANTS
    text = text
    ble = ble
    r1 = r1
    NoRef = NoRef
    Types = {text, ble}
    Refs = {r1}
    NewRows = 2
    Stored = 2
    MaxId = 4
    MaxEdits = 3
    MaxSends = 2
INVARIANTS
    TypeOK
    SavedInPlace
    OnePerSending
PROPERTIES
    RowsKeepTheirSource
CHECK_DEADLOCK FALSE
