SPECIFICATION Spec
CONSTANTS
    text = text
    ble = ble
    r1 = r1
    NoRef = NoRef
    Types = {text, ble}
    Refs = {r1}
    NewRows = 2
    Stored = 1
    MaxId = 3
    MaxEdits = 3
    MaxSends = 2
INVARIANTS
    SavedAsShown
CHECK_DEADLOCK FALSE
