SPECIFICATION Spec
CONSTANTS
    s1 = s1
    s2 = s2
    Blank = Blank
    Slots = {s1, s2}
    Values = {0, 1}
    MaxRequests = 2
    Original <- MCOriginal
SYMMETRY Symmetry
CONSTRAINT FewChanges
INVARIANTS
    TypeOK
    SilentMeansStored
PROPERTIES
    UndoneOnlyByOverlap
CHECK_DEADLOCK FALSE
