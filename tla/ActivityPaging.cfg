SPECIFICATION Spec
CONSTANTS
    u1 = u1
    u2 = u2
    Users = {u1, u2}
    Self = u1
    CanFilter = TRUE
    PageSize = 2
    MaxId = 5
    MaxUrls = 4
INVARIANTS
    TypeOK
    NothingSkipped
    EndMeansAll
PROPERTIES
    PagesSpec
CHECK_DEADLOCK FALSE
