SPECIFICATION FairSpec
CONSTANTS
    s1 = s1
    s2 = s2
    u1 = u1
    v1 = v1
    v2 = v2
    t1 = t1
    t2 = t2
    t3 = t3
    Nobody = Nobody
    Blank = Blank
    Ragged = Ragged
    Nested = Nested
    Slots = {s1, s2}
    Workers = 1
    Users = {u1}
    Values = {v1, v2}
    Tokens = {t1, t2, t3}
    Tidy = v2
    MaxRequests = 2
    MaxElsewhere = 1
    Originals <- MCOriginals
INVARIANTS
    TypeOK
    ClicksHold
PROPERTIES
    ChangesWereAsked
    
    EveryClickAnswered
CHECK_DEADLOCK FALSE
