SPECIFICATION Spec
CONSTANTS
    u1 = u1
    u2 = u2
    f1 = f1
    s1 = s1
    s2 = s2
    w1 = w1
    w2 = w2
    Configured = Configured
    Lost = Lost
    Unsigned = Unsigned
    NoUser = NoUser
    NoFlow = NoFlow
    Users = {u1, u2}
    Flows = {f1}
    Workers = {w1, w2}
    Slots = {s1, s2}
    TrustLevels = {5, 10}
    AdminLevel = 10
    MaxLogins = 2
SYMMETRY Symmetry
CONSTRAINT OneLoginWithoutSecret
INVARIANTS
    TypeOK
    OneIdentityPerCookie
    ServedTrustWasGiven
    LinkedByStarter
    NoResurrection
PROPERTIES
    LoginKept
CHECK_DEADLOCK FALSE
