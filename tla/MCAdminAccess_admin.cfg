SPECIFICATION Spec
CONSTANTS
    Callers = {r1, r2}
    Passwords = {p1, p2}
    MaxTokens = 3
    MaxAdmins = 2
    MaxVersion = 1
    MaxLines = 2
    NoAdmin = NoAdmin
    Absent = Absent
    r1 = r1
    r2 = r2
    p1 = p1
    p2 = p2
INVARIANTS
    TypeOK
    ImportAtomic
    SessionsCurrent
PROPERTIES
    NewestToken
    OnlyResetClears
    ChangeHitsVerified
SYMMETRY Symmetric
CHECK_DEADLOCK FALSE
