SPECIFICATION Spec
CONSTANTS
    m1 = m1
    m2 = m2
    m3 = m3
    None = None
    Mobiles = {m1, m2, m3}
    Businesses = {b1}
    Registered <- MCRegistered
    ShortCodes = {s1, s2}
    LongCodes = {l1}
    Handlers = {h1, h2}
    MaxOtpAttempts = 1
    MaxRows = 2
    MaxCrashes = 1
CHECK_DEADLOCK FALSE
CONSTRAINTS CrashEarly OneExpires
SYMMETRY Symmetry
INVARIANTS
    TypeOK
    CodeSpentOnce
    LockoutHolds
    VerifiedWasProved
