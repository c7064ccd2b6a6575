SPECIFICATION Spec
CONSTANTS
    m1 = m1
    m2 = m2
    None = None
    Rows = {k1}
    Businesses = {b1}
    Offers = {o1}
    Mobiles = {m1, m2}
    Handlers = {h1}
    Contents <- MCContents
    MaxCrashes = 0
    MaxCalls = 4
CHECK_DEADLOCK FALSE
INVARIANTS
    RejectedStays
