SPECIFICATION Spec
CONSTANTS
    m1 = m1
    m2 = m2
    None = None
    Rows = {k1}
    Businesses = {b1, b2}
    Offers = {o1, o2}
    Mobiles = {m1, m2}
    Handlers = {h1, h2}
    Contents <- MCContents
    MaxCrashes = 1
    MaxCalls = 4
CHECK_DEADLOCK FALSE
SYMMETRY Symmetry
INVARIANTS
    TypeOK
    OnceUnlessOverlap
    PublishedWentLive
    LiveWasApproved
