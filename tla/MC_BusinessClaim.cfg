SPECIFICATION Spec
CONSTANTS
    Businesses = {b1, b2}
    Mobiles = {m1, m2}
    Offers = {o1}
    Claims = {k1, k2}
    Handlers = {h1, h2}
    MaxOtpAttempts = 1
    None = None
CHECK_DEADLOCK FALSE
CONSTRAINTS OneExpires FewGuesses OneEnd OneCode
SYMMETRY Symmetry
INVARIANTS
    OwnerWasApproved
    AttemptsBounded
    CompletedOwns
PROPERTIES
    RegisterSpec
