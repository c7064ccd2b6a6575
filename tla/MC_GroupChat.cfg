SPECIFICATION Spec
CONSTANTS
    Offers = {o1, o2}
    Customers = {c1, c2}
    Options = {x1, x2}
    Handlers = {h1, h2}
    MEMBER_NUMBER_START = 100
    MaxMessages = 2
    MaxEndings = 1
    None = None
CHECK_DEADLOCK FALSE
CONSTRAINTS TwoInterests OneBallot
SYMMETRY Symmetry
INVARIANTS
    TypeOK
    RacedRowFound
    SpokenAsNumbered
    AnnouncedOnce
    BallotsInGroup
    LateBounded
