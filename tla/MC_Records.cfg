SPECIFICATION Spec
CONSTANTS
    None = None
    Businesses = {b1}
    Users = {u1}
    Handlers = {h1, h2}
    MaxFiles = 3
    MaxTickets = 1
    MaxMessages = 3
CHECK_DEADLOCK FALSE
CONSTRAINT OneKind
SYMMETRY Symmetry
INVARIANTS
    GalleryKept
    RepliesKept
