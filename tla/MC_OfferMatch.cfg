SPECIFICATION Spec
CONSTANTS
    Edits = {e1}
    Forms <- MCForms
    Creator = Creator
    Sweep = Sweep
    Absent = Absent
    None = None
    NewRequired = 2
    NewEnd = 1
    MaxDay = 1
    MaxCrashes = 1
    Customers = {c1, c2, c3}
    Requests = {q1, q2, q3}
    Legacy = TRUE
    InterestUpdates <- MCInterestUpdates
    MaxInFlight = 2
CHECK_DEADLOCK FALSE
CONSTRAINT Bounded
SYMMETRY Symmetry
INVARIANTS
    TypeOK
    NoEarlyClose
    LeadInPool
    NothingLeftBehind
    ReadyTogether
    FullPoolCloses
