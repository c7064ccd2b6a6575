SPECIFICATION LifeSpec
CONSTANTS
    Edits = {e1, e2}
    Forms <- MCForms
    Creator = Creator
    Sweep = Sweep
    Absent = Absent
    NewRequired = 2
    NewEnd = 1
    MaxDay = 2
    MaxCrashes = 1
CHECK_DEADLOCK FALSE
INVARIANTS
    VersionNumbers
    ExpiryOnRecord
PROPERTIES
    EventuallyOffSale
