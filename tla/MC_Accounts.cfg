SPECIFICATION Spec
CONSTANTS
    None = None
    Mobiles = {m1, m2}
    m1 = m1
    m2 = m2
    Emails = {e1}
    DefaultEmail = e1
    Plans = {basic, premium}
    Basic = basic
    Period = 1
    Handlers = {h1, h2}
    MaxAccounts = 3
    MaxSubscriptions = 3
    MaxTime = 1
    MaxCrashes = 1
CHECK_DEADLOCK FALSE
CONSTRAINTS SubscriptionsOnly SignUpsOnly
SYMMETRY Symmetry
INVARIANTS
    TrialStands
    CurrentIsLatest
    RenewalFollowsOn
PROPERTIES
    LinkMovesForward
