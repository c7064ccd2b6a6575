SPECIFICATION Spec
CONSTANTS
    b1 = b1
    b2 = b2
    l1 = l1
    l2 = l2
    Businesses <- MCBusinesses
    Leads <- MCLeads
    Owner <- MCOwner
    Forms <- MCForms
    CreditAmounts <- MCCreditAmounts
    Requests = {q1, q2, q3}
    Deleted = Deleted
    NotRead = NotRead
    MaxPolicies = 1
    MaxGrants = 1
    MaxMonth = 2
    MaxInFlight = 2
    MaxLimit = 1
CONSTRAINT StrangerIdle
SYMMETRY Symmetry
INVARIANTS
    TypeOK
    AuditTrail
    RevealedOnlyWhenPaid
    ChargesBounded
    QuotaOvershootBounded
    CreditsNotOversold
PROPERTIES
    LedgerSpec
