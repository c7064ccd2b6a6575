----------------------------- MODULE Entitlement -----------------------------
(***************************************************************************)
(* The entitlement engine: the policies an administrator keeps, the        *)
(* credits granted to a business and the audit trail of lead unlocks, with *)
(* the decision the engine derives from them.  Tables are variables, one   *)
(* action per administrative operation.  LeadUnlock composes this module   *)
(* with the requests that ask for a decision and act on it.                *)
(*                                                                         *)
(* Time is the calendar month: policy windows and credit expiry fall on    *)
(* month boundaries.  A policy's id is its place in creation order, so the *)
(* created_at tie-break is a comparison of ids.                            *)
(***************************************************************************)
EXTENDS Integers, Sequences, FiniteSets

CONSTANTS
    Businesses,
    Forms,          \* what an administrator may submit as a policy
    CreditAmounts,  \* the credits a grant may carry, negative ones included
    Deleted,        \* the place of a deleted policy
    MaxPolicies,    \* bound: policies ever created
    MaxGrants,      \* bound: grants ever made
    MaxMonth        \* bound: the last month of a behaviour

NoDate == 0
Month == 1 .. MaxMonth
Rules == {"UNLIMITED", "MONTHLY_QUOTA", "CREDITS", "BLOCKED"}

Form == [rule : Rules, limit : Nat, priority : Int, eligible : SUBSET Businesses,
         verifiedOnly : BOOLEAN, active : BOOLEAN,
         from : Month \cup {NoDate}, until : Month \cup {NoDate}]

ASSUME EntitlementAssumption ==
    /\ MaxPolicies \in Nat
    /\ MaxGrants \in Nat
    /\ MaxMonth \in Nat \ {0}
    /\ CreditAmounts \subseteq Int
    /\ Forms \subseteq Form
    /\ Deleted \notin Forms

VARIABLES
    month,     \* the server's clock
    policies,  \* EntitlementPolicy, in creation order
    grants,    \* EntitlementGrant
    approved,  \* the businesses whose verification_status is APPROVED
    audits     \* LeadUnlockAudit

engineVars == <<month, policies, grants, approved>>

Grant == [id : Nat, business : Businesses, credits : Int, expires : Month \cup {NoDate}]

EngineTypeOK ==
    /\ month \in Month
    /\ policies \in Seq(Forms \cup {Deleted})
    /\ grants \subseteq Grant
    /\ approved \subseteq Businesses

EngineInit ==
    /\ month = 1
    /\ policies = <<>>
    /\ grants = {}
    /\ approved \in SUBSET Businesses

-----------------------------------------------------------------------------
(* Resolving the policy in force *)

InWindow(f, m) ==
    /\ f.from = NoDate \/ f.from <= m
    /\ f.until = NoDate \/ f.until > m

Stored(i) == policies[i] # Deleted

\* The rows the policy query returns: active and inside their window.
CandidateIds(m) ==
    {i \in DOMAIN policies : Stored(i) /\ policies[i].active /\ InWindow(policies[i], m)}
Candidates(m) == [i \in CandidateIds(m) |-> policies[i]]

NeedsBusiness(cands) == \E i \in DOMAIN cands : cands[i].verifiedOnly

\* A missing allow-list is the list of all businesses.
MatchesEligibility(f, b, known) ==
    /\ b \in f.eligible
    /\ f.verifiedOnly => b \in known

\* The query's order: highest priority first, the newest of equals first.
Before(cands, i, j) ==
    \/ cands[i].priority > cands[j].priority
    \/ cands[i].priority = cands[j].priority /\ i >= j

\* The policies the ordered scan stops at: one, or none when nothing matches.
InForce(cands, b, known) ==
    LET matching == {i \in DOMAIN cands : MatchesEligibility(cands[i], b, known)}
    IN  {cands[i] : i \in {j \in matching : \A k \in matching : Before(cands, j, k)}}

-----------------------------------------------------------------------------
(* What has been used and what is left.  QuotaUsedAfter and                *)
(* BalanceNotNegative are the near misses the checks are mutated with.     *)

QuotaUsedAfter(b, m) ==
    {a \in audits : a.business = b /\ a.month > m /\ a.rule = "MONTHLY_QUOTA"}

QuotaUsedSince(b, m) ==
    {a \in audits : a.business = b /\ a.month >= m /\ a.rule = "MONTHLY_QUOTA"}

Spent(b) == {a \in audits : a.business = b /\ a.rule = "CREDITS"}

UnexpiredGrants(b, m) ==
    {g \in grants : g.business = b /\ (g.expires = NoDate \/ g.expires > m)}

\* A sum of credits as a count of credit units, those of the grants less
\* those of the grants that take credit back.
Credited(G) == UNION {{g} \X (1 .. g.credits) : g \in G}
Debited(G) == UNION {{g} \X (1 .. -g.credits) : g \in G}

SumCredits(G) == Cardinality(Credited(G)) - Cardinality(Debited(G))

BalanceNotNegative(G, used) == SumCredits(G) - used >= 0

HasBalance(G, used) == SumCredits(G) - used > 0

-----------------------------------------------------------------------------
(* Administration *)

Valid(f) ==
    /\ f.rule = "MONTHLY_QUOTA" => f.limit > 0
    /\ f.from # NoDate /\ f.until # NoDate => f.until > f.from

CreatePolicy(f) ==
    /\ Valid(f)
    /\ Len(policies) < MaxPolicies
    /\ policies' = Append(policies, f)
    /\ UNCHANGED <<month, grants, approved>>

UpdatePolicy(i, f) ==
    /\ Stored(i)
    /\ Valid(f)
    /\ policies' = [policies EXCEPT ![i] = f]
    /\ UNCHANGED <<month, grants, approved>>

DeletePolicy(i) ==
    /\ Stored(i)
    /\ policies' = [policies EXCEPT ![i] = Deleted]
    /\ UNCHANGED <<month, grants, approved>>

GrantCredits(b, credits, expires) ==
    /\ credits # 0
    /\ Cardinality(grants) < MaxGrants
    /\ grants' = grants \cup {[id |-> Cardinality(grants) + 1, business |-> b,
                               credits |-> credits, expires |-> expires]}
    /\ UNCHANGED <<month, policies, approved>>

\* An administrator's verdict on a business: approval or its withdrawal.
VerifyBusiness(b) ==
    /\ approved' \in {approved \cup {b}, approved \ {b}}
    /\ UNCHANGED <<month, policies, grants>>

NextMonth ==
    /\ month < MaxMonth
    /\ month' = month + 1
    /\ UNCHANGED <<policies, grants, approved>>

Administer ==
    \/ \E f \in Forms : CreatePolicy(f)
    \/ \E i \in DOMAIN policies, f \in Forms : UpdatePolicy(i, f)
    \/ \E i \in DOMAIN policies : DeletePolicy(i)
    \/ \E b \in Businesses, c \in CreditAmounts, e \in Month \cup {NoDate} : GrantCredits(b, c, e)
    \/ \E b \in Businesses : VerifyBusiness(b)
    \/ NextMonth
=============================================================================
