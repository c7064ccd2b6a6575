---------------------------- MODULE MC_LeadUnlock ----------------------------
(***************************************************************************)
(* One merchant with two leads and a stranger, three unlock requests, two  *)
(* of a business at a time.  The forms cover every rule, an allow-list, a  *)
(* verified-only campaign with an end, and a quota no validation accepts.  *)
(***************************************************************************)
EXTENDS LeadUnlock, FiniteSetsExt, TLC

CONSTANTS b1, b2, l1, l2

MCBusinesses == {b1, b2}
MCLeads == {l1, l2}
MCOwner == [l \in MCLeads |-> b1]

Policy(rule, limit, priority) ==
    [rule |-> rule, limit |-> limit, priority |-> priority, eligible |-> MCBusinesses,
     verifiedOnly |-> FALSE, active |-> TRUE, from |-> NoDate, until |-> NoDate]

Quota == Policy("MONTHLY_QUOTA", 1, 0)
EmptyQuota == Policy("MONTHLY_QUOTA", 0, 0)
Campaign == [Policy("UNLIMITED", 0, 5) EXCEPT !.verifiedOnly = TRUE, !.until = 2]
Credits == [Policy("CREDITS", 0, 1) EXCEPT !.eligible = {b1}]
Blocked == [Policy("BLOCKED", 0, 9) EXCEPT !.from = 2]

MCForms == {Quota, EmptyQuota, Campaign, Credits, Blocked}
MCCreditAmounts == {0, 1}

\* The stranger is there to be refused: its approval and credits decide nothing.
StrangerIdle == approved \subseteq {b1} /\ \A g \in grants : g.business = b1

\* Counting credit units comes to the sum the database takes over the
\* column, also when corrections take more than was granted.
ASSUME UnitsMakeTheSum ==
    \A G \in SUBSET [id : 1 .. 2, business : {b1}, credits : {-2, -1, 1, 3}, expires : {NoDate}] :
        SumCredits(G) = MapThenSumSet(LAMBDA g : g.credits, G)

Symmetry == Permutations(Requests) \cup Permutations(MCLeads)
=============================================================================
