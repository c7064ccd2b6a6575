----------------------------- MODULE LeadUnlock -----------------------------
(***************************************************************************)
(* A merchant unlocks a lead's contact details.  One request runs          *)
(* LeadService.unlockLead from its first read to its transaction; every    *)
(* await of the handler, and of the entitlement engine it calls, is the    *)
(* border between two actions, so requests interleave there with each      *)
(* other, with the administrator and with the calendar.  A request runs    *)
(* once; a crash of the server loses the requests under way.               *)
(***************************************************************************)
EXTENDS Entitlement

CONSTANTS
    Leads,
    Owner,        \* lead -> the business it belongs to (shop_id)
    Requests,     \* the unlock requests of a behaviour
    MaxInFlight,  \* bound: requests of one business under way together
    MaxLimit,     \* the largest monthly quota among Forms
    NotRead       \* a local variable the handler has not assigned

ASSUME UnlockAssumption ==
    /\ Owner \in [Leads -> Businesses]
    /\ IsFiniteSet(Requests)
    /\ MaxInFlight \in Nat \ {0}
    /\ MaxLimit \in Nat \ {0}
    /\ \A f \in Forms : f.rule = "MONTHLY_QUOTA" => f.limit <= MaxLimit
    /\ NotRead \notin Forms

VARIABLES
    unlockedAt,  \* Lead.unlocked_at
    revealed,    \* <<business, lead>>: contact details handed out
    pc,          \* the await each request stands at
    caller,      \* the business each request speaks for
    target,      \* the lead each request names
    cands,       \* the policy rows it has read
    policy,      \* the policy it has resolved
    asOf,        \* the engine's "now" of its last query
    granted,     \* the unexpired grants it has read
    spent        \* the credit-charged unlocks it has counted

locals == <<cands, policy, asOf, granted, spent>>
dbVars == <<unlockedAt, audits, revealed>>
requestVars == <<pc, caller, target, locals>>
vars == <<engineVars, dbVars, requestVars>>

Running == {"policies", "business", "quota", "credits", "commit"}
Ended == {"opened", "refused", "lost"}

Audit == [req : Requests, lead : Leads, business : Businesses, rule : Rules, month : Month]

TypeOK ==
    /\ EngineTypeOK
    /\ unlockedAt \in [Leads -> Month \cup {NoDate}]
    /\ audits \subseteq Audit
    /\ revealed \subseteq Businesses \X Leads
    /\ pc \in [Requests -> {"new"} \cup Running \cup Ended]
    /\ caller \in [Requests -> Businesses]
    /\ target \in [Requests -> Leads]
    /\ DOMAIN cands = Requests
    /\ \A r \in Requests : \A i \in DOMAIN cands[r] : cands[r][i] \in Forms
    /\ policy \in [Requests -> {NotRead} \cup Forms]
    /\ asOf \in [Requests -> Month \cup {NoDate}]
    /\ granted \in [Requests -> {NotRead} \cup SUBSET Grant]
    /\ spent \in [Requests -> {NotRead} \cup Nat]

Init ==
    /\ EngineInit
    /\ unlockedAt = [l \in Leads |-> NoDate]
    /\ audits = {}
    /\ revealed = {}
    /\ pc = [r \in Requests |-> "new"]
    /\ caller \in [Requests -> Businesses]
    /\ target \in [Requests -> Leads]
    /\ cands = [r \in Requests |-> <<>>]
    /\ policy = [r \in Requests |-> NotRead]
    /\ asOf = [r \in Requests |-> NoDate]
    /\ granted = [r \in Requests |-> NotRead]
    /\ spent = [r \in Requests |-> NotRead]

-----------------------------------------------------------------------------
(* The shape of a handler *)

InFlight(b) == {r \in Requests : caller[r] = b /\ pc[r] \in Running}

Goto(r, where) == pc' = [pc EXCEPT ![r] = where]

\* The handler returns or throws: its locals are gone.
Finish(r, outcome) ==
    /\ Goto(r, outcome)
    /\ cands' = [cands EXCEPT ![r] = <<>>]
    /\ policy' = [policy EXCEPT ![r] = NotRead]
    /\ asOf' = [asOf EXCEPT ![r] = NoDate]
    /\ granted' = [granted EXCEPT ![r] = NotRead]
    /\ spent' = [spent EXCEPT ![r] = NotRead]

\* maskLead: contact details leave the server only for an unlocked lead.
Reveal(b, l) == revealed' = revealed \cup {<<b, l>>}

-----------------------------------------------------------------------------
(* LeadService.unlockLead *)

Owns(r) == Owner[target[r]] = caller[r]
Unlocked(l) == unlockedAt[l] # NoDate

NeverOpen(r) == FALSE
AlreadyOpen(r) == Unlocked(target[r])

\* The first read: refuse a stranger, return a lead that is open already,
\* or go on to ask the engine.
ReadLead(r) ==
    /\ pc[r] = "new"
    /\ Cardinality(InFlight(caller[r])) < MaxInFlight
    /\ \/ /\ ~Owns(r)
          /\ Finish(r, "refused")
          /\ UNCHANGED revealed
       \/ /\ Owns(r) /\ AlreadyOpen(r)
          /\ Finish(r, "opened")
          /\ Reveal(caller[r], target[r])
       \/ /\ Owns(r) /\ ~AlreadyOpen(r)
          /\ Goto(r, "policies")
          /\ asOf' = [asOf EXCEPT ![r] = month]
          /\ UNCHANGED <<revealed, cands, policy, granted, spent>>
    /\ UNCHANGED <<engineVars, unlockedAt, audits, caller, target>>

\* The rules that can end in an unlock, and what each still has to read.
Unlocking == {"UNLIMITED", "MONTHLY_QUOTA", "CREDITS"}
NextRead(rule) ==
    CASE rule = "UNLIMITED" -> "commit"
      [] rule = "MONTHLY_QUOTA" -> "quota"
      [] rule = "CREDITS" -> "credits"

\* The verdict of a resolved policy, or the query it starts.  No policy, a
\* blocking one and an unknown rule all refuse.
Judge(r, found) ==
    \/ /\ \A f \in found : f.rule \notin Unlocking
       /\ Finish(r, "refused")
    \/ \E f \in found :
          /\ f.rule \in Unlocking
          /\ Goto(r, NextRead(f.rule))
          /\ policy' = [policy EXCEPT ![r] = f]
          /\ asOf' = [asOf EXCEPT ![r] = month]
          /\ cands' = [cands EXCEPT ![r] = <<>>]
          /\ UNCHANGED <<granted, spent>>

\* resolvePolicy's first query; the second is skipped when no candidate
\* asks whether the business is verified.
ReadPolicies(r) ==
    /\ pc[r] = "policies"
    /\ LET found == Candidates(asOf[r]) IN
       \/ /\ ~NeedsBusiness(found)
          /\ Judge(r, InForce(found, caller[r], {}))
       \/ /\ NeedsBusiness(found)
          /\ Goto(r, "business")
          /\ cands' = [cands EXCEPT ![r] = found]
          /\ UNCHANGED <<policy, asOf, granted, spent>>
    /\ UNCHANGED <<engineVars, dbVars, caller, target>>

ReadBusiness(r) ==
    /\ pc[r] = "business"
    /\ Judge(r, InForce(cands[r], caller[r], approved))
    /\ UNCHANGED <<engineVars, dbVars, caller, target>>

Allow(r) ==
    /\ Goto(r, "commit")
    /\ granted' = [granted EXCEPT ![r] = NotRead]
    /\ spent' = [spent EXCEPT ![r] = NotRead]
    /\ UNCHANGED <<cands, policy, asOf>>

CountQuota(r) ==
    /\ pc[r] = "quota"
    /\ LET used == Cardinality(QuotaUsedSince(caller[r], asOf[r])) IN
       \/ used < policy[r].limit /\ Allow(r)
       \/ used >= policy[r].limit /\ Finish(r, "refused")
    /\ UNCHANGED <<engineVars, dbVars, caller, target>>

\* creditBalance runs its two queries together: either may be answered first.
ReadGrants(r) ==
    /\ pc[r] = "credits" /\ granted[r] = NotRead
    /\ granted' = [granted EXCEPT ![r] = UnexpiredGrants(caller[r], asOf[r])]
    /\ UNCHANGED <<engineVars, dbVars, pc, caller, target, cands, policy, asOf, spent>>

CountSpent(r) ==
    /\ pc[r] = "credits" /\ spent[r] = NotRead
    /\ spent' = [spent EXCEPT ![r] = Cardinality(Spent(caller[r]))]
    /\ UNCHANGED <<engineVars, dbVars, pc, caller, target, cands, policy, asOf, granted>>

JudgeBalance(r) ==
    /\ pc[r] = "credits" /\ granted[r] # NotRead /\ spent[r] # NotRead
    /\ \/ HasBalance(granted[r], spent[r]) /\ Allow(r)
       \/ ~HasBalance(granted[r], spent[r]) /\ Finish(r, "refused")
    /\ UNCHANGED <<engineVars, dbVars, caller, target>>

\* Two ways to get the audit row wrong: the decision's reason in the place
\* of the policy's rule, and one row per lead, first or last, in place of one per unlock.
RowWithReason(r) ==
    [req |-> r, lead |-> target[r], business |-> caller[r], rule |-> "WITHIN_QUOTA", month |-> month]

AuditRow(r) ==
    [req |-> r, lead |-> target[r], business |-> caller[r], rule |-> policy[r].rule, month |-> month]

WriteFirstAudit(r) ==
    audits' = IF \E a \in audits : a.lead = target[r] THEN audits ELSE audits \cup {AuditRow(r)}

UpsertAudit(r) == audits' = {a \in audits : a.lead # target[r]} \cup {AuditRow(r)}

WriteAudit(r) == audits' = audits \cup {AuditRow(r)}

\* The transaction: the lead opens and its audit row is written, with no
\* second look at either.
Commit(r) ==
    /\ pc[r] = "commit"
    /\ unlockedAt' = [unlockedAt EXCEPT ![target[r]] = month]
    /\ WriteAudit(r)
    /\ Reveal(caller[r], target[r])
    /\ Finish(r, "opened")
    /\ UNCHANGED <<engineVars, caller, target>>

-----------------------------------------------------------------------------
(* Around the handler *)

ShowAlways(l) == TRUE
ShowUnmasked(l) == Unlocked(l)

\* LeadService.getLead by the lead's owner; a locked lead comes back masked.
GetLead(b, l) ==
    /\ Owner[l] = b
    /\ ShowUnmasked(l)
    /\ Reveal(b, l)
    /\ UNCHANGED <<engineVars, unlockedAt, audits, requestVars>>

\* The server dies: what was under way is lost, what was committed stays.
Crash ==
    /\ \E r \in Requests : pc[r] \in Running
    /\ pc' = [r \in Requests |-> IF pc[r] \in Running THEN "lost" ELSE pc[r]]
    /\ cands' = [r \in Requests |-> <<>>]
    /\ policy' = [r \in Requests |-> NotRead]
    /\ asOf' = [r \in Requests |-> NoDate]
    /\ granted' = [r \in Requests |-> NotRead]
    /\ spent' = [r \in Requests |-> NotRead]
    /\ UNCHANGED <<engineVars, dbVars, caller, target>>

Handle(r) ==
    \/ ReadLead(r) \/ ReadPolicies(r) \/ ReadBusiness(r) \/ CountQuota(r)
    \/ ReadGrants(r) \/ CountSpent(r) \/ JudgeBalance(r) \/ Commit(r)

Next ==
    \/ \E r \in Requests : Handle(r)
    \/ \E b \in Businesses, l \in Leads : GetLead(b, l)
    \/ Administer /\ UNCHANGED <<dbVars, requestVars>>
    \/ Crash

Spec == Init /\ [][Next]_vars

-----------------------------------------------------------------------------
(* Properties *)

\* A lead is open exactly when an audit row accounts for it, every row is
\* charged to the lead's owner, and unlocked_at is the month of the latest
\* row: the pair lead.update and leadUnlockAudit.create of unlockLead.
AuditTrail ==
    \A l \in Leads :
        LET rows == {a \in audits : a.lead = l} IN
        /\ Unlocked(l) <=> rows # {}
        /\ \A a \in rows : a.business = Owner[l] /\ a.month <= unlockedAt[l]
        /\ rows # {} => \E a \in rows : a.month = unlockedAt[l]

\* Contact details reach nobody but a business with an audit row for the
\* lead, over unlockLead and getLead alike (maskLead, the ownership checks).
RevealedOnlyWhenPaid ==
    \A p \in revealed : \E a \in audits : a.business = p[1] /\ a.lead = p[2]

\* A lead is charged at most once for each request its owner can have under
\* way: requests past the unlocked_at check of unlockLead are the only ones
\* that can still charge it.
ChargesBounded ==
    \A l \in Leads : Cardinality({a \in audits : a.lead = l}) <= MaxInFlight

\* The quota is exceeded in no month by more than the requests that passed
\* countUnlocksThisMonth together, also when administrators edit policies
\* and months turn between the count and the transaction.
QuotaOvershootBounded ==
    \A b \in Businesses, m \in Month :
        Cardinality({a \in audits : a.business = b /\ a.rule = "MONTHLY_QUOTA" /\ a.month = m})
            <= MaxLimit + MaxInFlight - 1

\* No business opens more leads on credit than it was ever granted, but for
\* the requests that read the balance together (creditBalance).
CreditsNotOversold ==
    \A b \in Businesses :
        Spent(b) # {} =>
        Cardinality(Spent(b)) <= SumCredits({g \in grants : g.business = b /\ g.credits > 0})
                                   + MaxInFlight - 1

\* The implementation of the ledger: every step of a handler, the engine or
\* the calendar is an opening with its entry, or leaves both alone.
Ledger == INSTANCE UnlockLedger WITH opened <- {l \in Leads : Unlocked(l)}, ledger <- audits
LedgerSpec == Ledger!Spec

\* unlockLead's comment on the unlocked_at check: "re-opening a lead the
\* merchant has already paid for must never cost them twice".
PaidOnce == \A l \in Leads : Cardinality({a \in audits : a.lead = l}) <= 1
=============================================================================
