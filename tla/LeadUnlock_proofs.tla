------------------------- MODULE LeadUnlock_proofs -------------------------
(***************************************************************************)
(* Theorems about LeadUnlock, for every set of businesses, leads, requests *)
(* and policy forms and every bound.                                       *)
(***************************************************************************)
EXTENDS LeadUnlock, FiniteSetTheorems, TLAPS

-----------------------------------------------------------------------------
(* Type correctness *)

\* The tables hold finitely many rows, so that counting them means something.
FiniteTables == IsFiniteSet(audits) /\ IsFiniteSet(grants)

\* What a request has established by the time it stands at an await.
Phases ==
    \A r \in Requests :
        /\ pc[r] \in Running => Owns(r)
        /\ pc[r] \in {"policies", "business"} => asOf[r] \in Month /\ asOf[r] <= month
        /\ pc[r] \in {"quota", "credits", "commit"} =>
              /\ policy[r] \in Forms /\ policy[r].rule \in Unlocking
              /\ asOf[r] \in Month /\ asOf[r] <= month
        /\ pc[r] = "quota" => policy[r].rule = "MONTHLY_QUOTA"
        /\ pc[r] = "credits" => policy[r].rule = "CREDITS"

TypeInv == TypeOK /\ FiniteTables /\ Phases

LEMMA FinishTypes ==
    ASSUME TypeOK, NEW r \in Requests, NEW outcome \in Ended, Finish(r, outcome)
    PROVE  /\ pc' \in [Requests -> {"new"} \cup Running \cup Ended]
           /\ DOMAIN cands' = Requests
           /\ \A q \in Requests : \A i \in DOMAIN cands'[q] : cands'[q][i] \in Forms
           /\ policy' \in [Requests -> {NotRead} \cup Forms]
           /\ asOf' \in [Requests -> Month \cup {NoDate}]
           /\ granted' \in [Requests -> {NotRead} \cup SUBSET Grant]
           /\ spent' \in [Requests -> {NotRead} \cup Nat]
  BY DEF Finish, Goto, TypeOK, EngineTypeOK

\* The verdict of InForce is a row the query returned.
LEMMA InForceAreRows ==
    ASSUME NEW rows, NEW b, NEW known, NEW f \in InForce(rows, b, known)
    PROVE  \E i \in DOMAIN rows : f = rows[i]
  BY DEF InForce

LEMMA CandidatesAreForms ==
    ASSUME EngineTypeOK, NEW m
    PROVE  \A i \in DOMAIN Candidates(m) : Candidates(m)[i] \in Forms
  BY DEF EngineTypeOK, Candidates, CandidateIds, Stored

LEMMA JudgeTypes ==
    ASSUME TypeOK, NEW r \in Requests, NEW found, \A f \in found : f \in Forms,
           Judge(r, found)
    PROVE  /\ pc' \in [Requests -> {"new"} \cup Running \cup Ended]
           /\ DOMAIN cands' = Requests
           /\ \A q \in Requests : \A i \in DOMAIN cands'[q] : cands'[q][i] \in Forms
           /\ policy' \in [Requests -> {NotRead} \cup Forms]
           /\ asOf' \in [Requests -> Month \cup {NoDate}]
           /\ granted' \in [Requests -> {NotRead} \cup SUBSET Grant]
           /\ spent' \in [Requests -> {NotRead} \cup Nat]
  <1>1. CASE Finish(r, "refused")
    BY <1>1, FinishTypes DEF Ended
  <1>2. CASE \E f \in found :
               /\ f.rule \in Unlocking
               /\ Goto(r, NextRead(f.rule))
               /\ policy' = [policy EXCEPT ![r] = f]
               /\ asOf' = [asOf EXCEPT ![r] = month]
               /\ cands' = [cands EXCEPT ![r] = <<>>]
               /\ UNCHANGED <<granted, spent>>
    <2>1. PICK f \in found : /\ f.rule \in Unlocking
                             /\ Goto(r, NextRead(f.rule))
                             /\ policy' = [policy EXCEPT ![r] = f]
                             /\ asOf' = [asOf EXCEPT ![r] = month]
                             /\ cands' = [cands EXCEPT ![r] = <<>>]
                             /\ UNCHANGED <<granted, spent>>
      BY <1>2
    <2>2. NextRead(f.rule) \in Running
      BY <2>1 DEF NextRead, Unlocking, Running
    <2>3. QED
      BY <2>1, <2>2 DEF Goto, TypeOK, EngineTypeOK
  <1>3. QED
    BY <1>1, <1>2 DEF Judge

LEMMA TypeInit == Init => TypeInv
  BY FS_EmptySet, EntitlementAssumption, UnlockAssumption
     DEF Init, EngineInit, TypeInv, TypeOK, EngineTypeOK, FiniteTables, Phases, Running, NoDate, Month

\* Everything but the request that runs stays as it was.
LEMMA HandleFrame ==
    ASSUME TypeOK, NEW r \in Requests, Handle(r)
    PROVE  /\ UNCHANGED <<engineVars, caller, target>>
           /\ \A q \in Requests \ {r} : /\ pc'[q] = pc[q]
                                        /\ policy'[q] = policy[q]
                                        /\ asOf'[q] = asOf[q]
  BY DEF Handle, ReadLead, ReadPolicies, ReadBusiness, CountQuota, ReadGrants, CountSpent,
         JudgeBalance, Commit, Judge, Allow, Finish, Goto, TypeOK, dbVars

LEMMA NextReadPhases ==
    ASSUME NEW rule \in Unlocking
    PROVE  /\ NextRead(rule) \in {"quota", "credits", "commit"}
           /\ NextRead(rule) = "quota" <=> rule = "MONTHLY_QUOTA"
           /\ NextRead(rule) = "credits" <=> rule = "CREDITS"
  BY DEF NextRead, Unlocking

LEMMA JudgePhases ==
    ASSUME TypeInv, NEW r \in Requests, NEW found, \A f \in found : f \in Forms,
           Judge(r, found), Owns(r)
    PROVE  \/ pc'[r] = "refused"
           \/ /\ pc'[r] \in {"quota", "credits", "commit"}
              /\ policy'[r] \in Forms /\ policy'[r].rule \in Unlocking
              /\ asOf'[r] = month
              /\ pc'[r] = "quota" <=> policy'[r].rule = "MONTHLY_QUOTA"
              /\ pc'[r] = "credits" <=> policy'[r].rule = "CREDITS"
  BY NextReadPhases DEF Judge, Finish, Goto, TypeInv, TypeOK

LEMMA HandlePhases ==
    ASSUME TypeInv, NEW r \in Requests, Handle(r)
    PROVE  Phases'
  <1> DEFINE Established ==
        /\ pc'[r] \in Running => Owns(r)
        /\ pc'[r] \in {"policies", "business"} => asOf'[r] \in Month /\ asOf'[r] <= month
        /\ pc'[r] \in {"quota", "credits", "commit"} =>
              /\ policy'[r] \in Forms /\ policy'[r].rule \in Unlocking
              /\ asOf'[r] \in Month /\ asOf'[r] <= month
        /\ pc'[r] = "quota" => policy'[r].rule = "MONTHLY_QUOTA"
        /\ pc'[r] = "credits" => policy'[r].rule = "CREDITS"
  <1>1. Established
    <2> USE DEF TypeInv, Running
    <2>1. CASE ReadLead(r)
      BY <2>1 DEF ReadLead, Finish, Goto, TypeOK, EngineTypeOK, Month
    <2>2. CASE ReadPolicies(r)
      <3>1. \A f \in InForce(Candidates(asOf[r]), caller[r], {}) : f \in Forms
        BY InForceAreRows, CandidatesAreForms DEF TypeOK
      <3>2. Owns(r) /\ asOf[r] \in Month /\ asOf[r] <= month
        BY <2>2 DEF ReadPolicies, Phases
      <3>3. CASE Judge(r, InForce(Candidates(asOf[r]), caller[r], {}))
        BY <3>1, <3>2, <3>3, JudgePhases DEF TypeOK, EngineTypeOK, Month
      <3>4. CASE ~Judge(r, InForce(Candidates(asOf[r]), caller[r], {}))
        BY <2>2, <3>2, <3>4 DEF ReadPolicies, Goto, TypeOK
      <3>5. QED
        BY <3>3, <3>4
    <2>3. CASE ReadBusiness(r)
      <3>1. \A f \in InForce(cands[r], caller[r], approved) : f \in Forms
        BY InForceAreRows DEF TypeOK
      <3>2. Owns(r)
        BY <2>3 DEF ReadBusiness, Phases
      <3>3. QED
        BY <2>3, <3>1, <3>2, JudgePhases DEF ReadBusiness, TypeOK, EngineTypeOK, Month
    <2>4. CASE CountQuota(r)
      BY <2>4 DEF CountQuota, Phases, Allow, Finish, Goto, TypeOK
    <2>5. CASE ReadGrants(r) \/ CountSpent(r)
      BY <2>5 DEF ReadGrants, CountSpent, Phases, TypeOK
    <2>6. CASE JudgeBalance(r)
      BY <2>6 DEF JudgeBalance, Phases, Allow, Finish, Goto, TypeOK
    <2>7. CASE Commit(r)
      BY <2>7 DEF Commit, Finish, Goto, TypeOK
    <2>8. QED
      BY <2>1, <2>2, <2>3, <2>4, <2>5, <2>6, <2>7 DEF Handle
  <1>2. QED
    BY <1>1, HandleFrame DEF TypeInv, Phases, Owns, engineVars

LEMMA HandleTypes ==
    ASSUME TypeInv, NEW r \in Requests, Handle(r)
    PROVE  TypeOK' /\ FiniteTables'
  <1> USE DEF TypeInv
  <1>1. CASE ReadLead(r)
    <2>1. CASE Finish(r, "refused") \/ Finish(r, "opened")
      BY <1>1, <2>1, FinishTypes
         DEF ReadLead, Ended, TypeOK, EngineTypeOK, engineVars, Reveal, FiniteTables
    <2>2. CASE ~Finish(r, "refused") /\ ~Finish(r, "opened")
      BY <1>1, <2>2 DEF ReadLead, Goto, Running, TypeOK, EngineTypeOK, engineVars, FiniteTables
    <2>3. QED
      BY <2>1, <2>2
  <1>2. CASE ReadPolicies(r)
    <2>1. \A f \in InForce(Candidates(asOf[r]), caller[r], {}) : f \in Forms
      BY InForceAreRows, CandidatesAreForms DEF TypeOK
    <2>2. CASE Judge(r, InForce(Candidates(asOf[r]), caller[r], {}))
      BY <1>2, <2>1, <2>2, JudgeTypes
         DEF ReadPolicies, TypeOK, EngineTypeOK, engineVars, dbVars, FiniteTables
    <2>3. CASE ~Judge(r, InForce(Candidates(asOf[r]), caller[r], {}))
      BY <1>2, <2>3, CandidatesAreForms
         DEF ReadPolicies, Goto, Running, TypeOK, EngineTypeOK, engineVars, dbVars, FiniteTables
    <2>4. QED
      BY <2>2, <2>3
  <1>3. CASE ReadBusiness(r)
    <2>1. \A f \in InForce(cands[r], caller[r], approved) : f \in Forms
      BY InForceAreRows DEF TypeOK
    <2>2. QED
      BY <1>3, <2>1, JudgeTypes
         DEF ReadBusiness, TypeOK, EngineTypeOK, engineVars, dbVars, FiniteTables
  <1>4. CASE CountQuota(r)
    <2>1. CASE Finish(r, "refused")
      BY <1>4, <2>1, FinishTypes
         DEF CountQuota, Ended, TypeOK, EngineTypeOK, engineVars, dbVars, FiniteTables
    <2>2. CASE Allow(r)
      BY <1>4, <2>2
         DEF CountQuota, Allow, Goto, Running, TypeOK, EngineTypeOK, engineVars, dbVars, FiniteTables
    <2>3. QED
      BY <1>4, <2>1, <2>2 DEF CountQuota
  <1>5. CASE ReadGrants(r)
    BY <1>5 DEF ReadGrants, UnexpiredGrants, TypeOK, EngineTypeOK, engineVars, dbVars, FiniteTables
  <1>6. CASE CountSpent(r)
    <2>1. Cardinality(Spent(caller[r])) \in Nat
      BY FS_Subset, FS_CardinalityType DEF Spent, FiniteTables
    <2>2. QED
      BY <1>6, <2>1 DEF CountSpent, TypeOK, EngineTypeOK, engineVars, dbVars, FiniteTables
  <1>7. CASE JudgeBalance(r)
    <2>1. CASE Finish(r, "refused")
      BY <1>7, <2>1, FinishTypes
         DEF JudgeBalance, Ended, TypeOK, EngineTypeOK, engineVars, dbVars, FiniteTables
    <2>2. CASE Allow(r)
      BY <1>7, <2>2
         DEF JudgeBalance, Allow, Goto, Running, TypeOK, EngineTypeOK, engineVars, dbVars, FiniteTables
    <2>3. QED
      BY <1>7, <2>1, <2>2 DEF JudgeBalance
  <1>8. CASE Commit(r)
    <2>1. Finish(r, "opened")
      BY <1>8 DEF Commit
    <2>2. AuditRow(r) \in Audit
      BY <1>8 DEF Commit, AuditRow, Audit, Phases, TypeOK, EngineTypeOK, Unlocking, Rules
    <2>3. IsFiniteSet(audits')
      BY <1>8, FS_AddElement DEF Commit, WriteAudit, FiniteTables
    <2>4. QED
      BY <1>8, <2>1, <2>2, <2>3, FinishTypes
         DEF Commit, WriteAudit, Reveal, Ended, TypeOK, EngineTypeOK, engineVars, FiniteTables
  <1>9. QED
    BY <1>1, <1>2, <1>3, <1>4, <1>5, <1>6, <1>7, <1>8 DEF Handle

LEMMA AdministerTypes ==
    ASSUME TypeInv, Administer, UNCHANGED <<dbVars, requestVars>>
    PROVE  TypeInv'
  <1>1. month' \in Month /\ month' >= month
    <2>1. month \in Month
      BY DEF TypeInv, TypeOK, EngineTypeOK
    <2>2. CASE NextMonth
      BY <2>1, <2>2, EntitlementAssumption DEF NextMonth, Month
    <2>3. CASE UNCHANGED month
      BY <2>1, <2>3 DEF Month
    <2>4. NextMonth \/ UNCHANGED month
      BY DEF Administer, CreatePolicy, UpdatePolicy, DeletePolicy, GrantCredits, VerifyBusiness
    <2>5. QED
      BY <2>2, <2>3, <2>4
  <1>2. EngineTypeOK' /\ IsFiniteSet(grants')
    <2> USE DEF TypeInv, TypeOK, EngineTypeOK, FiniteTables
    <2>1. CASE \E f \in Forms : CreatePolicy(f)
      BY <2>1, <1>1 DEF CreatePolicy
    <2>2. CASE \E i \in DOMAIN policies, f \in Forms : UpdatePolicy(i, f)
      BY <2>2, <1>1 DEF UpdatePolicy
    <2>3. CASE \E i \in DOMAIN policies : DeletePolicy(i)
      BY <2>3, <1>1 DEF DeletePolicy
    <2>4. CASE \E b \in Businesses, c \in CreditAmounts, e \in Month \cup {NoDate} : GrantCredits(b, c, e)
      <3>1. PICK b \in Businesses, c \in CreditAmounts, e \in Month \cup {NoDate} : GrantCredits(b, c, e)
        BY <2>4
      <3>2. Cardinality(grants) + 1 \in Nat
        BY FS_CardinalityType
      <3>3. [id |-> Cardinality(grants) + 1, business |-> b, credits |-> c, expires |-> e] \in Grant
        BY <3>2, EntitlementAssumption DEF Grant
      <3>4. QED
        BY <3>1, <3>3, <1>1, FS_AddElement DEF GrantCredits
    <2>5. CASE \E b \in Businesses : VerifyBusiness(b)
      BY <2>5, <1>1 DEF VerifyBusiness
    <2>6. CASE NextMonth
      BY <2>6, <1>1 DEF NextMonth
    <2>7. QED
      BY <2>1, <2>2, <2>3, <2>4, <2>5, <2>6 DEF Administer
  <1>3. TypeOK' /\ FiniteTables'
    BY <1>2 DEF TypeInv, TypeOK, FiniteTables, dbVars, requestVars, locals
  <1>4. Phases'
    BY <1>1 DEF TypeInv, TypeOK, EngineTypeOK, Phases, Month, Owns, dbVars, requestVars, locals
  <1>5. QED
    BY <1>3, <1>4 DEF TypeInv

LEMMA TypeStep == TypeInv /\ [Next]_vars => TypeInv'
  <1> SUFFICES ASSUME TypeInv, [Next]_vars PROVE TypeInv'
    OBVIOUS
  <1>1. CASE \E r \in Requests : Handle(r)
    BY <1>1, HandleTypes, HandlePhases DEF TypeInv
  <1>2. CASE \E b \in Businesses, l \in Leads : GetLead(b, l)
    BY <1>2 DEF GetLead, Reveal, TypeInv, TypeOK, EngineTypeOK, FiniteTables, Phases, Owns,
                engineVars, requestVars, locals
  <1>3. CASE Administer /\ UNCHANGED <<dbVars, requestVars>>
    BY <1>3, AdministerTypes
  <1>4. CASE Crash
    <2>1. TypeOK' /\ FiniteTables'
      BY <1>4 DEF Crash, TypeInv, TypeOK, EngineTypeOK, FiniteTables, Ended, Running,
                  engineVars, dbVars, NoDate
    <2>2. Phases'
      BY <1>4 DEF Crash, TypeInv, TypeOK, Phases, Running
    <2>3. QED
      BY <2>1, <2>2 DEF TypeInv
  <1>5. CASE UNCHANGED vars
    BY <1>5 DEF vars, TypeInv, TypeOK, EngineTypeOK, FiniteTables, Phases, Owns,
                engineVars, dbVars, requestVars, locals
  <1>6. QED
    BY <1>1, <1>2, <1>3, <1>4, <1>5 DEF Next

\* Every table and every local variable keeps its type, whatever the
\* requests, the administrator and the calendar do.
THEOREM TypeCorrect == Spec => []TypeOK
  <1>1. Spec => []TypeInv
    BY TypeInit, TypeStep, PTL DEF Spec
  <1>2. QED
    BY <1>1, PTL DEF TypeInv

-----------------------------------------------------------------------------
(* The five ways a step can bear on what is charged *)

QuotaPending(r) == pc[r] = "commit" /\ policy[r].rule = "MONTHLY_QUOTA"

\* A request passes the check that the lead is not open yet.
Entering(r) ==
    /\ pc[r] = "new" /\ Owns(r) /\ ~Unlocked(target[r])
    /\ Cardinality(InFlight(caller[r])) < MaxInFlight
    /\ pc' = [pc EXCEPT ![r] = "policies"]
    /\ UNCHANGED <<audits, unlockedAt, month, caller, target, policy>>

\* A request is allowed under a quota.
Deciding(r) ==
    /\ pc[r] = "quota"
    /\ Cardinality(QuotaUsedSince(caller[r], asOf[r])) < policy[r].limit
    /\ pc' = [pc EXCEPT ![r] = "commit"]
    /\ UNCHANGED <<audits, unlockedAt, month, caller, target, policy>>

Turning ==
    /\ month' = month + 1
    /\ UNCHANGED <<audits, unlockedAt, pc, caller, target, policy>>

\* Requests stop or go on without a new claim on the quota.
Quiet ==
    /\ UNCHANGED <<audits, unlockedAt, month, caller, target>>
    /\ \A q \in Requests : /\ pc'[q] \in Running => pc[q] \in Running
                           /\ QuotaPending(q)' => QuotaPending(q)
                           /\ pc[q] = "opened" => pc'[q] = "opened"

LEMMA JudgeIsQuiet ==
    ASSUME TypeInv, NEW r \in Requests, pc[r] \in Running, NEW found, \A f \in found : f \in Forms,
           Judge(r, found), Owns(r), UNCHANGED <<engineVars, dbVars, caller, target>>,
           \A q \in Requests \ {r} : pc'[q] = pc[q] /\ policy'[q] = policy[q]
    PROVE  Quiet
  <1>1. ~QuotaPending(r)'
    BY JudgePhases DEF QuotaPending
  <1>2. pc[r] # "opened"
    BY DEF Running
  <1>3. QED
    BY <1>1, <1>2 DEF Quiet, QuotaPending, engineVars, dbVars

LEMMA HandleKinds ==
    ASSUME TypeInv, NEW r \in Requests, Handle(r)
    PROVE  Entering(r) \/ Deciding(r) \/ Commit(r) \/ Quiet
  <1> USE DEF TypeInv, TypeOK, Running
  <1>1. CASE ReadLead(r)
    BY <1>1 DEF ReadLead, Entering, Quiet, QuotaPending, Finish, Goto, AlreadyOpen, engineVars
  <1>2. CASE ReadPolicies(r)
    <2>1. \A f \in InForce(Candidates(asOf[r]), caller[r], {}) : f \in Forms
      BY InForceAreRows, CandidatesAreForms
    <2>2. CASE Judge(r, InForce(Candidates(asOf[r]), caller[r], {}))
      BY <1>2, <2>1, <2>2, JudgeIsQuiet, HandleFrame DEF ReadPolicies, Phases
    <2>3. CASE ~Judge(r, InForce(Candidates(asOf[r]), caller[r], {}))
      BY <1>2, <2>3 DEF ReadPolicies, Quiet, QuotaPending, Goto, engineVars, dbVars
    <2>4. QED
      BY <2>2, <2>3
  <1>3. CASE ReadBusiness(r)
    <2>1. \A f \in InForce(cands[r], caller[r], approved) : f \in Forms
      BY InForceAreRows
    <2>2. QED
      BY <1>3, <2>1, JudgeIsQuiet, HandleFrame DEF ReadBusiness, Phases
  <1>4. CASE CountQuota(r)
    BY <1>4 DEF CountQuota, Deciding, Quiet, QuotaPending, Allow, Finish, Goto, engineVars, dbVars
  <1>5. CASE ReadGrants(r) \/ CountSpent(r)
    BY <1>5 DEF ReadGrants, CountSpent, Quiet, QuotaPending, engineVars, dbVars
  <1>6. CASE JudgeBalance(r)
    BY <1>6 DEF JudgeBalance, Phases, Quiet, QuotaPending, Allow, Finish, Goto, engineVars, dbVars
  <1>7. CASE Commit(r)
    BY <1>7
  <1>8. QED
    BY <1>1, <1>2, <1>3, <1>4, <1>5, <1>6, <1>7 DEF Handle

LEMMA StepKinds ==
    ASSUME TypeInv, [Next]_vars
    PROVE  \/ \E r \in Requests : Entering(r) \/ Deciding(r) \/ Commit(r)
           \/ Turning
           \/ Quiet
  <1>1. CASE \E r \in Requests : Handle(r)
    BY <1>1, HandleKinds
  <1>2. CASE \E b \in Businesses, l \in Leads : GetLead(b, l)
    BY <1>2 DEF GetLead, Quiet, QuotaPending, engineVars, requestVars, locals
  <1>3. CASE Administer /\ UNCHANGED <<dbVars, requestVars>>
    <2>1. CASE NextMonth
      BY <1>3, <2>1 DEF NextMonth, Turning, dbVars, requestVars, locals
    <2>2. CASE ~NextMonth
      <3>1. UNCHANGED month
        BY <1>3, <2>2 DEF Administer, CreatePolicy, UpdatePolicy, DeletePolicy, GrantCredits,
                          VerifyBusiness
      <3>2. QED
        BY <1>3, <3>1 DEF Quiet, QuotaPending, dbVars, requestVars, locals
    <2>3. QED
      BY <2>1, <2>2
  <1>4. CASE Crash
    BY <1>4 DEF Crash, Quiet, QuotaPending, Running, TypeInv, TypeOK, engineVars, dbVars
  <1>5. CASE UNCHANGED vars
    BY <1>5 DEF vars, Quiet, QuotaPending, engineVars, dbVars, requestVars, locals
  <1>6. QED
    BY <1>1, <1>2, <1>3, <1>4, <1>5 DEF Next

-----------------------------------------------------------------------------
(* The audit trail *)

\* A row names the request that wrote it, no request writes two, and none
\* is dated ahead of the clock.
RowsOfRequests ==
    \A a \in audits : /\ pc[a.req] = "opened"
                      /\ a.month <= month
                      /\ \A c \in audits : c.req = a.req => c = a

OpenedByNow == \A l \in Leads : unlockedAt[l] <= month

TrailInv == TypeInv /\ RowsOfRequests /\ OpenedByNow /\ AuditTrail /\ RevealedOnlyWhenPaid

LEMMA TrailInit == Init => TrailInv
  BY TypeInit DEF Init, EngineInit, TrailInv, RowsOfRequests, OpenedByNow, AuditTrail,
                  RevealedOnlyWhenPaid, Unlocked, NoDate

LEMMA CommitTrail ==
    ASSUME TrailInv, NEW r \in Requests, Commit(r)
    PROVE  RowsOfRequests' /\ OpenedByNow' /\ AuditTrail'
  <1> DEFINE row == AuditRow(r)
  <1>1. /\ audits' = audits \cup {row}
        /\ row.req = r /\ row.lead = target[r] /\ row.business = caller[r] /\ row.month = month
        /\ unlockedAt' = [unlockedAt EXCEPT ![target[r]] = month]
        /\ pc' = [pc EXCEPT ![r] = "opened"]
        /\ month' = month /\ UNCHANGED <<caller, target>>
    BY DEF Commit, WriteAudit, AuditRow, Finish, Goto, engineVars
  <1>2. /\ target[r] \in Leads /\ month \in Month /\ month # NoDate
        /\ Owner[target[r]] = caller[r]
        /\ pc[r] # "opened"
    BY DEF TrailInv, TypeInv, TypeOK, EngineTypeOK, Phases, Owns, Commit, Running, Month, NoDate
  <1>3. \A a \in audits : a.req # r
    BY <1>2 DEF TrailInv, RowsOfRequests
  <1>4. RowsOfRequests'
    BY <1>1, <1>2, <1>3 DEF TrailInv, TypeInv, TypeOK, RowsOfRequests, Audit, Month
  <1>5. OpenedByNow'
    BY <1>1, <1>2 DEF TrailInv, TypeInv, TypeOK, OpenedByNow, Month
  <1>6. AuditTrail'
    <2> SUFFICES ASSUME NEW l \in Leads
                 PROVE  LET rows == {a \in audits' : a.lead = l} IN
                        /\ Unlocked(l)' <=> rows # {}
                        /\ \A a \in rows : a.business = Owner[l] /\ a.month <= unlockedAt'[l]
                        /\ rows # {} => \E a \in rows : a.month = unlockedAt'[l]
      BY DEF AuditTrail
    <2>1. CASE l = target[r]
      <3>1. unlockedAt'[l] = month
        BY <1>1, <2>1 DEF TrailInv, TypeInv, TypeOK
      <3>2. \A a \in audits : a.month <= month /\ (a.lead = l => a.business = Owner[l])
        BY DEF TrailInv, AuditTrail, RowsOfRequests
      <3>3. QED
        BY <1>1, <1>2, <2>1, <3>1, <3>2 DEF Unlocked, Month
    <2>2. CASE l # target[r]
      <3>1. unlockedAt'[l] = unlockedAt[l]
        BY <1>1, <2>2 DEF TrailInv, TypeInv, TypeOK
      <3>2. {a \in audits' : a.lead = l} = {a \in audits : a.lead = l}
        BY <1>1, <2>2
      <3>3. QED
        BY <3>1, <3>2 DEF TrailInv, AuditTrail, Unlocked
    <2>3. QED
      BY <2>1, <2>2
  <1>7. QED
    BY <1>4, <1>5, <1>6

\* Handing out details needs an open lead, and an open lead has a row.
LEMMA RevealStep ==
    ASSUME TrailInv, [Next]_vars, AuditTrail', audits \subseteq audits'
    PROVE  RevealedOnlyWhenPaid'
  <1> DEFINE Paid(p) == \E a \in audits' : a.business = p[1] /\ a.lead = p[2]
  <1>1. \A p \in revealed : Paid(p)
    BY DEF TrailInv, RevealedOnlyWhenPaid
  <1>2. ASSUME NEW l \in Leads, Unlocked(l)
        PROVE  Paid(<<Owner[l], l>>)
    BY <1>2 DEF TrailInv, AuditTrail
  <1>3. CASE UNCHANGED revealed
    BY <1>1, <1>3 DEF RevealedOnlyWhenPaid
  <1>4. CASE \E r \in Requests : Commit(r)
    <2>1. PICK r \in Requests : Commit(r)
      BY <1>4
    <2>2. Paid(<<caller[r], target[r]>>)
      <3>1. AuditRow(r) \in audits'
        BY <2>1 DEF Commit, WriteAudit
      <3>2. AuditRow(r).business = caller[r] /\ AuditRow(r).lead = target[r]
        BY DEF AuditRow
      <3>3. QED
        BY <3>1, <3>2
    <2>3. revealed' = revealed \cup {<<caller[r], target[r]>>}
      BY <2>1 DEF Commit, Reveal
    <2>4. QED
      BY <1>1, <2>2, <2>3 DEF RevealedOnlyWhenPaid
  <1>5. CASE \E r \in Requests : ReadLead(r)
    BY <1>1, <1>2, <1>5 DEF ReadLead, Reveal, Owns, AlreadyOpen, RevealedOnlyWhenPaid,
                            TrailInv, TypeInv, TypeOK
  <1>6. CASE \E b \in Businesses, l \in Leads : GetLead(b, l)
    BY <1>1, <1>2, <1>6 DEF GetLead, Reveal, ShowUnmasked, RevealedOnlyWhenPaid
  <1>7. QED
    BY <1>3, <1>4, <1>5, <1>6
       DEF Next, Handle, ReadPolicies, ReadBusiness, CountQuota, ReadGrants, CountSpent,
           JudgeBalance, Crash, vars, dbVars

LEMMA TrailStep == TrailInv /\ [Next]_vars => TrailInv'
  <1> SUFFICES ASSUME TrailInv, [Next]_vars PROVE TrailInv'
    OBVIOUS
  <1>1. TypeInv'
    BY TypeStep DEF TrailInv
  <1>2. RowsOfRequests' /\ OpenedByNow' /\ AuditTrail' /\ audits \subseteq audits'
    <2>1. CASE \E r \in Requests : Commit(r)
      BY <2>1, CommitTrail DEF Commit, WriteAudit
    <2>2. CASE \/ \E r \in Requests : Entering(r) \/ Deciding(r)
               \/ Turning
               \/ Quiet
      <3>1. UNCHANGED <<audits, unlockedAt>> /\ month' >= month
        BY <2>2 DEF Entering, Deciding, Turning, Quiet, TrailInv, TypeInv, TypeOK, EngineTypeOK, Month
      <3>2. \A q \in Requests : pc[q] = "opened" => pc'[q] = "opened"
        BY <2>2 DEF Entering, Deciding, Turning, Quiet, TrailInv, TypeInv, TypeOK
      <3>3. month \in Int /\ month' \in Int
        BY <1>1 DEF TrailInv, TypeInv, TypeOK, EngineTypeOK, Month
      <3>4. RowsOfRequests'
        BY <3>1, <3>2, <3>3 DEF TrailInv, RowsOfRequests, TypeInv, TypeOK, Audit, Month
      <3>5. OpenedByNow'
        BY <3>1, <3>3 DEF TrailInv, OpenedByNow, TypeInv, TypeOK, Month, NoDate
      <3>6. AuditTrail'
        BY <3>1 DEF TrailInv, AuditTrail, Unlocked
      <3>7. QED
        BY <3>1, <3>4, <3>5, <3>6
    <2>3. QED
      BY <2>1, <2>2, StepKinds DEF TrailInv
  <1>3. RevealedOnlyWhenPaid'
    BY <1>2, RevealStep
  <1>4. QED
    BY <1>1, <1>2, <1>3 DEF TrailInv

\* However requests interleave and whatever crashes, a lead is open exactly
\* when audit rows account for it, all charged to its owner.
THEOREM AuditTrailHolds == Spec => []AuditTrail
  <1>1. Spec => []TrailInv
    BY TrailInit, TrailStep, PTL DEF Spec
  <1>2. QED
    BY <1>1, PTL DEF TrailInv

\* Contact details reach only a business that an audit row charges for them.
THEOREM RevealedOnlyWhenPaidHolds == Spec => []RevealedOnlyWhenPaid
  <1>1. Spec => []TrailInv
    BY TrailInit, TrailStep, PTL DEF Spec
  <1>2. QED
    BY <1>1, PTL DEF TrailInv

\* unlockLead and everything around it implement the ledger: a commit is an
\* opening with its entry, every other step leaves leads and entries alone.
THEOREM LedgerImplemented == Spec => LedgerSpec
  <1>1. Init => Ledger!Init
    BY DEF Init, Ledger!Init, Unlocked
  <1>2. ASSUME TrailInv, [Next]_vars
        PROVE  [Ledger!Next]_(Ledger!ledgerVars)
    <2>1. CASE \E r \in Requests : Commit(r)
      <3>1. PICK r \in Requests : Commit(r)
        BY <2>1
      <3>2. /\ target[r] \in Leads /\ month # NoDate /\ pc[r] # "opened"
            /\ Owner[target[r]] = caller[r]
        BY <1>2, <3>1 DEF Commit, TrailInv, TypeInv, TypeOK, EngineTypeOK, Phases, Owns, Running, Month, NoDate
      <3>3. {l \in Leads : Unlocked(l)'} = {l \in Leads : Unlocked(l)} \cup {target[r]}
        BY <1>2, <3>1, <3>2 DEF Commit, Unlocked, TrailInv, TypeInv, TypeOK
      <3>4. AuditRow(r) \notin audits
        BY <1>2, <3>2 DEF TrailInv, RowsOfRequests, AuditRow
      <3>5. /\ audits' = audits \cup {AuditRow(r)}
            /\ AuditRow(r).lead = target[r] /\ AuditRow(r).business = Owner[target[r]]
        BY <3>1, <3>2 DEF Commit, WriteAudit, AuditRow
      <3>6. Ledger!Open(target[r])
        BY <3>3, <3>4, <3>5 DEF Ledger!Open
      <3>7. QED
        BY <3>2, <3>6 DEF Ledger!Next
    <2>2. CASE UNCHANGED <<audits, unlockedAt>>
      BY <2>2 DEF Ledger!ledgerVars, Unlocked
    <2>3. QED
      BY <1>2, <2>1, <2>2, StepKinds DEF TrailInv, Entering, Deciding, Turning, Quiet
  <1>3. Spec => []TrailInv
    BY TrailInit, TrailStep, PTL DEF Spec
  <1>4. QED
    BY <1>1, <1>2, <1>3, PTL DEF Spec, LedgerSpec, Ledger!Spec

-----------------------------------------------------------------------------
(* How far requests can overshoot together.  Rows are counted by the       *)
(* request that wrote them, so that committing leaves a count of claims    *)
(* as it was: the claim of a running request becomes the claim of its row. *)

LEMMA FewerRequests ==
    ASSUME NEW S \in SUBSET Requests, NEW T \in SUBSET S
    PROVE  /\ IsFiniteSet(S) /\ IsFiniteSet(T)
           /\ Cardinality(S) \in Nat /\ Cardinality(T) \in Nat
           /\ Cardinality(T) <= Cardinality(S)
  BY UnlockAssumption, FS_Subset, FS_CardinalityType

LEMMA OneMoreElement ==
    ASSUME NEW S, NEW x, IsFiniteSet(S)
    PROVE  Cardinality(S \cup {x}) <= Cardinality(S) + 1
  <1>1. Cardinality(S) \in Nat
    BY FS_CardinalityType
  <1>2. CASE x \in S
    <2>1. S \cup {x} = S
      BY <1>2
    <2>2. QED
      BY <1>1, <2>1
  <1>3. CASE x \notin S
    <2>1. Cardinality(S \cup {x}) = Cardinality(S) + 1
      BY <1>3, FS_AddElement
    <2>2. QED
      BY <1>1, <2>1
  <1>4. QED
    BY <1>2, <1>3

\* Counting rows is counting the requests that wrote them.
LEMMA RowsAreRequests ==
    ASSUME RowsOfRequests, audits \subseteq Audit, NEW R \in SUBSET audits,
           NEW S \in SUBSET Requests, \A a \in R : a.req \in S
    PROVE  IsFiniteSet(R) /\ Cardinality(R) <= Cardinality(S)
  <1> DEFINE writer == [a \in R |-> a.req]
  <1>1. writer \in Injection(R, S)
    BY DEF Injection, IsInjective, RowsOfRequests
  <1>2. IsFiniteSet(S)
    BY FewerRequests
  <1>3. QED
    BY <1>1, <1>2, FS_Injection

LEMMA RequestsAreRows ==
    ASSUME TypeInv, RowsOfRequests, NEW S \in SUBSET Requests, NEW R \in SUBSET audits,
           \A r \in S : \E a \in R : a.req = r
    PROVE  Cardinality(S) <= Cardinality(R)
  <1> DEFINE row == [r \in S |-> CHOOSE a \in R : a.req = r]
  <1>1. \A r \in S : row[r] \in R /\ row[r].req = r
    OBVIOUS
  <1>2. row \in Injection(S, R)
    BY <1>1 DEF Injection, IsInjective
  <1>3. IsFiniteSet(R)
    BY FS_Subset DEF TypeInv, FiniteTables
  <1>4. QED
    BY <1>2, <1>3, FS_Injection

InFlightBounded == \A b \in Businesses : Cardinality(InFlight(b)) <= MaxInFlight

\* The requests that have charged a lead or may still do so.
Charging(l) ==
    {r \in Requests : \/ \E a \in audits : a.req = r /\ a.lead = l
                      \/ pc[r] \in Running /\ target[r] = l}

ChargingBounded == \A l \in Leads : Cardinality(Charging(l)) <= MaxInFlight

\* The requests that have used a month's quota or were allowed to this month.
QuotaClaims(b, m) ==
    {r \in Requests :
        \/ \E a \in audits : a.req = r /\ a.business = b /\ a.rule = "MONTHLY_QUOTA" /\ a.month = m
        \/ m = month /\ QuotaPending(r) /\ caller[r] = b}

ClaimsBounded ==
    \A b \in Businesses, m \in Month :
        Cardinality(QuotaClaims(b, m)) <= MaxLimit + MaxInFlight - 1

BoundInv == TrailInv /\ InFlightBounded /\ ChargingBounded /\ ClaimsBounded

LEMMA BoundInit == Init => BoundInv
  <1> SUFFICES ASSUME Init PROVE BoundInv
    OBVIOUS
  <1>1. /\ \A b : InFlight(b) = {}
        /\ \A l : Charging(l) = {}
        /\ \A b, m : QuotaClaims(b, m) = {}
    BY DEF Init, InFlight, Charging, QuotaClaims, QuotaPending, Running
  <1>2. QED
    BY <1>1, TrailInit, UnlockAssumption, FS_EmptySet
       DEF BoundInv, InFlightBounded, ChargingBounded, ClaimsBounded

LEMMA InFlightStep ==
    ASSUME BoundInv, [Next]_vars
    PROVE  InFlightBounded'
  <1> SUFFICES ASSUME NEW b \in Businesses
               PROVE  Cardinality(InFlight(b)') <= MaxInFlight
    BY DEF InFlightBounded
  <1>1. CASE InFlight(b)' \subseteq InFlight(b)
    <2>1. InFlight(b) \in SUBSET Requests /\ MaxInFlight \in Nat
      BY UnlockAssumption DEF InFlight
    <2>2. QED
      BY <1>1, <2>1, FewerRequests DEF BoundInv, InFlightBounded
  <1>2. ASSUME NEW r \in Requests, Entering(r)
        PROVE  Cardinality(InFlight(b)') <= MaxInFlight
    <2>1. CASE caller[r] # b
      <3>1. InFlight(b)' \subseteq InFlight(b)
        BY <1>2, <2>1 DEF Entering, InFlight, BoundInv, TrailInv, TypeInv, TypeOK
      <3>2. QED
        BY <1>1, <3>1
    <2>2. CASE caller[r] = b
      <3>1. InFlight(b)' = InFlight(b) \cup {r}
        BY <1>2, <2>2 DEF Entering, InFlight, Running, BoundInv, TrailInv, TypeInv, TypeOK
      <3>2. IsFiniteSet(InFlight(b)) /\ Cardinality(InFlight(b)) \in Nat
        BY FewerRequests DEF InFlight
      <3>3. Cardinality(InFlight(b)') <= Cardinality(InFlight(b)) + 1
        BY <3>1, <3>2, OneMoreElement
      <3>4. Cardinality(InFlight(b)) < MaxInFlight /\ Cardinality(InFlight(b)') \in Nat
        BY <1>2, <2>2, FewerRequests DEF Entering, InFlight
      <3>5. QED
        BY <3>2, <3>3, <3>4, UnlockAssumption
    <2>3. QED
      BY <2>1, <2>2
  <1>3. (\E r \in Requests : Deciding(r) \/ Commit(r)) \/ Turning \/ Quiet
           => InFlight(b)' \subseteq InFlight(b)
    BY DEF Deciding, Commit, Finish, Goto, Turning, Quiet, InFlight, Running, BoundInv, TrailInv,
           TypeInv, TypeOK
  <1>4. QED
    BY <1>1, <1>2, <1>3, StepKinds DEF BoundInv, TrailInv

LEMMA ChargingStep ==
    ASSUME BoundInv, [Next]_vars, InFlightBounded'
    PROVE  ChargingBounded'
  <1> SUFFICES ASSUME NEW l \in Leads
               PROVE  Cardinality(Charging(l)') <= MaxInFlight
    BY DEF ChargingBounded
  <1> USE DEF BoundInv, TrailInv, TypeInv, TypeOK
  <1>1. CASE Charging(l)' \subseteq Charging(l)
    <2>1. Charging(l) \in SUBSET Requests /\ MaxInFlight \in Nat
      BY UnlockAssumption DEF Charging
    <2>2. QED
      BY <1>1, <2>1, FewerRequests DEF ChargingBounded
  <1>2. ASSUME NEW r \in Requests, Entering(r), target[r] = l
        PROVE  Cardinality(Charging(l)') <= MaxInFlight
    <2>1. ~ \E a \in audits : a.lead = l
      BY <1>2 DEF Entering, AuditTrail
    <2>2. Charging(l)' \subseteq InFlight(Owner[l])'
      BY <1>2, <2>1 DEF Entering, Charging, InFlight, Phases, Owns
    <2>3. InFlight(Owner[l])' \in SUBSET Requests /\ Owner[l] \in Businesses
      BY UnlockAssumption DEF InFlight
    <2>4. QED
      BY <2>2, <2>3, FewerRequests, UnlockAssumption DEF InFlightBounded
  <1>3. ASSUME NEW r \in Requests, Entering(r), target[r] # l
        PROVE  Charging(l)' \subseteq Charging(l)
    BY <1>3 DEF Entering, Charging
  <1>4. ASSUME NEW r \in Requests, Commit(r)
        PROVE  Charging(l)' \subseteq Charging(l)
    BY <1>4 DEF Commit, WriteAudit, AuditRow, Finish, Goto, Charging, Running
  <1>5. (\E r \in Requests : Deciding(r)) \/ Turning \/ Quiet => Charging(l)' \subseteq Charging(l)
    BY DEF Deciding, Turning, Quiet, Charging, Running
  <1>6. QED
    BY <1>1, <1>2, <1>3, <1>4, <1>5, StepKinds

LEMMA ClaimsStep ==
    ASSUME BoundInv, [Next]_vars, InFlightBounded'
    PROVE  ClaimsBounded'
  <1> SUFFICES ASSUME NEW b \in Businesses, NEW m \in Month
               PROVE  Cardinality(QuotaClaims(b, m)') <= MaxLimit + MaxInFlight - 1
    BY DEF ClaimsBounded
  <1> DEFINE Written == {r \in Requests : \E a \in audits :
                            a.req = r /\ a.business = b /\ a.rule = "MONTHLY_QUOTA" /\ a.month = m}
  <1> USE DEF BoundInv, TrailInv, TypeInv, TypeOK
  <1>0. /\ MaxLimit \in Nat \ {0} /\ MaxInFlight \in Nat \ {0}
        /\ month \in Int
        /\ \A S \in SUBSET Requests : IsFiniteSet(S) /\ Cardinality(S) \in Nat
    BY UnlockAssumption, FewerRequests DEF EngineTypeOK, Month
  <1>1. CASE QuotaClaims(b, m)' \subseteq QuotaClaims(b, m)
    <2>1. QuotaClaims(b, m) \in SUBSET Requests /\ QuotaClaims(b, m)' \in SUBSET Requests
      BY DEF QuotaClaims
    <2>2. QED
      BY <1>0, <1>1, <2>1, FewerRequests DEF ClaimsBounded
  \* A claim is made when the count of the rows is below the limit; whoever
  \* else has a claim without a row is under way.
  <1>2. ASSUME NEW r \in Requests, Deciding(r), caller[r] = b, m = month
        PROVE  Cardinality(QuotaClaims(b, m)') <= MaxLimit + MaxInFlight - 1
    <2>1. Written \in SUBSET Requests /\ InFlight(b)' \in SUBSET Requests
      BY DEF InFlight
    <2>2. asOf[r] \in Int /\ asOf[r] <= month /\ policy[r].limit <= MaxLimit /\ policy[r].limit \in Nat
      BY <1>2, UnlockAssumption, EntitlementAssumption DEF Deciding, Phases, Month, Form
    <2>3. Cardinality(Written) <= Cardinality(QuotaUsedSince(b, asOf[r]))
      <3>1. QuotaUsedSince(b, asOf[r]) \in SUBSET audits
        BY DEF QuotaUsedSince
      <3>2. \A q \in Written : \E a \in QuotaUsedSince(b, asOf[r]) : a.req = q
        BY <1>2, <2>2 DEF QuotaUsedSince
      <3>3. QED
        BY <2>1, <3>1, <3>2, RequestsAreRows
    <2>4. Cardinality(QuotaUsedSince(b, asOf[r])) < MaxLimit
      <3>1. Cardinality(QuotaUsedSince(b, asOf[r])) \in Nat
        BY FS_Subset, FS_CardinalityType DEF QuotaUsedSince, FiniteTables
      <3>2. QED
        BY <1>0, <1>2, <2>2, <3>1 DEF Deciding
    <2>5. QuotaClaims(b, m)' \subseteq Written \cup InFlight(b)'
      BY <1>2 DEF Deciding, QuotaClaims, QuotaPending, InFlight, Running
    <2>6. Cardinality(Written \cup InFlight(b)') <= Cardinality(Written) + Cardinality(InFlight(b)')
      <3>1. Written \cap InFlight(b)' \in SUBSET Requests
        BY <2>1
      <3>2. Cardinality(Written \cup InFlight(b)') =
              Cardinality(Written) + Cardinality(InFlight(b)') - Cardinality(Written \cap InFlight(b)')
        BY <1>0, <2>1, FS_Union
      <3>3. /\ Cardinality(Written \cap InFlight(b)') \in Nat
            /\ Cardinality(Written) \in Nat /\ Cardinality(InFlight(b)') \in Nat
        BY <1>0, <2>1, <3>1
      <3>4. QED
        BY <3>2, <3>3
    <2>7. Cardinality(QuotaClaims(b, m)') <= Cardinality(Written \cup InFlight(b)')
      BY <2>1, <2>5, FewerRequests
    <2>8. Cardinality(InFlight(b)') <= MaxInFlight
      BY DEF InFlightBounded
    <2>9. Cardinality(QuotaUsedSince(b, asOf[r])) \in Nat
      BY FS_Subset, FS_CardinalityType DEF QuotaUsedSince, FiniteTables
    <2>10. /\ Cardinality(Written) \in Nat /\ Cardinality(InFlight(b)') \in Nat
           /\ Cardinality(QuotaClaims(b, m)') \in Nat
           /\ Cardinality(Written \cup InFlight(b)') \in Nat
      BY <1>0, <2>1 DEF QuotaClaims
    <2>11. QED
      BY <1>0, <2>3, <2>4, <2>6, <2>7, <2>8, <2>9, <2>10
  <1>3. ASSUME NEW r \in Requests, Deciding(r), caller[r] # b \/ m # month
        PROVE  QuotaClaims(b, m)' \subseteq QuotaClaims(b, m)
    BY <1>3 DEF Deciding, QuotaClaims, QuotaPending
  <1>4. ASSUME NEW r \in Requests, Commit(r)
        PROVE  QuotaClaims(b, m)' \subseteq QuotaClaims(b, m)
    BY <1>4 DEF Commit, WriteAudit, AuditRow, Finish, Goto, QuotaClaims, QuotaPending, engineVars
  \* In a new month nothing is written yet.
  <1>5. ASSUME Turning, m = month + 1
        PROVE  Cardinality(QuotaClaims(b, m)') <= MaxLimit + MaxInFlight - 1
    <2>1. QuotaClaims(b, m)' \subseteq InFlight(b)
      BY <1>0, <1>5 DEF Turning, QuotaClaims, QuotaPending, InFlight, Running, RowsOfRequests
    <2>2. InFlight(b) \in SUBSET Requests
      BY DEF InFlight
    <2>3. QED
      BY <1>0, <2>1, <2>2, FewerRequests DEF InFlightBounded
  <1>6. ASSUME Turning, m # month + 1
        PROVE  QuotaClaims(b, m)' \subseteq QuotaClaims(b, m)
    BY <1>6 DEF Turning, QuotaClaims, QuotaPending
  <1>7. (\E r \in Requests : Entering(r)) \/ Quiet => QuotaClaims(b, m)' \subseteq QuotaClaims(b, m)
    BY DEF Entering, Quiet, QuotaClaims, QuotaPending
  <1>8. QED
    BY <1>1, <1>2, <1>3, <1>4, <1>5, <1>6, <1>7, StepKinds

LEMMA BoundStep == BoundInv /\ [Next]_vars => BoundInv'
  BY TrailStep, InFlightStep, ChargingStep, ClaimsStep DEF BoundInv

LEMMA BoundAlways == Spec => []BoundInv
  BY BoundInit, BoundStep, PTL DEF Spec

\* A lead costs at most one audit row for each request its owner has under
\* way: with one request at a time, exactly the "never twice" unlockLead's
\* comment promises.
THEOREM ChargesBoundedHolds == Spec => []ChargesBounded
  <1>1. BoundInv => ChargesBounded
    <2> SUFFICES ASSUME BoundInv, NEW l \in Leads
                 PROVE  Cardinality({a \in audits : a.lead = l}) <= MaxInFlight
      BY DEF ChargesBounded
    <2> DEFINE rows == {a \in audits : a.lead = l}
    <2>1. Charging(l) \in SUBSET Requests /\ \A a \in rows : a.req \in Charging(l)
      BY DEF Charging, BoundInv, TrailInv, TypeInv, TypeOK, Audit
    <2>2. IsFiniteSet(rows) /\ Cardinality(rows) <= Cardinality(Charging(l))
      BY <2>1, RowsAreRequests DEF BoundInv, TrailInv, TypeInv, TypeOK
    <2>3. QED
      BY <2>1, <2>2, FewerRequests, FS_CardinalityType, UnlockAssumption DEF BoundInv, ChargingBounded
  <1>2. QED
    BY <1>1, BoundAlways, PTL

\* No month's quota is overshot by more than the other requests that were
\* under way when it ran out, whatever the calendar and administrators do.
THEOREM QuotaOvershootBoundedHolds == Spec => []QuotaOvershootBounded
  <1>1. BoundInv => QuotaOvershootBounded
    <2> SUFFICES ASSUME BoundInv, NEW b \in Businesses, NEW m \in Month
                 PROVE  Cardinality({a \in audits : a.business = b /\ a.rule = "MONTHLY_QUOTA"
                                                      /\ a.month = m})
                          <= MaxLimit + MaxInFlight - 1
      BY DEF QuotaOvershootBounded
    <2> DEFINE rows == {a \in audits : a.business = b /\ a.rule = "MONTHLY_QUOTA" /\ a.month = m}
    <2>1. QuotaClaims(b, m) \in SUBSET Requests /\ \A a \in rows : a.req \in QuotaClaims(b, m)
      BY DEF QuotaClaims, BoundInv, TrailInv, TypeInv, TypeOK, Audit
    <2>2. IsFiniteSet(rows) /\ Cardinality(rows) <= Cardinality(QuotaClaims(b, m))
      BY <2>1, RowsAreRequests DEF BoundInv, TrailInv, TypeInv, TypeOK
    <2>3. QED
      BY <2>1, <2>2, FewerRequests, FS_CardinalityType, UnlockAssumption DEF BoundInv, ClaimsBounded
  <1>2. QED
    BY <1>1, BoundAlways, PTL
-----------------------------------------------------------------------------
(* How far credit can be oversold.  The two queries of creditBalance       *)
(* answer at different moments, so a request may act on an old count       *)
(* together with newer grants.  What saves the bound is that a count is    *)
(* never ahead of the rows and that the requests that could spend before   *)
(* or beside a reader of a count were all under way when it was taken.     *)

CreditPending(r) == pc[r] = "commit" /\ policy[r].rule = "CREDITS"

\* The requests that have spent a credit of a business or were allowed to.
CreditClaims(b) ==
    {r \in Requests :
        \/ \E a \in audits : a.req = r /\ a.business = b /\ a.rule = "CREDITS"
        \/ CreditPending(r) /\ caller[r] = b}

Holding(r) == pc[r] = "credits" /\ spent[r] # NotRead

\* The requests that hold a count no later than the n-th spending.
HoldingUpTo(b, n) == {r \in Requests : Holding(r) /\ caller[r] = b /\ spent[r] <= n}

Bought(b) == {g \in grants : g.business = b /\ g.credits > 0}

\* A request knows no grant but its caller's, and no spending of the future.
ReadsAreOld ==
    \A r \in Requests :
        /\ granted[r] # NotRead => granted[r] \subseteq {g \in grants : g.business = caller[r]}
        /\ spent[r] # NotRead => pc[r] = "credits" /\ spent[r] <= Cardinality(Spent(caller[r]))

CreditClaimsBounded ==
    \A b \in Businesses : Cardinality(CreditClaims(b)) <= SumCredits(Bought(b)) + MaxInFlight - 1

\* Whoever holds a count, and all who hold an older or equal one, could
\* spend together and still stay within what was bought or what was spent
\* at the count.
HoldersBounded ==
    \A r \in Requests :
        Holding(r) =>
            LET after == Cardinality(CreditClaims(caller[r]) \cup HoldingUpTo(caller[r], spent[r])) IN
            \/ after <= SumCredits(Bought(caller[r])) + MaxInFlight - 1
            \/ after <= spent[r] + MaxInFlight

CreditInv == BoundInv /\ ReadsAreOld /\ CreditClaimsBounded /\ HoldersBounded

\* Sums of credits compare as the sets of credit units they count.
LEMMA UnitsFinite ==
    ASSUME NEW G \in SUBSET Grant, IsFiniteSet(G)
    PROVE  IsFiniteSet(Credited(G)) /\ IsFiniteSet(Debited(G))
  <1> DEFINE plus == [g \in G |-> {g} \X (1 .. g.credits)]
             minus == [g \in G |-> {g} \X (1 .. -g.credits)]
             Plus == {{g} \X (1 .. g.credits) : g \in G}
             Minus == {{g} \X (1 .. -g.credits) : g \in G}
  <1>1. plus \in Surjection(G, Plus) /\ minus \in Surjection(G, Minus)
    BY DEF Surjection
  <1>2. IsFiniteSet(Plus) /\ IsFiniteSet(Minus)
    BY <1>1, FS_Surjection
  <1>3. ASSUME NEW g \in G
        PROVE  IsFiniteSet({g} \X (1 .. g.credits)) /\ IsFiniteSet({g} \X (1 .. -g.credits))
    <2>1. g.credits \in Int /\ -g.credits \in Int
      BY DEF Grant
    <2>2. IsFiniteSet({g})
      BY FS_Singleton
    <2>3. \A n \in Int : IsFiniteSet(1 .. n)
      BY FS_Interval
    <2>4. IsFiniteSet(1 .. g.credits) /\ IsFiniteSet(1 .. -g.credits)
      BY <2>1, <2>3
    <2>5. QED
      BY <2>2, <2>4, FS_Product
  <1>4. (\A T \in Plus : IsFiniteSet(T)) /\ (\A T \in Minus : IsFiniteSet(T))
    BY <1>3
  <1>5. QED
    BY <1>2, <1>4, FS_UNION DEF Credited, Debited

\* Grants come to no more than the positive ones among them, and those only
\* gain by further grants.
LEMMA PositiveGrantsMakeMost ==
    ASSUME NEW G \in SUBSET Grant, IsFiniteSet(G), NEW P \in SUBSET Grant, IsFiniteSet(P),
           \A g \in P : g.credits > 0, \A g \in G : g.credits > 0 => g \in P
    PROVE  SumCredits(G) \in Int /\ SumCredits(P) \in Nat /\ SumCredits(G) <= SumCredits(P)
  <1>1. IsFiniteSet(Credited(G)) /\ IsFiniteSet(Debited(G)) /\ IsFiniteSet(Credited(P))
    BY UnitsFinite
  <1>2. Debited(P) = {}
    BY DEF Debited, Grant
  <1>3. Credited(G) \in SUBSET Credited(P)
    BY DEF Credited, Grant
  <1>4. /\ Cardinality(Credited(G)) \in Nat /\ Cardinality(Debited(G)) \in Nat
        /\ Cardinality(Credited(P)) \in Nat
    BY <1>1, FS_CardinalityType
  <1>5. Cardinality(Credited(G)) <= Cardinality(Credited(P))
    BY <1>1, <1>3, FS_Subset
  <1>6. Cardinality(Debited(P)) = 0
    BY <1>2, FS_EmptySet
  <1>7. QED
    BY <1>4, <1>5, <1>6 DEF SumCredits

LEMMA UnionBound ==
    ASSUME NEW S \in SUBSET Requests, NEW T \in SUBSET Requests
    PROVE  Cardinality(S \cup T) <= Cardinality(S) + Cardinality(T)
  <1>1. IsFiniteSet(S) /\ IsFiniteSet(T)
    BY FewerRequests
  <1>2. Cardinality(S \cup T) = Cardinality(S) + Cardinality(T) - Cardinality(S \cap T)
    BY <1>1, FS_Union
  <1>3. S \cap T \in SUBSET Requests
    OBVIOUS
  <1>4. Cardinality(S) \in Nat /\ Cardinality(T) \in Nat /\ Cardinality(S \cap T) \in Nat
    BY <1>3, FewerRequests
  <1>5. QED
    BY <1>2, <1>4

LEMMA CreditInit == Init => CreditInv
  <1> SUFFICES ASSUME Init PROVE CreditInv
    OBVIOUS
  <1>1. BoundInv /\ TypeInv
    BY BoundInit DEF BoundInv, TrailInv
  <1>2. ReadsAreOld /\ HoldersBounded
    BY DEF Init, ReadsAreOld, HoldersBounded, Holding
  <1>3. ASSUME NEW b \in Businesses
        PROVE  Cardinality(CreditClaims(b)) <= SumCredits(Bought(b)) + MaxInFlight - 1
    <2>1. CreditClaims(b) = {}
      BY DEF Init, CreditClaims, CreditPending
    <2>2. Bought(b) = {}
      BY DEF Init, EngineInit, Bought
    <2>3. SumCredits(Bought(b)) \in Nat
      BY <2>2, FS_EmptySet, PositiveGrantsMakeMost
    <2>4. QED
      BY <2>1, <2>3, FS_EmptySet, UnlockAssumption
  <1>4. QED
    BY <1>1, <1>2, <1>3 DEF CreditInv, CreditClaimsBounded

\* The four ways a step can bear on the credits.

\* A request learns how many credits are spent.
Counting(r) ==
    /\ pc[r] = "credits" /\ spent[r] = NotRead
    /\ spent' = [spent EXCEPT ![r] = Cardinality(Spent(caller[r]))]
    /\ UNCHANGED <<audits, grants, pc, caller, policy, granted>>

\* A request is allowed on the credits it has read.
Affording(r) ==
    /\ pc[r] = "credits" /\ granted[r] # NotRead /\ spent[r] # NotRead
    /\ SumCredits(granted[r]) - spent[r] > 0
    /\ pc' = [pc EXCEPT ![r] = "commit"]
    /\ spent' = [spent EXCEPT ![r] = NotRead]
    /\ granted' = [granted EXCEPT ![r] = NotRead]
    /\ UNCHANGED <<audits, grants, caller, policy>>

\* No request claims a credit or learns of one spent; grants may come.
Easing ==
    /\ UNCHANGED <<audits, caller>>
    /\ grants \subseteq grants'
    /\ \A q \in Requests :
          /\ CreditPending(q)' => CreditPending(q)
          /\ spent'[q] # NotRead => spent'[q] = spent[q] /\ pc'[q] = pc[q]
          /\ \/ granted'[q] = NotRead
             \/ granted'[q] = granted[q]
             \/ granted'[q] \subseteq {g \in grants : g.business = caller[q]}

LEMMA JudgeEases ==
    ASSUME TypeInv, NEW r \in Requests, NEW found, \A f \in found : f \in Forms,
           Judge(r, found), Owns(r), UNCHANGED <<engineVars, dbVars, caller, target>>,
           pc[r] \in {"policies", "business"}, spent[r] = NotRead,
           \A q \in Requests \ {r} : pc'[q] = pc[q] /\ policy'[q] = policy[q]
    PROVE  Easing
  <1>1. ~CreditPending(r)'
    BY JudgePhases DEF CreditPending
  <1>2. /\ spent'[r] = NotRead
        /\ granted'[r] = NotRead \/ granted'[r] = granted[r]
        /\ \A q \in Requests \ {r} : spent'[q] = spent[q] /\ granted'[q] = granted[q]
    BY DEF Judge, Finish, TypeInv, TypeOK
  <1>3. QED
    BY <1>1, <1>2 DEF Easing, CreditPending, engineVars, dbVars

LEMMA HandleCredits ==
    ASSUME TypeInv, ReadsAreOld, NEW r \in Requests, Handle(r)
    PROVE  Counting(r) \/ Affording(r) \/ Commit(r) \/ Easing
  <1> USE DEF TypeInv, TypeOK
  <1>1. CASE ReadLead(r)
    <2>1. pc[r] = "new" /\ spent[r] = NotRead /\ UNCHANGED <<audits, caller, grants>>
      BY <1>1 DEF ReadLead, ReadsAreOld, engineVars
    <2>2. CASE Finish(r, "refused") \/ Finish(r, "opened")
      BY <2>1, <2>2 DEF Easing, CreditPending, Finish, Goto
    <2>3. CASE Goto(r, "policies") /\ UNCHANGED <<policy, granted, spent>>
      BY <2>1, <2>3 DEF Easing, CreditPending, Goto
    <2>4. QED
      BY <1>1, <2>2, <2>3 DEF ReadLead
  <1>2. CASE ReadPolicies(r)
    <2>1. \A f \in InForce(Candidates(asOf[r]), caller[r], {}) : f \in Forms
      BY InForceAreRows, CandidatesAreForms
    <2>2. pc[r] = "policies" /\ spent[r] = NotRead /\ Owns(r)
      BY <1>2 DEF ReadPolicies, ReadsAreOld, Phases, Running
    <2>3. CASE Judge(r, InForce(Candidates(asOf[r]), caller[r], {}))
      BY <1>2, <2>1, <2>2, <2>3, JudgeEases, HandleFrame DEF ReadPolicies
    <2>4. CASE ~Judge(r, InForce(Candidates(asOf[r]), caller[r], {}))
      BY <1>2, <2>2, <2>4 DEF ReadPolicies, Easing, CreditPending, Goto, engineVars, dbVars
    <2>5. QED
      BY <2>3, <2>4
  <1>3. CASE ReadBusiness(r)
    <2>1. \A f \in InForce(cands[r], caller[r], approved) : f \in Forms
      BY InForceAreRows
    <2>2. pc[r] = "business" /\ spent[r] = NotRead /\ Owns(r)
      BY <1>3 DEF ReadBusiness, ReadsAreOld, Phases, Running
    <2>3. QED
      BY <1>3, <2>1, <2>2, JudgeEases, HandleFrame DEF ReadBusiness
  <1>4. CASE CountQuota(r)
    <2>1. policy[r].rule = "MONTHLY_QUOTA"
      BY <1>4 DEF CountQuota, Phases
    <2>2. CASE Finish(r, "refused")
      BY <1>4, <2>2 DEF CountQuota, Easing, CreditPending, Finish, Goto, engineVars, dbVars
    <2>3. CASE Allow(r)
      BY <1>4, <2>1, <2>3 DEF CountQuota, Easing, CreditPending, Allow, Goto, engineVars, dbVars
    <2>4. QED
      BY <1>4, <2>2, <2>3 DEF CountQuota
  <1>5. CASE ReadGrants(r)
    BY <1>5 DEF ReadGrants, UnexpiredGrants, Easing, CreditPending, engineVars, dbVars
  <1>6. CASE CountSpent(r)
    BY <1>6 DEF CountSpent, Counting, engineVars, dbVars
  <1>7. CASE JudgeBalance(r)
    <2>1. CASE Finish(r, "refused")
      BY <1>7, <2>1 DEF JudgeBalance, Easing, CreditPending, Finish, Goto, engineVars, dbVars
    <2>2. CASE HasBalance(granted[r], spent[r]) /\ Allow(r)
      BY <1>7, <2>2 DEF JudgeBalance, HasBalance, Affording, Allow, Goto, engineVars, dbVars
    <2>3. QED
      BY <1>7, <2>1, <2>2 DEF JudgeBalance
  <1>8. CASE Commit(r)
    BY <1>8
  <1>9. QED
    BY <1>1, <1>2, <1>3, <1>4, <1>5, <1>6, <1>7, <1>8 DEF Handle

LEMMA CreditKinds ==
    ASSUME TypeInv, ReadsAreOld, [Next]_vars
    PROVE  \/ \E r \in Requests : Counting(r) \/ Affording(r) \/ Commit(r)
           \/ Easing
  <1>1. CASE \E r \in Requests : Handle(r)
    BY <1>1, HandleCredits
  <1>2. CASE \E b \in Businesses, l \in Leads : GetLead(b, l)
    BY <1>2 DEF GetLead, Easing, CreditPending, engineVars, requestVars, locals
  <1>3. CASE Administer /\ UNCHANGED <<dbVars, requestVars>>
    <2>1. grants \subseteq grants'
      BY <1>3 DEF Administer, CreatePolicy, UpdatePolicy, DeletePolicy, GrantCredits,
                  VerifyBusiness, NextMonth
    <2>2. QED
      BY <1>3, <2>1 DEF Easing, CreditPending, dbVars, requestVars, locals
  <1>4. CASE Crash
    BY <1>4 DEF Crash, Easing, CreditPending, Running, TypeInv, TypeOK, engineVars, dbVars
  <1>5. CASE UNCHANGED vars
    BY <1>5 DEF vars, Easing, CreditPending, engineVars, dbVars, requestVars, locals
  <1>6. QED
    BY <1>1, <1>2, <1>3, <1>4, <1>5 DEF Next
LEMMA BoughtGrows ==
    ASSUME TypeInv, TypeInv', grants \subseteq grants', NEW b
    PROVE  /\ SumCredits(Bought(b)) \in Nat
           /\ SumCredits(Bought(b))' \in Nat
           /\ SumCredits(Bought(b)) <= SumCredits(Bought(b))'
  <1>1. /\ Bought(b) \in SUBSET Grant /\ Bought(b) \in SUBSET grants
        /\ Bought(b)' \in SUBSET Grant /\ Bought(b)' \in SUBSET grants'
    BY DEF Bought, TypeInv, TypeOK, EngineTypeOK
  <1>2. IsFiniteSet(Bought(b)) /\ IsFiniteSet(Bought(b)')
    BY <1>1, FS_Subset DEF TypeInv, FiniteTables
  <1>3. /\ \A g \in Bought(b) : g.credits > 0 /\ g \in Bought(b)'
        /\ \A g \in Bought(b)' : g.credits > 0
    BY DEF Bought
  <1>4. SumCredits(Bought(b)) \in Nat
    BY <1>1, <1>2, <1>3, PositiveGrantsMakeMost
  <1>5. SumCredits(Bought(b)') \in Nat /\ SumCredits(Bought(b)) <= SumCredits(Bought(b)')
    BY <1>1, <1>2, <1>3, PositiveGrantsMakeMost
  <1>6. SumCredits(Bought(b))' = SumCredits(Bought(b)')
    BY DEF SumCredits, Credited, Debited
  <1>7. QED
    BY <1>4, <1>5, <1>6

LEMMA SpentGrows ==
    ASSUME TypeInv, TypeInv', audits \subseteq audits', NEW b
    PROVE  /\ Cardinality(Spent(b)) \in Nat /\ Cardinality(Spent(b))' \in Nat
           /\ Cardinality(Spent(b)) <= Cardinality(Spent(b))'
  <1>1. Spent(b) \in SUBSET audits /\ Spent(b)' \in SUBSET audits' /\ Spent(b) \in SUBSET Spent(b)'
    BY DEF Spent
  <1>2. IsFiniteSet(Spent(b)) /\ IsFiniteSet(Spent(b)')
    BY <1>1, FS_Subset DEF TypeInv, FiniteTables
  <1>3. QED
    BY <1>1, <1>2, FS_Subset, FS_CardinalityType

\* Requests that have spent a credit or are under way are no more than the
\* credits spent and the requests that fit in beside each other.
LEMMA SpendersUnderWay ==
    ASSUME BoundInv, NEW b \in Businesses, NEW S \in SUBSET Requests,
           \A q \in S : q \in InFlight(b) \/ \E a \in Spent(b) : a.req = q
    PROVE  Cardinality(S) <= Cardinality(Spent(b)) + MaxInFlight
  <1> DEFINE Wrote == {q \in Requests : \E a \in Spent(b) : a.req = q}
  <1>1. Wrote \in SUBSET Requests /\ InFlight(b) \in SUBSET Requests /\ Spent(b) \in SUBSET audits
    BY DEF InFlight, Spent
  <1>2. S \in SUBSET (Wrote \cup InFlight(b)) /\ Wrote \cup InFlight(b) \in SUBSET Requests
    BY <1>1
  <1>3. Cardinality(Wrote) <= Cardinality(Spent(b))
    BY <1>1, RequestsAreRows DEF BoundInv, TrailInv
  <1>4. Cardinality(InFlight(b)) <= MaxInFlight
    BY DEF BoundInv, InFlightBounded
  <1>5. Cardinality(Wrote \cup InFlight(b)) <= Cardinality(Wrote) + Cardinality(InFlight(b))
    BY <1>1, UnionBound
  <1>6. Cardinality(S) <= Cardinality(Wrote \cup InFlight(b))
    BY <1>2, FewerRequests
  <1>7. /\ Cardinality(S) \in Nat /\ Cardinality(Wrote) \in Nat /\ Cardinality(InFlight(b)) \in Nat
        /\ Cardinality(Wrote \cup InFlight(b)) \in Nat
    BY <1>1, <1>2, FewerRequests
  <1>8. Cardinality(Spent(b)) \in Nat
    BY <1>1, FS_Subset, FS_CardinalityType DEF BoundInv, TrailInv, TypeInv, FiniteTables
  <1>9. QED
    BY <1>3, <1>4, <1>5, <1>6, <1>7, <1>8, UnlockAssumption

LEMMA ReadsStep ==
    ASSUME TypeInv, TypeInv', ReadsAreOld, [Next]_vars
    PROVE  ReadsAreOld'
  <1>1. ASSUME Easing
        PROVE  ReadsAreOld'
    BY <1>1 DEF Easing, ReadsAreOld, Spent
  <1>2. ASSUME NEW r \in Requests, Counting(r)
        PROVE  ReadsAreOld'
    <2>1. caller[r] \in Businesses /\ Cardinality(Spent(caller[r])) \in Nat
      BY <1>2, SpentGrows DEF Counting, TypeInv, TypeOK
    <2>2. \A q \in Requests : Spent(caller[q])' = Spent(caller[q])
      BY <1>2 DEF Counting, Spent
    <2>3. spent'[r] = Cardinality(Spent(caller[r])) /\ \A q \in Requests \ {r} : spent'[q] = spent[q]
      BY <1>2 DEF Counting, TypeInv, TypeOK
    <2>4. QED
      BY <1>2, <2>1, <2>2, <2>3 DEF Counting, ReadsAreOld
  <1>3. ASSUME NEW r \in Requests, Affording(r)
        PROVE  ReadsAreOld'
    BY <1>3 DEF Affording, ReadsAreOld, Spent, TypeInv, TypeOK
  <1>4. ASSUME NEW r \in Requests, Commit(r)
        PROVE  ReadsAreOld'
    <2>1. /\ audits \subseteq audits' /\ UNCHANGED <<grants, caller>>
          /\ granted'[r] = NotRead /\ spent'[r] = NotRead
          /\ \A q \in Requests \ {r} :
                granted'[q] = granted[q] /\ spent'[q] = spent[q] /\ pc'[q] = pc[q]
      BY <1>4 DEF Commit, WriteAudit, Finish, Goto, engineVars, TypeInv, TypeOK
    <2>2. ASSUME NEW q \in Requests \ {r}, spent[q] # NotRead
          PROVE  spent[q] <= Cardinality(Spent(caller[q]))'
      <3>1. spent[q] \in Nat /\ spent[q] <= Cardinality(Spent(caller[q]))
        BY <2>2 DEF ReadsAreOld, TypeInv, TypeOK
      <3>2. /\ Cardinality(Spent(caller[q])) \in Nat /\ Cardinality(Spent(caller[q]))' \in Nat
            /\ Cardinality(Spent(caller[q])) <= Cardinality(Spent(caller[q]))'
        <4>1. PICK b : b = caller[q]
          OBVIOUS
        <4>2. /\ Cardinality(Spent(b)) \in Nat /\ Cardinality(Spent(b))' \in Nat
              /\ Cardinality(Spent(b)) <= Cardinality(Spent(b))'
          BY <2>1, SpentGrows
        <4>3. Spent(caller[q]) = Spent(b) /\ Spent(caller[q])' = Spent(b)'
          BY <2>1, <4>1
        <4>4. QED
          BY <4>2, <4>3
      <3>3. QED
        BY <3>1, <3>2
    <2>3. QED
      BY <2>1, <2>2 DEF ReadsAreOld
  <1>5. QED
    BY <1>1, <1>2, <1>3, <1>4, CreditKinds
\* Committing turns the claim of a running request into the claim of its row.
LEMMA ClaimsKept ==
    ASSUME TypeInv, Easing \/ \E r \in Requests : Counting(r) \/ Commit(r), NEW b
    PROVE  CreditClaims(b)' \subseteq CreditClaims(b)
  <1>1. CASE Easing
    BY <1>1 DEF Easing, CreditClaims
  <1>2. CASE \E r \in Requests : Counting(r)
    BY <1>2 DEF Counting, CreditClaims, CreditPending
  <1>3. CASE \E r \in Requests : Commit(r)
    BY <1>3 DEF Commit, WriteAudit, AuditRow, Finish, Goto, CreditClaims, CreditPending,
                TypeInv, TypeOK
  <1>4. QED
    BY <1>1, <1>2, <1>3

\* The request allowed last is one of the holders its own count bounds.
LEMMA AffordingWithin ==
    ASSUME CreditInv, NEW r \in Requests, Affording(r)
    PROVE  Cardinality(CreditClaims(caller[r]) \cup HoldingUpTo(caller[r], spent[r]))
             <= SumCredits(Bought(caller[r])) + MaxInFlight - 1
  <1> DEFINE bought == Bought(caller[r])
             after == Cardinality(CreditClaims(caller[r]) \cup HoldingUpTo(caller[r], spent[r]))
  <1> USE DEF CreditInv, BoundInv, TrailInv, TypeInv, TypeOK
  <1>1. /\ Holding(r) /\ spent[r] \in Nat /\ granted[r] \in SUBSET Grant
        /\ granted[r] \subseteq {g \in grants : g.business = caller[r]}
    BY DEF Affording, Holding, ReadsAreOld
  <1>2. /\ bought \in SUBSET Grant /\ IsFiniteSet(bought) /\ IsFiniteSet(granted[r])
        /\ \A g \in bought : g.credits > 0
        /\ \A g \in granted[r] : g.credits > 0 => g \in bought
    <2>1. bought \in SUBSET grants /\ granted[r] \in SUBSET grants
      BY <1>1 DEF Bought
    <2>2. IsFiniteSet(bought) /\ IsFiniteSet(granted[r])
      BY <2>1, FS_Subset DEF FiniteTables
    <2>3. QED
      BY <1>1, <2>1, <2>2 DEF Bought, EngineTypeOK
  <1>3. /\ SumCredits(granted[r]) \in Int /\ SumCredits(bought) \in Nat
        /\ SumCredits(granted[r]) <= SumCredits(bought)
    BY <1>1, <1>2, PositiveGrantsMakeMost
  <1>4. spent[r] < SumCredits(bought)
    BY <1>1, <1>3 DEF Affording
  <1>5. after <= SumCredits(bought) + MaxInFlight - 1 \/ after <= spent[r] + MaxInFlight
    BY <1>1 DEF HoldersBounded
  <1>6. after \in Nat
    <2>1. CreditClaims(caller[r]) \cup HoldingUpTo(caller[r], spent[r]) \in SUBSET Requests
      BY DEF CreditClaims, HoldingUpTo
    <2>2. QED
      BY <2>1, FewerRequests
  <1>7. QED
    BY <1>1, <1>3, <1>4, <1>5, <1>6, UnlockAssumption

LEMMA CreditClaimsStep ==
    ASSUME CreditInv, [Next]_vars, TypeInv'
    PROVE  CreditClaimsBounded'
  <1> SUFFICES ASSUME NEW b \in Businesses
               PROVE  Cardinality(CreditClaims(b))' <= SumCredits(Bought(b))' + MaxInFlight - 1
    BY DEF CreditClaimsBounded
  <1> USE DEF CreditInv, BoundInv, TrailInv
  <1>0. /\ CreditClaims(b) \in SUBSET Requests /\ CreditClaims(b)' \in SUBSET Requests
        /\ Cardinality(CreditClaims(b)) \in Nat /\ Cardinality(CreditClaims(b))' \in Nat
        /\ MaxInFlight \in Nat
        /\ Cardinality(CreditClaims(b)) <= SumCredits(Bought(b)) + MaxInFlight - 1
    <2>1. CreditClaims(b) \in SUBSET Requests /\ CreditClaims(b)' \in SUBSET Requests
      BY DEF CreditClaims
    <2>2. QED
      BY <2>1, FewerRequests, UnlockAssumption DEF CreditClaimsBounded
  <1>1. ASSUME grants \subseteq grants', CreditClaims(b)' \subseteq CreditClaims(b)
        PROVE  Cardinality(CreditClaims(b))' <= SumCredits(Bought(b))' + MaxInFlight - 1
    <2>1. Cardinality(CreditClaims(b))' <= Cardinality(CreditClaims(b))
      BY <1>0, <1>1, FewerRequests
    <2>2. /\ SumCredits(Bought(b)) \in Nat /\ SumCredits(Bought(b))' \in Nat
          /\ SumCredits(Bought(b)) <= SumCredits(Bought(b))'
      BY <1>1, BoughtGrows
    <2>3. QED
      BY <1>0, <2>1, <2>2
  <1>2. CASE Easing \/ \E r \in Requests : Counting(r) \/ Commit(r)
    <2>1. grants \subseteq grants'
      BY <1>2 DEF Easing, Counting, Commit, engineVars
    <2>2. CreditClaims(b)' \subseteq CreditClaims(b)
      BY <1>2, ClaimsKept
    <2>3. QED
      BY <1>1, <2>1, <2>2
  <1>3. ASSUME NEW r \in Requests, Affording(r), caller[r] # b
        PROVE  CreditClaims(b)' \subseteq CreditClaims(b) /\ grants \subseteq grants'
    BY <1>3 DEF Affording, CreditClaims, CreditPending, TypeInv, TypeOK
  <1>4. ASSUME NEW r \in Requests, Affording(r), caller[r] = b
        PROVE  Cardinality(CreditClaims(b))' <= SumCredits(Bought(b))' + MaxInFlight - 1
    <2>1. CreditClaims(b)' \subseteq CreditClaims(b) \cup HoldingUpTo(b, spent[r])
      <3>1. spent[r] \in Nat /\ r \in HoldingUpTo(b, spent[r])
        BY <1>4 DEF Affording, HoldingUpTo, Holding, TypeInv, TypeOK
      <3>2. CreditClaims(b)' \subseteq CreditClaims(b) \cup {r}
        BY <1>4 DEF Affording, CreditClaims, CreditPending, TypeInv, TypeOK
      <3>3. QED
        BY <3>1, <3>2
    <2>2. CreditClaims(b) \cup HoldingUpTo(b, spent[r]) \in SUBSET Requests
      BY <1>0 DEF HoldingUpTo
    <2>3. Cardinality(CreditClaims(b))' <= Cardinality(CreditClaims(b) \cup HoldingUpTo(b, spent[r]))
      BY <1>0, <2>1, <2>2, FewerRequests
    <2>4. Cardinality(CreditClaims(b) \cup HoldingUpTo(b, spent[r]))
            <= SumCredits(Bought(b)) + MaxInFlight - 1
      BY <1>4, AffordingWithin
    <2>5. /\ SumCredits(Bought(b)) \in Nat /\ SumCredits(Bought(b))' \in Nat
          /\ SumCredits(Bought(b)) <= SumCredits(Bought(b))'
      BY <1>4, BoughtGrows DEF Affording
    <2>6. Cardinality(CreditClaims(b) \cup HoldingUpTo(b, spent[r])) \in Nat
      BY <2>2, FewerRequests
    <2>7. QED
      BY <1>0, <2>3, <2>4, <2>5, <2>6
  <1>5. QED
    BY <1>1, <1>2, <1>3, <1>4, CreditKinds

\* Who is bounded with a reader of a count stays so, when fewer hold a count
\* and more is bought.
LEMMA HolderKept ==
    ASSUME CreditInv, TypeInv', grants \subseteq grants', UNCHANGED caller, NEW q \in Requests,
           Holding(q), spent'[q] = spent[q],
           CreditClaims(caller[q])' \cup HoldingUpTo(caller[q], spent[q])'
             \subseteq CreditClaims(caller[q]) \cup HoldingUpTo(caller[q], spent[q])
    PROVE  LET after == Cardinality(CreditClaims(caller[q]) \cup HoldingUpTo(caller[q], spent[q]))' IN
           \/ after <= SumCredits(Bought(caller[q]))' + MaxInFlight - 1
           \/ after <= spent'[q] + MaxInFlight
  <1> USE DEF CreditInv, BoundInv, TrailInv
  <1>1. PICK b : b = caller[q]
    OBVIOUS
  <1>2. PICK n : n = spent[q]
    OBVIOUS
  <1>3. b = caller'[q] /\ n = spent'[q] /\ b \in Businesses /\ n \in Nat
    BY <1>1, <1>2 DEF Holding, TypeInv, TypeOK
  <1>4. /\ CreditClaims(b) \cup HoldingUpTo(b, n) \in SUBSET Requests
        /\ (CreditClaims(b) \cup HoldingUpTo(b, n))' \in SUBSET Requests
    BY DEF CreditClaims, HoldingUpTo
  <1>5. (CreditClaims(b) \cup HoldingUpTo(b, n))' \subseteq CreditClaims(b) \cup HoldingUpTo(b, n)
    BY <1>1, <1>2, <1>3
  <1>6. /\ Cardinality(CreditClaims(b) \cup HoldingUpTo(b, n))'
             <= Cardinality(CreditClaims(b) \cup HoldingUpTo(b, n))
        /\ Cardinality(CreditClaims(b) \cup HoldingUpTo(b, n)) \in Nat
        /\ Cardinality(CreditClaims(b) \cup HoldingUpTo(b, n))' \in Nat
    BY <1>4, <1>5, FewerRequests
  <1>7. /\ SumCredits(Bought(b)) \in Nat /\ SumCredits(Bought(b))' \in Nat
        /\ SumCredits(Bought(b)) <= SumCredits(Bought(b))'
    BY BoughtGrows
  <1>8. \/ Cardinality(CreditClaims(b) \cup HoldingUpTo(b, n)) <= SumCredits(Bought(b)) + MaxInFlight - 1
        \/ Cardinality(CreditClaims(b) \cup HoldingUpTo(b, n)) <= n + MaxInFlight
    BY <1>1, <1>2 DEF HoldersBounded
  <1>9. MaxInFlight \in Nat
    BY UnlockAssumption
  <1>10. \/ Cardinality(CreditClaims(b) \cup HoldingUpTo(b, n))' <= SumCredits(Bought(b))' + MaxInFlight - 1
         \/ Cardinality(CreditClaims(b) \cup HoldingUpTo(b, n))' <= n + MaxInFlight
    BY <1>3, <1>6, <1>7, <1>8, <1>9
  <1>11. QED
    BY <1>1, <1>2, <1>3, <1>10
LEMMA HoldersStep ==
    ASSUME CreditInv, [Next]_vars, TypeInv'
    PROVE  HoldersBounded'
  <1> DEFINE Within(q) ==
        LET after == Cardinality(CreditClaims(caller[q]) \cup HoldingUpTo(caller[q], spent[q])) IN
        \/ after <= SumCredits(Bought(caller[q])) + MaxInFlight - 1
        \/ after <= spent[q] + MaxInFlight
  <1> SUFFICES ASSUME NEW q \in Requests, Holding(q)'
               PROVE  Within(q)'
    BY DEF HoldersBounded
  <1> USE DEF CreditInv, BoundInv, TrailInv, TypeInv, TypeOK
  <1>1. ASSUME Holding(q), spent'[q] = spent[q], UNCHANGED caller, grants \subseteq grants',
               CreditClaims(caller[q])' \cup HoldingUpTo(caller[q], spent[q])'
                 \subseteq CreditClaims(caller[q]) \cup HoldingUpTo(caller[q], spent[q])
        PROVE  Within(q)'
    <2> HIDE DEF CreditInv, BoundInv, TrailInv, TypeInv, TypeOK
    <2>1. QED
      BY <1>1, HolderKept
  <1>2. CASE Easing
    <2>1. Holding(q) /\ spent'[q] = spent[q] /\ UNCHANGED caller /\ grants \subseteq grants'
      BY <1>2 DEF Easing, Holding
    <2>2. CreditClaims(caller[q])' \subseteq CreditClaims(caller[q])
      BY <1>2 DEF Easing, CreditClaims
    <2>3. HoldingUpTo(caller[q], spent[q])' \subseteq HoldingUpTo(caller[q], spent[q])
      BY <1>2, <2>1 DEF Easing, HoldingUpTo, Holding
    <2>4. QED
      BY <1>1, <2>1, <2>2, <2>3
  <1>3. ASSUME NEW r \in Requests, Commit(r)
        PROVE  Within(q)'
    <2>1. /\ q # r /\ Holding(q) /\ spent'[q] = spent[q] /\ UNCHANGED caller /\ grants \subseteq grants'
          /\ \A p \in Requests : Holding(p)' => Holding(p) /\ spent'[p] = spent[p]
      BY <1>3 DEF Commit, Finish, Goto, Holding, engineVars
    <2>2. CreditClaims(caller[q])' \subseteq CreditClaims(caller[q])
      <3>1. PICK b : b = caller[q]
        OBVIOUS
      <3>2. CreditClaims(b)' \subseteq CreditClaims(b)
        BY <1>3, ClaimsKept
      <3>3. QED
        BY <2>1, <3>1, <3>2
    <2>3. HoldingUpTo(caller[q], spent[q])' \subseteq HoldingUpTo(caller[q], spent[q])
      BY <2>1 DEF HoldingUpTo
    <2>4. QED
      BY <1>1, <2>1, <2>2, <2>3
  <1>4. ASSUME NEW r \in Requests, Affording(r)
        PROVE  Within(q)'
    <2>1. /\ q # r /\ Holding(q) /\ spent'[q] = spent[q] /\ UNCHANGED <<caller, grants>>
          /\ \A p \in Requests : Holding(p)' => Holding(p) /\ spent'[p] = spent[p]
          /\ Holding(r) /\ spent[r] \in Nat /\ spent[q] \in Nat
      BY <1>4 DEF Affording, Holding
    <2>2. /\ CreditClaims(caller[q])' \subseteq CreditClaims(caller[q]) \cup {r}
          /\ caller[r] # caller[q] => CreditClaims(caller[q])' \subseteq CreditClaims(caller[q])
      BY <1>4 DEF Affording, CreditClaims, CreditPending
    <2>3. HoldingUpTo(caller[q], spent[q])' \subseteq HoldingUpTo(caller[q], spent[q])
      BY <2>1 DEF HoldingUpTo
    <2>4. CASE caller[r] # caller[q] \/ spent[r] <= spent[q]
      <3>1. caller[r] = caller[q] => r \in HoldingUpTo(caller[q], spent[q])
        BY <2>1, <2>4 DEF HoldingUpTo
      <3>2. QED
        BY <1>1, <2>1, <2>2, <2>3, <3>1
    <2>5. CASE caller[r] = caller[q] /\ spent[r] > spent[q]
      <3>1. CreditClaims(caller[q])' \cup HoldingUpTo(caller[q], spent[q])'
              \subseteq CreditClaims(caller[r]) \cup HoldingUpTo(caller[r], spent[r])
        <4>1. r \in HoldingUpTo(caller[r], spent[r])
          BY <2>1 DEF HoldingUpTo
        <4>2. HoldingUpTo(caller[q], spent[q]) \subseteq HoldingUpTo(caller[r], spent[r])
          BY <2>1, <2>5 DEF HoldingUpTo, Holding
        <4>3. QED
          BY <2>2, <2>3, <2>5, <4>1, <4>2
      <3>2. CreditClaims(caller[r]) \cup HoldingUpTo(caller[r], spent[r]) \in SUBSET Requests
        BY DEF CreditClaims, HoldingUpTo
      <3>3. Cardinality(CreditClaims(caller[q]) \cup HoldingUpTo(caller[q], spent[q]))'
              <= Cardinality(CreditClaims(caller[r]) \cup HoldingUpTo(caller[r], spent[r]))
        BY <3>1, <3>2, FewerRequests
      <3>4. Cardinality(CreditClaims(caller[r]) \cup HoldingUpTo(caller[r], spent[r]))
              <= SumCredits(Bought(caller[r])) + MaxInFlight - 1
        <4> HIDE DEF CreditInv, BoundInv, TrailInv, TypeInv, TypeOK
        <4>1. QED
          BY <1>4, AffordingWithin
      <3>5. /\ Cardinality(CreditClaims(caller[r]) \cup HoldingUpTo(caller[r], spent[r])) \in Nat
            /\ Cardinality(CreditClaims(caller[q]) \cup HoldingUpTo(caller[q], spent[q]))' \in Nat
        <4>1. (CreditClaims(caller[q]) \cup HoldingUpTo(caller[q], spent[q]))' \in SUBSET Requests
          BY <3>1, <3>2
        <4>2. QED
          BY <3>2, <4>1, FewerRequests
      <3>6. SumCredits(Bought(caller[r])) = SumCredits(Bought(caller[q]))'
        BY <2>1, <2>5 DEF Bought
      <3>7. SumCredits(Bought(caller[r])) \in Nat
        BY <2>1, BoughtGrows
      <3>8. QED
        BY <3>3, <3>4, <3>5, <3>6, <3>7, UnlockAssumption
    <2>6. QED
      BY <2>1, <2>4, <2>5
  <1>5. ASSUME NEW r \in Requests, Counting(r)
        PROVE  Within(q)'
    <2>1. /\ UNCHANGED <<audits, grants, pc, caller, policy>>
          /\ spent'[r] = Cardinality(Spent(caller[r]))
          /\ \A p \in Requests \ {r} : spent'[p] = spent[p] /\ (Holding(p)' <=> Holding(p))
          /\ \A b : CreditClaims(b)' = CreditClaims(b)
      BY <1>5 DEF Counting, Holding, CreditClaims, CreditPending
    <2>2. CASE q # r /\ r \notin HoldingUpTo(caller[q], spent[q])'
      <3>1. Holding(q) /\ spent'[q] = spent[q]
        BY <2>1, <2>2
      <3>2. HoldingUpTo(caller[q], spent[q])' \subseteq HoldingUpTo(caller[q], spent[q])
        BY <2>1, <2>2, <3>1 DEF HoldingUpTo
      <3>3. CreditClaims(caller[q])' = CreditClaims(caller[q])
        BY <2>1
      <3>4. QED
        BY <1>1, <2>1, <3>1, <3>2, <3>3
    \* The count is of this moment, so only requests under way can add to it.
    <2>3. CASE q = r \/ r \in HoldingUpTo(caller[q], spent[q])'
      <3>1. caller[r] = caller[q] /\ Cardinality(Spent(caller[q])) <= spent'[q]
        <4>1. Cardinality(Spent(caller[r])) \in Nat
          BY SpentGrows, <2>1
        <4>2. CASE q = r
          BY <2>1, <4>1, <4>2
        <4>3. CASE r \in HoldingUpTo(caller[q], spent[q])'
          <5>1. caller'[r] = caller'[q] /\ spent'[r] <= spent'[q]
            BY <4>3 DEF HoldingUpTo
          <5>2. QED
            BY <2>1, <5>1
        <4>4. QED
          BY <2>3, <4>2, <4>3
      <3>2. PICK S : S = (CreditClaims(caller[q]) \cup HoldingUpTo(caller[q], spent[q]))'
        OBVIOUS
      <3>3. S \in SUBSET Requests
        BY <3>2 DEF CreditClaims, HoldingUpTo
      <3>4. \A p \in S : p \in InFlight(caller[q]) \/ \E a \in Spent(caller[q]) : a.req = p
        BY <2>1, <3>2 DEF CreditClaims, CreditPending, HoldingUpTo, Holding, InFlight, Running, Spent
      <3>5. caller[q] \in Businesses
        OBVIOUS
      <3>6. Cardinality(S) <= Cardinality(Spent(caller[q])) + MaxInFlight
        <4>1. BoundInv
          OBVIOUS
        <4> HIDE DEF CreditInv, BoundInv, TrailInv, TypeInv, TypeOK
        <4>2. QED
          BY <3>3, <3>4, <3>5, <4>1, SpendersUnderWay
      <3>7. Cardinality(Spent(caller[q])) \in Nat /\ Cardinality(S) \in Nat /\ spent'[q] \in Nat
        BY <2>1, <3>3, FewerRequests, SpentGrows DEF Holding
      <3>8. QED
        BY <3>1, <3>2, <3>6, <3>7, UnlockAssumption
    <2>4. QED
      BY <2>2, <2>3
  <1>6. QED
    BY <1>2, <1>3, <1>4, <1>5, CreditKinds

LEMMA CreditStep == CreditInv /\ [Next]_vars => CreditInv'
  <1> SUFFICES ASSUME CreditInv, [Next]_vars PROVE CreditInv'
    OBVIOUS
  <1>1. BoundInv' /\ TypeInv' /\ TypeInv
    BY BoundStep DEF CreditInv, BoundInv, TrailInv
  <1>2. QED
    BY <1>1, ReadsStep, CreditClaimsStep, HoldersStep DEF CreditInv

\* No business opens more leads on credit than it was ever granted, but for
\* the other requests under way when its balance ran out: creditBalance
\* reads grants and spending with two queries and holds nothing until the
\* transaction of unlockLead.
THEOREM CreditsNotOversoldHolds == Spec => []CreditsNotOversold
  <1>1. CreditInv => CreditsNotOversold
    <2> SUFFICES ASSUME CreditInv, NEW b \in Businesses
                 PROVE  Cardinality(Spent(b)) <= SumCredits(Bought(b)) + MaxInFlight - 1
      BY DEF CreditsNotOversold, Bought
    <2> USE DEF CreditInv, BoundInv, TrailInv
    <2>1. CreditClaims(b) \in SUBSET Requests /\ Spent(b) \in SUBSET audits
      BY DEF CreditClaims, Spent
    <2>2. \A a \in Spent(b) : a.req \in CreditClaims(b)
      BY DEF Spent, CreditClaims, TypeInv, TypeOK, Audit
    <2>3. IsFiniteSet(Spent(b)) /\ Cardinality(Spent(b)) <= Cardinality(CreditClaims(b))
      BY <2>1, <2>2, RowsAreRequests DEF TypeInv, TypeOK
    <2>4. Cardinality(CreditClaims(b)) <= SumCredits(Bought(b)) + MaxInFlight - 1
      BY DEF CreditClaimsBounded
    <2>5. Cardinality(Spent(b)) \in Nat /\ Cardinality(CreditClaims(b)) \in Nat
      BY <2>1, <2>3, FewerRequests, FS_CardinalityType
    <2>6. SumCredits(Bought(b)) \in Nat
      <3>1. Bought(b) \in SUBSET grants /\ Bought(b) \in SUBSET Grant
        BY DEF Bought, TypeInv, TypeOK, EngineTypeOK
      <3>2. IsFiniteSet(Bought(b)) /\ \A g \in Bought(b) : g.credits > 0
        BY <3>1, FS_Subset DEF Bought, TypeInv, FiniteTables
      <3>3. QED
        BY <3>1, <3>2, PositiveGrantsMakeMost
    <2>7. QED
      BY <2>3, <2>4, <2>5, <2>6, UnlockAssumption
  <1>2. Spec => []CreditInv
    BY CreditInit, CreditStep, PTL DEF Spec
  <1>3. QED
    BY <1>1, <1>2, PTL
=============================================================================
