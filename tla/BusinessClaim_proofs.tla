------------------------ MODULE BusinessClaim_proofs ------------------------
(***************************************************************************)
(* Who comes to own a business, for any businesses, mobiles, claims and    *)
(* number of calls under way.  A call that has read a claim's approval     *)
(* relies on something that is never taken back: the claim exists, names   *)
(* its business and mobile for good, and has been approved.                *)
(***************************************************************************)
EXTENDS BusinessClaim, FiniteSetTheorems, TLAPS

RequestAwaits == {"mobile_taken", "active_claim", "create"}
TransferAwaits == {"send_code", "lock_out", "code", "count_attempt", "claimable", "mobile_free",
                   "transfer"}
ClaimAwaits == {"expire", "approve", "reject"} \cup TransferAwaits
MergeAwaits == {"canonical", "pending_claim", "merge"}

\* A claim that was never created has nothing in it; one that was names its
\* business and its mobile.
RowsFilled ==
    \A k \in Claims :
        /\ claim[k].status = "none" => claim[k] = NoClaim
        /\ claim[k].status # "none" => claim[k].business \in Businesses /\ claim[k].mobile \in Mobiles
        /\ claim[k].status = Approved => claim[k].approved

\* What a call stopped at an await has read and may rely on.
Relies(c) ==
    /\ c.at \in RequestAwaits => c.business \in Businesses /\ c.mobile \in Mobiles
    /\ c.at \in MergeAwaits =>
          c.business \in Businesses /\ c.canonical \in Businesses /\ c.business # c.canonical
    /\ c.at \in ClaimAwaits => c.claim \in Claims /\ claim[c.claim].status # "none"
    /\ c.at \in TransferAwaits => claim[c.claim].approved
AllRely == \A h \in Handlers : Relies(call[h])

\* The calls that may yet count an attempt on a claim: they read it below
\* its limit.
Counts(c, k) == c.at \in {"code", "count_attempt"} /\ c.claim = k
Counting(k) == {h \in Handlers : Counts(call[h], k)}
AttemptsForeseen ==
    \A k \in Claims : claim[k].attempts + Cardinality(Counting(k))
                        <= MaxOtpAttempts + Cardinality(Handlers) - 1

IInv == TypeOK /\ RowsFilled /\ AllRely /\ OwnerWasApproved /\ CompletedOwns /\ AttemptsForeseen

LEMMA IdleIsACall == Idle \in Call
BY DEF Idle, Call, Awaits

LEMMA CountingFinite ==
  ASSUME ClaimAssumption, NEW k
  PROVE  /\ IsFiniteSet(Counting(k)) /\ Cardinality(Counting(k)) \in Nat
         /\ Cardinality(Counting(k)) <= Cardinality(Handlers)
         /\ Cardinality(Handlers) \in Nat /\ Cardinality(Handlers) > 0
<1>1. Counting(k) \subseteq Handlers
  BY DEF Counting
<1>2. IsFiniteSet(Handlers) /\ Handlers # {}
  BY DEF ClaimAssumption
<1> QED
  BY <1>1, <1>2, FS_Subset, FS_CardinalityType, FS_EmptySet

LEMMA Initially == ASSUME ClaimAssumption, Init PROVE IInv
<1>1. TypeOK
  BY IdleIsACall DEF Init, TypeOK, ClaimRow, NoClaim, Active, Terminal
<1>2. RowsFilled
  BY DEF Init, RowsFilled, NoClaim, Pending, Approved
<1>3. AllRely
  BY DEF Init, AllRely, Relies, Idle, RequestAwaits, MergeAwaits, ClaimAwaits, TransferAwaits
<1>4. OwnerWasApproved /\ CompletedOwns
  BY DEF Init, OwnerWasApproved, CompletedOwns, NoClaim
<1>5. AttemptsForeseen
  <2>1. \A k \in Claims : claim[k].attempts = 0 /\ Counting(k) = {}
    BY DEF Init, NoClaim, Counting, Counts, Idle
  <2> QED
    BY <2>1, CountingFinite, FS_EmptySet DEF AttemptsForeseen, ClaimAssumption
<1> QED
  BY <1>1, <1>2, <1>3, <1>4, <1>5 DEF IInv

-----------------------------------------------------------------------------
(* A step that reads: it changes what calls are doing, and nothing else    *)

\* Fewer calls count, or one more that read the claim below its limit.
LEMMA StillForeseen ==
  ASSUME ClaimAssumption, IInv, UNCHANGED claim, NEW h \in Handlers,
         \A g \in Handlers, k \in Claims :
           Counts(call'[g], k) => \/ Counts(call[g], k)
                                  \/ g = h /\ claim[k].attempts < MaxOtpAttempts
  PROVE  AttemptsForeseen'
<1> SUFFICES ASSUME NEW k \in Claims
             PROVE  claim[k].attempts + Cardinality(Counting(k)')
                      <= MaxOtpAttempts + Cardinality(Handlers) - 1
  BY DEF AttemptsForeseen
<1>0. /\ claim[k].attempts \in Nat /\ MaxOtpAttempts \in Nat
      /\ claim[k].attempts + Cardinality(Counting(k)) <= MaxOtpAttempts + Cardinality(Handlers) - 1
  BY DEF IInv, TypeOK, ClaimRow, AttemptsForeseen, ClaimAssumption
<1>1. Counting(k)' \subseteq Handlers
  BY DEF Counting
<1>2. Cardinality(Counting(k)') \in Nat /\ Cardinality(Counting(k)') <= Cardinality(Handlers)
  BY <1>1, FS_Subset, FS_CardinalityType DEF ClaimAssumption
<1>3. CASE claim[k].attempts < MaxOtpAttempts
  BY <1>0, <1>2, <1>3, CountingFinite
<1>4. CASE ~(claim[k].attempts < MaxOtpAttempts)
  <2>1. Counting(k)' \subseteq Counting(k)
    BY <1>4 DEF Counting
  <2>2. Cardinality(Counting(k)') <= Cardinality(Counting(k))
    BY <2>1, CountingFinite, FS_Subset
  <2> QED
    BY <1>0, <1>2, <2>2, CountingFinite
<1> QED
  BY <1>3, <1>4

\* A call goes on, with what it has read; the rows stay.
LEMMA GoesOn ==
  ASSUME ClaimAssumption, IInv, NEW h \in Handlers, NEW c \in Call, Relies(c),
         \A k \in Claims : Counts(c, k) => \/ Counts(call[h], k)
                                           \/ claim[k].attempts < MaxOtpAttempts,
         call' = [call EXCEPT ![h] = c],
         UNCHANGED <<businessVars, claimVars>>
  PROVE  IInv'
<1>0. UNCHANGED <<status, mobile, claimedBy, into, home, claim, late, codes>>
  BY DEF businessVars, claimVars
<1>1. /\ call' \in [Handlers -> Call] /\ call'[h] = c
      /\ \A g \in Handlers : g # h => call'[g] = call[g]
  BY DEF IInv, TypeOK
<1>2. TypeOK'
  BY <1>0, <1>1 DEF IInv, TypeOK
<1>3. RowsFilled' /\ OwnerWasApproved' /\ CompletedOwns'
  BY <1>0 DEF IInv, RowsFilled, OwnerWasApproved, CompletedOwns
<1>4. AllRely'
  BY <1>0, <1>1 DEF IInv, AllRely, Relies
<1>5. AttemptsForeseen'
  BY <1>0, <1>1, StillForeseen
<1> QED
  BY <1>2, <1>3, <1>4, <1>5 DEF IInv

LEMMA Ends ==
  ASSUME ClaimAssumption, IInv, NEW h \in Handlers, Return(h), UNCHANGED <<businessVars, claimVars>>
  PROVE  IInv'
<1>1. Relies(Idle) /\ \A k : ~Counts(Idle, k)
  BY DEF Relies, Counts, Idle, RequestAwaits, MergeAwaits, ClaimAwaits, TransferAwaits
<1> QED
  BY <1>1, IdleIsACall, GoesOn DEF Return

\* A new call, with the claim it has read, or a business and another field.
NewCall(where, fields) ==
    [f \in DOMAIN Idle |->
       IF f = "at" THEN where ELSE IF f \in DOMAIN fields THEN fields[f] ELSE Idle[f]]

LEMMA NewOnClaim ==
  ASSUME NEW where \in Awaits, NEW k \in Claims
  PROVE  LET c == NewCall(where, [claim |-> k]) IN c \in Call /\ c.at = where /\ c.claim = k
<1> DEFINE c == [at |-> where, claim |-> k, business |-> None, mobile |-> None, canonical |-> None]
<1>1. c \in Call
  BY DEF Call
<1>2. c = NewCall(where, [claim |-> k])
  BY DEF NewCall, Idle
<1> QED
  BY <1>1, <1>2

LEMMA NewOnBusiness ==
  ASSUME NEW b \in Businesses, NEW m \in Mobiles
  PROVE  LET c == NewCall("mobile_taken", [business |-> b, mobile |-> m]) IN
         c \in Call /\ c.at = "mobile_taken" /\ c.business = b /\ c.mobile = m
<1> DEFINE fields == [business |-> b, mobile |-> m]
           c == [at |-> "mobile_taken", claim |-> None, business |-> b, mobile |-> m,
                 canonical |-> None]
<1>1. c \in Call
  BY DEF Call, Awaits
<1>2. c = NewCall("mobile_taken", fields)
  BY DEF NewCall, Idle
<1> QED
  BY <1>1, <1>2

LEMMA NewMerge ==
  ASSUME NEW b \in Businesses, NEW e \in Businesses
  PROVE  LET c == NewCall("canonical", [business |-> b, canonical |-> e]) IN
         c \in Call /\ c.at = "canonical" /\ c.business = b /\ c.canonical = e
<1> DEFINE fields == [business |-> b, canonical |-> e]
           c == [at |-> "canonical", claim |-> None, business |-> b, mobile |-> None,
                 canonical |-> e]
<1>1. c \in Call
  BY DEF Call, Awaits
<1>2. c = NewCall("canonical", fields)
  BY DEF NewCall, Idle
<1> QED
  BY <1>1, <1>2

\* A call moves to its next await with what it had read before.
LEMMA Moves ==
  ASSUME ClaimAssumption, IInv, NEW h \in Handlers, NEW where \in Awaits, Goto(h, where),
         \/ where \in RequestAwaits /\ call[h].at \in RequestAwaits
         \/ where \in MergeAwaits /\ call[h].at \in MergeAwaits
         \/ where \in TransferAwaits /\ call[h].at \in TransferAwaits,
         where \notin {"code", "count_attempt"} \/ call[h].at \in {"code", "count_attempt"},
         UNCHANGED <<businessVars, claimVars>>
  PROVE  IInv'
<1> DEFINE c == [call[h] EXCEPT !.at = where]
<1>1. call[h] \in Call
  BY DEF IInv, TypeOK
<1>2. c \in Call /\ c.at = where /\ c.claim = call[h].claim /\ c.business = call[h].business
      /\ c.mobile = call[h].mobile /\ c.canonical = call[h].canonical
  BY <1>1 DEF Call
<1>3. Relies(c)
  BY <1>2 DEF IInv, AllRely, Relies, RequestAwaits, MergeAwaits, TransferAwaits, ClaimAwaits
<1>4. \A k \in Claims : Counts(c, k) => Counts(call[h], k)
  BY <1>2 DEF Counts
<1>5. call' = [call EXCEPT ![h] = c]
  BY <1>1 DEF Goto, IInv, TypeOK, Call
<1> HIDE DEF c
<1> QED
  BY <1>2, <1>3, <1>4, <1>5, GoesOn

\* What is asked of every call that starts from a claim it has read.
LEMMA ReadsClaim ==
  ASSUME ClaimAssumption, IInv, NEW h \in Handlers, NEW k \in Claims, NEW where \in ClaimAwaits,
         claim[k].status # "none", where \in TransferAwaits => claim[k].status = Approved,
         where \in {"code", "count_attempt"} => claim[k].attempts < MaxOtpAttempts,
         Start(h, where, [claim |-> k]), UNCHANGED <<businessVars, claimVars>>
  PROVE  IInv'
<1> DEFINE c == NewCall(where, [claim |-> k])
<1>1. where \in Awaits
  BY DEF ClaimAwaits, TransferAwaits, Awaits
<1>2. c \in Call /\ c.at = where /\ c.claim = k
  BY <1>1, NewOnClaim
<1>3. call' = [call EXCEPT ![h] = c]
  BY DEF Start, NewCall
<1> HIDE DEF c
<1>4. Relies(c)
  BY <1>2 DEF IInv, RowsFilled, Relies, RequestAwaits, MergeAwaits, TransferAwaits, ClaimAwaits
<1>5. \A l \in Claims : Counts(c, l) => claim[l].attempts < MaxOtpAttempts
  BY <1>2 DEF Counts
<1> QED
  BY <1>2, <1>3, <1>4, <1>5, GoesOn

Reads(h) ==
    \/ RequestClaim(h) \/ CheckMobileTaken(h) \/ CheckActiveClaim(h)
    \/ ReadOverdue(h) \/ ReadForApproval(h) \/ ReadForCode(h) \/ ReadForTransfer(h)
    \/ ReadForRejection(h) \/ CheckCode(h) \/ CheckClaimable(h) \/ CheckMobileFree(h)
    \/ ReadDuplicate(h) \/ ReadCanonical(h) \/ CheckPendingClaim(h)

LEMMA ReadsKeep == ASSUME ClaimAssumption, IInv, NEW h \in Handlers, Reads(h) PROVE IInv'
<1> USE DEF At, Check, RequestAwaits, MergeAwaits, TransferAwaits
<1>1. CASE RequestClaim(h)
  <2>1. PICK b \in Businesses, m \in Mobiles : Start(h, "mobile_taken", [business |-> b, mobile |-> m])
    BY <1>1 DEF RequestClaim
  <2> DEFINE c == NewCall("mobile_taken", [business |-> b, mobile |-> m])
  <2>2. c \in Call /\ c.at = "mobile_taken" /\ c.business = b /\ c.mobile = m
    BY NewOnBusiness
  <2>3. call' = [call EXCEPT ![h] = c]
    BY <2>1 DEF Start, NewCall
  <2> HIDE DEF c
  <2>4. Relies(c) /\ \A k : ~Counts(c, k)
    BY <2>2 DEF Relies, Counts, ClaimAwaits
  <2> QED
    BY <1>1, <2>2, <2>3, <2>4, GoesOn DEF RequestClaim
<1>2. CASE ReadDuplicate(h)
  <2>1. PICK b \in Businesses, e \in Businesses :
          b # e /\ Start(h, "canonical", [business |-> b, canonical |-> e])
    BY <1>2 DEF ReadDuplicate
  <2> DEFINE c == NewCall("canonical", [business |-> b, canonical |-> e])
  <2>2. c \in Call /\ c.at = "canonical" /\ c.business = b /\ c.canonical = e
    BY NewMerge
  <2>3. call' = [call EXCEPT ![h] = c]
    BY <2>1 DEF Start, NewCall
  <2> HIDE DEF c
  <2>4. Relies(c) /\ \A k : ~Counts(c, k)
    BY <2>1, <2>2 DEF Relies, Counts, ClaimAwaits
  <2> QED
    BY <1>2, <2>2, <2>3, <2>4, GoesOn DEF ReadDuplicate
<1>3. CASE CheckMobileTaken(h)
  BY <1>3, Moves, Ends DEF CheckMobileTaken, Awaits
<1>4. CASE CheckActiveClaim(h)
  BY <1>4, Moves, Ends DEF CheckActiveClaim, Awaits
<1>5. CASE CheckCode(h)
  BY <1>5, Moves DEF CheckCode, Awaits
<1>6. CASE CheckClaimable(h)
  BY <1>6, Moves, Ends DEF CheckClaimable, Awaits
<1>7. CASE CheckMobileFree(h)
  BY <1>7, Moves, Ends DEF CheckMobileFree, Awaits
<1>8. CASE ReadCanonical(h)
  BY <1>8, Moves, Ends DEF ReadCanonical, Awaits
<1>9. CASE CheckPendingClaim(h)
  BY <1>9, Moves, Ends DEF CheckPendingClaim, Awaits
<1>10. CASE ReadOverdue(h)
  BY <1>10, ReadsClaim DEF ReadOverdue, PastDeadline, Active, Pending, Approved, ClaimAwaits
<1>11. CASE ReadForApproval(h)
  BY <1>11, ReadsClaim DEF ReadForApproval, Pending, ClaimAwaits
<1>12. CASE ReadForCode(h)
  BY <1>12, ReadsClaim DEF ReadForCode, UsableAndApproved, Approved, ClaimAwaits
<1>13. CASE ReadForTransfer(h)
  <2>1. PICK k \in Claims : /\ claim[k].status = Approved
                            /\ Start(h, IF LockedOut(k) THEN "lock_out" ELSE "code", [claim |-> k])
    BY <1>13 DEF ReadForTransfer, UsableAndApproved
  <2>2. claim[k].attempts \in Nat /\ MaxOtpAttempts \in Nat
    BY DEF IInv, TypeOK, ClaimRow, ClaimAssumption
  <2>3. CASE LockedOut(k)
    BY <1>13, <2>1, <2>3, ReadsClaim DEF ReadForTransfer, Approved, ClaimAwaits
  <2>4. CASE ~LockedOut(k)
    BY <1>13, <2>1, <2>2, <2>4, ReadsClaim DEF ReadForTransfer, LockedOut, Approved, ClaimAwaits
  <2> QED
    BY <2>3, <2>4
<1>14. CASE ReadForRejection(h)
  BY <1>14, ReadsClaim DEF ReadForRejection, Active, Pending, Approved, ClaimAwaits
<1> QED
  BY <1>1, <1>2, <1>3, <1>4, <1>5, <1>6, <1>7, <1>8, <1>9, <1>10, <1>11, <1>12, <1>13, <1>14
     DEF Reads
-----------------------------------------------------------------------------
(* A step that writes: a call writes a claim, and perhaps its business,    *)
(* and ends                                                                *)

\* A claim keeps its business and its mobile and is never created twice nor
\* approved less; what is created is whole; what is approved has been so;
\* only a call that counts adds an attempt.
RowWritten(h, k) ==
    /\ claim[k].status # "none" =>
         /\ claim'[k].status # "none" /\ (claim[k].approved => claim'[k].approved)
         /\ claim'[k].business = claim[k].business /\ claim'[k].mobile = claim[k].mobile
    /\ claim'[k].status = "none" => claim'[k] = NoClaim
    /\ claim'[k].status # "none" => claim'[k].business \in Businesses /\ claim'[k].mobile \in Mobiles
    /\ claim'[k].status = Approved => claim'[k].approved
    /\ \/ claim'[k].attempts = claim[k].attempts
       \/ Counts(call[h], k) /\ claim'[k].attempts = claim[k].attempts + 1

LEMMA AttemptsCounted ==
  ASSUME ClaimAssumption, IInv, NEW h \in Handlers, Return(h),
         \A k \in Claims : RowWritten(h, k)
  PROVE  AttemptsForeseen'
<1> SUFFICES ASSUME NEW k \in Claims
             PROVE  claim'[k].attempts + Cardinality(Counting(k)')
                      <= MaxOtpAttempts + Cardinality(Handlers) - 1
  BY DEF AttemptsForeseen
<1>1. /\ claim[k].attempts \in Nat /\ MaxOtpAttempts \in Nat
      /\ claim[k].attempts + Cardinality(Counting(k)) <= MaxOtpAttempts + Cardinality(Handlers) - 1
  BY DEF IInv, TypeOK, ClaimRow, AttemptsForeseen, ClaimAssumption
<1>2. call'[h] = Idle /\ \A g \in Handlers : g # h => call'[g] = call[g]
  BY IdleIsACall DEF Return, IInv, TypeOK
<1>3. Counting(k)' = Counting(k) \ {h}
  BY <1>2 DEF Counting, Counts, Idle
<1>4. IsFiniteSet(Counting(k)) /\ Cardinality(Counting(k)) \in Nat /\ Cardinality(Handlers) \in Nat
  BY CountingFinite
<1>5. CASE Counts(call[h], k)
  <2>1. Cardinality(Counting(k)') = Cardinality(Counting(k)) - 1
    BY <1>3, <1>4, <1>5, FS_RemoveElement DEF Counting
  <2> QED
    BY <1>1, <1>4, <2>1 DEF RowWritten
<1>6. CASE ~Counts(call[h], k)
  <2>1. Counting(k)' = Counting(k)
    BY <1>3, <1>6 DEF Counting
  <2> QED
    BY <1>1, <1>4, <1>6, <2>1 DEF RowWritten
<1> QED
  BY <1>5, <1>6

LEMMA Writes ==
  ASSUME ClaimAssumption, IInv, NEW h \in Handlers, Return(h), TypeOK',
         \A k \in Claims : RowWritten(h, k)
  PROVE  RowsFilled' /\ AllRely' /\ AttemptsForeseen'
<1>1. RowsFilled'
  BY DEF RowsFilled, RowWritten
<1>2. /\ call'[h] = Idle /\ \A g \in Handlers : g # h => call'[g] = call[g]
  BY IdleIsACall DEF Return, IInv, TypeOK
<1>3. AllRely'
  <2> SUFFICES ASSUME NEW g \in Handlers PROVE Relies(call[g])'
    BY DEF AllRely
  <2>1. CASE g = h
    BY <1>2, <2>1 DEF Relies, Idle, RequestAwaits, MergeAwaits, ClaimAwaits, TransferAwaits
  <2>2. CASE g # h
    BY <1>2, <2>2 DEF IInv, AllRely, Relies, RowWritten, ClaimAwaits
  <2> QED
    BY <2>1, <2>2
<1> QED
  BY <1>1, <1>3, AttemptsCounted

\* Only a new claim is written, or one that keeps its owner's rights: its
\* business stays as it was.
LEMMA OwnersStay ==
  ASSUME ClaimAssumption, IInv, NEW h \in Handlers, \A k \in Claims : RowWritten(h, k), TypeOK',
         UNCHANGED <<mobile, claimedBy>>,
         \A b \in Businesses : status[b] # "UNCLAIMED" => status'[b] # "UNCLAIMED",
         \A k \in Claims : claim'[k].status = "COMPLETED" => claim[k].status = "COMPLETED"
  PROVE  OwnerWasApproved' /\ CompletedOwns'
<1>1. \A b \in Businesses : claimedBy[b] # None =>
        /\ claimedBy[b] \in Claims /\ claim[claimedBy[b]].business = b
        /\ claim[claimedBy[b]].approved /\ claim[claimedBy[b]].mobile = mobile[b]
  BY DEF IInv, TypeOK, OwnerWasApproved
<1>2. \A k \in Claims : claim[k].approved => claim[k].status # "none"
  BY DEF IInv, RowsFilled, NoClaim
<1>3. OwnerWasApproved'
  BY <1>1, <1>2 DEF OwnerWasApproved, RowWritten
<1>4. \A k \in Claims : claim[k].status = "COMPLETED" =>
        claim'[k].business = claim[k].business /\ claim[k].business \in Businesses
  BY DEF IInv, RowsFilled, RowWritten
<1>5. CompletedOwns'
  BY <1>3, <1>4 DEF IInv, CompletedOwns, OwnerWasApproved
<1> QED
  BY <1>3, <1>5
LEMMA CreateClaimKeeps == ASSUME ClaimAssumption, IInv, NEW h \in Handlers, CreateClaim(h) PROVE IInv'
<1>0. UNCHANGED <<status, mobile, claimedBy, into, home, late, codes>> /\ Return(h)
  BY DEF CreateClaim, businessVars
<1>1. PICK k \in Claims :
        /\ claim[k].status = "none"
        /\ claim' = [claim EXCEPT ![k] =
             [NoClaim EXCEPT !.status = Pending, !.business = call[h].business,
                             !.mobile = call[h].mobile]]
  BY DEF CreateClaim
<1>2. call[h].business \in Businesses /\ call[h].mobile \in Mobiles
  BY DEF CreateClaim, At, IInv, AllRely, Relies, RequestAwaits
<1>3. /\ claim'[k] = [status |-> Pending, business |-> call[h].business, mobile |-> call[h].mobile,
                      attempts |-> 0, approved |-> FALSE]
      /\ claim' = [claim EXCEPT ![k] = claim'[k]]
      /\ \A l \in Claims : l # k => claim'[l] = claim[l]
  BY <1>1 DEF IInv, TypeOK, NoClaim
<1>4. claim'[k] \in ClaimRow
  BY <1>2, <1>3 DEF ClaimRow, Active
<1>5. TypeOK'
  BY <1>0, <1>3, <1>4, IdleIsACall DEF IInv, TypeOK, Return
<1>6. \A l \in Claims : RowWritten(h, l)
  <2>1. RowWritten(h, k)
    BY <1>1, <1>2, <1>3 DEF RowWritten, Pending, Approved, IInv, RowsFilled, NoClaim
  <2>2. ASSUME NEW l \in Claims, l # k PROVE RowWritten(h, l)
    BY <1>3, <2>2 DEF RowWritten, IInv, RowsFilled
  <2> QED
    BY <2>1, <2>2
<1>7. \A l \in Claims : claim'[l].status = "COMPLETED" => claim[l].status = "COMPLETED"
  BY <1>3 DEF Pending
<1> QED
  BY <1>0, <1>5, <1>6, <1>7, Writes, OwnersStay DEF IInv

\* A row that has a new status and perhaps its approval.
LEMMA StatusSet ==
  ASSUME ClaimAssumption, IInv, NEW h \in Handlers, NEW k \in Claims, NEW approval \in BOOLEAN,
         NEW s \in {"EXPIRED", Approved, "ADMIN_REJECTED", "COMPLETED"},
         claim[k].status # "none", SetStatus(k, s, approval),
         s = Approved => approval
  PROVE  /\ claim' \in [Claims -> ClaimRow] /\ \A l \in Claims : RowWritten(h, l)
         /\ claim'[k].status = s /\ \A l \in Claims : l # k => claim'[l] = claim[l]
<1>1. claim[k] \in ClaimRow /\ claim \in [Claims -> ClaimRow]
  BY DEF IInv, TypeOK
<1>2. claim' = [claim EXCEPT ![k] = [claim[k] EXCEPT !.status = s, !.approved = @ \/ approval]]
  BY <1>1 DEF SetStatus, ClaimRow
<1> DEFINE r == [claim[k] EXCEPT !.status = s, !.approved = @ \/ approval]
<1>3. /\ r \in ClaimRow /\ r.status = s /\ r.business = claim[k].business
      /\ r.mobile = claim[k].mobile /\ r.attempts = claim[k].attempts
      /\ r.approved = (claim[k].approved \/ approval)
  BY <1>1 DEF ClaimRow, Active, Terminal
<1> HIDE DEF r
<1>4. claim' \in [Claims -> ClaimRow] /\ claim'[k] = r /\ \A l \in Claims : l # k => claim'[l] = claim[l]
  BY <1>1, <1>2, <1>3 DEF r
<1>5. RowWritten(h, k)
  BY <1>3, <1>4 DEF RowWritten, IInv, RowsFilled, Approved
<1>6. ASSUME NEW l \in Claims, l # k PROVE RowWritten(h, l)
  BY <1>4, <1>6 DEF RowWritten, IInv, RowsFilled
<1> QED
  BY <1>3, <1>4, <1>5, <1>6

LEMMA WriteVerdictKeeps == ASSUME ClaimAssumption, IInv, NEW h \in Handlers, WriteVerdict(h) PROVE IInv'
<1>0. UNCHANGED <<status, mobile, claimedBy, into, home, late, codes>> /\ Return(h)
  BY DEF WriteVerdict, businessVars
<1> DEFINE k == call[h].claim
<1>1. k \in Claims /\ claim[k].status # "none"
  BY DEF WriteVerdict, At, IInv, AllRely, Relies, ClaimAwaits, TransferAwaits
<1>2. PICK s \in {"EXPIRED", Approved, "ADMIN_REJECTED"}, approval \in BOOLEAN :
        SetStatus(k, s, approval) /\ (s = Approved => approval)
  BY DEF WriteVerdict, Approved
<1>3. /\ claim' \in [Claims -> ClaimRow] /\ \A l \in Claims : RowWritten(h, l)
      /\ claim'[k].status = s /\ \A l \in Claims : l # k => claim'[l] = claim[l]
  BY <1>1, <1>2, StatusSet
<1>4. TypeOK'
  BY <1>0, <1>3, IdleIsACall DEF IInv, TypeOK, Return
<1>5. \A l \in Claims : claim'[l].status = "COMPLETED" => claim[l].status = "COMPLETED"
  BY <1>3 DEF Approved
<1> QED
  BY <1>0, <1>3, <1>4, <1>5, Writes, OwnersStay DEF IInv

LEMMA CountAttemptKeeps == ASSUME ClaimAssumption, IInv, NEW h \in Handlers, CountAttempt(h) PROVE IInv'
<1>0. UNCHANGED <<status, mobile, claimedBy, into, home, late, codes>> /\ Return(h)
  BY DEF CountAttempt, businessVars
<1> DEFINE k == call[h].claim
           r == [claim[k] EXCEPT !.attempts = @ + 1]
<1>1. k \in Claims /\ claim[k].status # "none" /\ Counts(call[h], k)
  BY DEF CountAttempt, At, IInv, AllRely, Relies, ClaimAwaits, TransferAwaits, Counts
<1>2. claim[k] \in ClaimRow /\ claim \in [Claims -> ClaimRow]
  BY <1>1 DEF IInv, TypeOK
<1>3. /\ r \in ClaimRow /\ r.status = claim[k].status /\ r.business = claim[k].business
      /\ r.mobile = claim[k].mobile /\ r.attempts = claim[k].attempts + 1
      /\ r.approved = claim[k].approved
  BY <1>2 DEF ClaimRow
<1>4. claim' = [claim EXCEPT ![k] = r]
  BY <1>2 DEF CountAttempt, ClaimRow
<1> HIDE DEF r
<1>5. claim' \in [Claims -> ClaimRow] /\ claim'[k] = r /\ \A l \in Claims : l # k => claim'[l] = claim[l]
  BY <1>1, <1>2, <1>3, <1>4
<1>6. \A l \in Claims : RowWritten(h, l)
  <2>1. RowWritten(h, k)
    BY <1>1, <1>3, <1>5 DEF RowWritten, IInv, RowsFilled
  <2>2. ASSUME NEW l \in Claims, l # k PROVE RowWritten(h, l)
    BY <1>5, <2>2 DEF RowWritten, IInv, RowsFilled
  <2> QED
    BY <2>1, <2>2
<1>7. TypeOK'
  BY <1>0, <1>5, IdleIsACall DEF IInv, TypeOK, Return
<1>8. \A l \in Claims : claim'[l].status = "COMPLETED" => claim[l].status = "COMPLETED"
  BY <1>3, <1>5
<1> QED
  BY <1>0, <1>6, <1>7, <1>8, Writes, OwnersStay DEF IInv
LEMMA TransferKeeps == ASSUME ClaimAssumption, IInv, NEW h \in Handlers, Transfer(h) PROVE IInv'
<1> DEFINE k == call[h].claim
           b == claim[k].business
           m == claim[k].mobile
<1>0. UNCHANGED <<into, home, late>> /\ Return(h)
  BY DEF Transfer
<1>1. k \in Claims /\ claim[k].status # "none" /\ claim[k].approved
  BY DEF Transfer, At, IInv, AllRely, Relies, ClaimAwaits, TransferAwaits
<1>2. b \in Businesses /\ m \in Mobiles
  BY <1>1 DEF IInv, RowsFilled
<1>3. CASE TakenElsewhere(m, b) /\ RolledBack(k) /\ UNCHANGED <<status, mobile, claimedBy, codes>>
  BY <1>0, <1>3, Ends DEF RolledBack, businessVars, claimVars
<1>4. CASE /\ status' = [status EXCEPT ![b] = "CLAIMED"]
           /\ mobile' = [mobile EXCEPT ![b] = m]
           /\ claimedBy' = [claimedBy EXCEPT ![b] = k]
           /\ SetStatus(k, "COMPLETED", FALSE)
           /\ codes' = codes \ {m}
  <2>1. /\ claim' \in [Claims -> ClaimRow] /\ \A l \in Claims : RowWritten(h, l)
        /\ claim'[k].status = "COMPLETED" /\ \A l \in Claims : l # k => claim'[l] = claim[l]
    BY <1>1, <1>4, StatusSet DEF Approved
  <2>2. TypeOK'
    BY <1>0, <1>1, <1>2, <1>4, <2>1, IdleIsACall DEF IInv, TypeOK, Return
  <2>3. /\ \A c \in Businesses : c # b =>
             status'[c] = status[c] /\ mobile'[c] = mobile[c] /\ claimedBy'[c] = claimedBy[c]
        /\ status'[b] = "CLAIMED" /\ mobile'[b] = m /\ claimedBy'[b] = k
    BY <1>2, <1>4 DEF IInv, TypeOK
  <2>4. \A l \in Claims : claim[l].approved => claim[l].status # "none"
    BY DEF IInv, RowsFilled, NoClaim
  <2>5. claim'[k].business = b /\ claim'[k].mobile = m /\ claim'[k].approved
    BY <1>1, <2>1 DEF RowWritten
  <2>6. OwnerWasApproved'
    <3> SUFFICES ASSUME NEW c \in Businesses, claimedBy'[c] # None
                 PROVE  /\ claim'[claimedBy'[c]].business = c
                        /\ claim'[claimedBy'[c]].approved
                        /\ claim'[claimedBy'[c]].mobile = mobile'[c]
      BY DEF OwnerWasApproved
    <3>1. CASE c = b
      BY <2>3, <2>5, <3>1
    <3>2. CASE c # b
      <4>1. /\ claimedBy[c] \in Claims /\ claim[claimedBy[c]].business = c
            /\ claim[claimedBy[c]].approved /\ claim[claimedBy[c]].mobile = mobile[c]
        BY <2>3, <3>2 DEF IInv, TypeOK, OwnerWasApproved
      <4> HIDE DEF b, k
      <4> QED
        BY <2>1, <2>3, <2>4, <3>2, <4>1 DEF RowWritten
    <3> QED
      BY <3>1, <3>2
  <2>7. CompletedOwns'
    <3> SUFFICES ASSUME NEW l \in Claims, claim'[l].status = "COMPLETED"
                 PROVE  LET c == claim'[l].business IN
                        /\ status'[c] # "UNCLAIMED" /\ claimedBy'[c] # None
                        /\ claimedBy'[c] # l => claim'[claimedBy'[c]].business = c
      BY DEF CompletedOwns
    <3> DEFINE c == claim'[l].business
    <3>1. c \in Businesses /\ k # None
      BY <1>1, <2>1 DEF RowWritten, ClaimAssumption
    <3>2. status'[c] # "UNCLAIMED" /\ claimedBy'[c] # None
      <4>1. CASE c = b
        BY <2>3, <3>1, <4>1
      <4>2. CASE c # b
        <5>1. l # k
          BY <2>5, <4>2
        <5>2. claim[l].status = "COMPLETED" /\ claim[l].business = c
          BY <2>1, <5>1
        <5>3. status[c] # "UNCLAIMED" /\ claimedBy[c] # None
          BY <5>2 DEF IInv, CompletedOwns
        <5> HIDE DEF b, c
        <5> QED
          BY <2>3, <3>1, <4>2, <5>3
      <4> QED
        BY <4>1, <4>2
    <3>3. claim'[claimedBy'[c]].business = c
      <4> HIDE DEF c
      <4> QED
        BY <2>6, <3>1, <3>2 DEF OwnerWasApproved
    <3> QED
      BY <3>2, <3>3
  <2> QED
    BY <1>0, <2>1, <2>2, <2>6, <2>7, Writes DEF IInv
<1> QED
  BY <1>3, <1>4 DEF Transfer

LEMMA MergeKeeps == ASSUME ClaimAssumption, IInv, NEW h \in Handlers, Merge(h) PROVE IInv'
<1> DEFINE b == call[h].business
           c == call[h].canonical
<1>0. UNCHANGED <<mobile, claimedBy, claim, late, codes>> /\ Return(h)
  BY DEF Merge, claimVars
<1>1. b \in Businesses /\ c \in Businesses
  BY DEF Merge, At, IInv, AllRely, Relies, MergeAwaits
<1>2. /\ home' = [o \in Offers |-> IF home[o] = b THEN c ELSE home[o]]
      /\ status' = [status EXCEPT ![b] = "REMOVED"]
      /\ into' = [into EXCEPT ![b] = c]
  BY DEF Merge, MoveOffers
<1>3. TypeOK'
  BY <1>0, <1>1, <1>2, IdleIsACall DEF IInv, TypeOK, Return
<1>4. \A k \in Claims : RowWritten(h, k)
  BY <1>0 DEF RowWritten, IInv, RowsFilled
<1>5. \A a \in Businesses : status[a] # "UNCLAIMED" => status'[a] # "UNCLAIMED"
  BY <1>1, <1>2 DEF IInv, TypeOK
<1> QED
  BY <1>0, <1>3, <1>4, <1>5, Writes, OwnersStay DEF IInv

\* Nothing the invariant speaks of changes when only time passes or a code
\* is delivered.
LEMMA SendCodeKeeps == ASSUME ClaimAssumption, IInv, NEW h \in Handlers, SendCode(h) PROVE IInv'
<1>0. UNCHANGED <<status, mobile, claimedBy, into, home, claim, late>> /\ Return(h)
  BY DEF SendCode, businessVars
<1>1. call[h].claim \in Claims /\ claim[call[h].claim].mobile \in Mobiles
  BY DEF SendCode, At, IInv, AllRely, Relies, RowsFilled, ClaimAwaits, TransferAwaits
<1>2. codes' \subseteq Mobiles
  BY <1>1 DEF SendCode, IInv, TypeOK
<1>3. TypeOK'
  BY <1>0, <1>2, IdleIsACall DEF IInv, TypeOK, Return
<1>4. \A k \in Claims : RowWritten(h, k)
  BY <1>0 DEF RowWritten, IInv, RowsFilled
<1> QED
  BY <1>0, <1>3, <1>4, Writes, OwnersStay DEF IInv

LEMMA TimeKeeps ==
  ASSUME ClaimAssumption, IInv, late' \subseteq Claims, codes' \subseteq Mobiles,
         UNCHANGED <<status, mobile, claimedBy, into, home, claim>>,
         call' = call \/ call' = [h \in Handlers |-> Idle]
  PROVE  IInv'
<1>1. TypeOK'
  BY IdleIsACall DEF IInv, TypeOK
<1>2. RowsFilled' /\ OwnerWasApproved' /\ CompletedOwns'
  BY DEF IInv, RowsFilled, OwnerWasApproved, CompletedOwns
<1>3. \A h \in Handlers : call'[h] = call[h] \/ call'[h] = Idle
  OBVIOUS
<1>4. AllRely'
  BY <1>3 DEF IInv, AllRely, Relies, Idle, RequestAwaits, MergeAwaits, ClaimAwaits, TransferAwaits
<1>5. PICK h \in Handlers : TRUE
  BY DEF ClaimAssumption
<1>6. \A g \in Handlers, k \in Claims : Counts(call'[g], k) => Counts(call[g], k)
  BY <1>3 DEF Counts, Idle
<1>7. AttemptsForeseen'
  BY <1>5, <1>6, StillForeseen
<1> QED
  BY <1>1, <1>2, <1>4, <1>7 DEF IInv

LEMMA Stepwise == ASSUME ClaimAssumption, IInv, [Next]_vars PROVE IInv'
<1>1. ASSUME NEW h \in Handlers, ClaimStep(h) PROVE IInv'
  BY <1>1, ReadsKeep, CreateClaimKeeps, WriteVerdictKeeps, SendCodeKeeps, CountAttemptKeeps,
     TransferKeeps DEF ClaimStep, Reads
<1>2. ASSUME NEW h \in Handlers, ConsolidationStep(h) PROVE IInv'
  BY <1>2, ReadsKeep, MergeKeeps DEF ConsolidationStep, Reads
<1>3. ASSUME NEW k \in Claims, DeadlinePasses(k) PROVE IInv'
  <2>1. late' \subseteq Claims /\ codes' \subseteq Mobiles
    BY <1>3 DEF DeadlinePasses, IInv, TypeOK
  <2> QED
    BY <1>3, <2>1, TimeKeeps DEF DeadlinePasses, businessVars
<1>4. ASSUME NEW m \in Mobiles, CodeExpires(m) PROVE IInv'
  <2>1. late' \subseteq Claims /\ codes' \subseteq Mobiles
    BY <1>4 DEF CodeExpires, IInv, TypeOK
  <2> QED
    BY <1>4, <2>1, TimeKeeps DEF CodeExpires, businessVars
<1>5. CASE Crash
  <2>1. late' \subseteq Claims /\ codes' \subseteq Mobiles
    BY <1>5 DEF Crash, claimVars, IInv, TypeOK
  <2> QED
    BY <1>5, <2>1, TimeKeeps DEF Crash, businessVars, claimVars
<1>6. CASE UNCHANGED vars
  <2>1. late' \subseteq Claims /\ codes' \subseteq Mobiles
    BY <1>6 DEF vars, claimVars, IInv, TypeOK
  <2> QED
    BY <1>6, <2>1, TimeKeeps DEF vars, businessVars, claimVars
<1> QED
  BY <1>1, <1>2, <1>3, <1>4, <1>5, <1>6 DEF Next

LEMMA Invariance == Spec => []IInv
<1>1. Init => IInv
  BY Initially, ClaimAssumption
<1>2. IInv /\ [Next]_vars => IInv'
  BY Stepwise, ClaimAssumption
<1> QED
  BY <1>1, <1>2, PTL DEF Spec

-----------------------------------------------------------------------------
(* What it comes to                                                        *)

\* Every variable of the claim and consolidation services has its type,
\* whatever calls, crashes and expiries interleave.
THEOREM TypeCorrect == Spec => []TypeOK
<1>1. IInv => TypeOK
  BY DEF IInv
<1> QED
  BY <1>1, Invariance, PTL

\* verifyOtpAndTransfer hands a business only to the mobile of a claim for
\* that business which an administrator has approved, although everything
\* was read before the transaction and may have changed since.
THEOREM OwnerAlwaysApproved == Spec => []OwnerWasApproved
<1>1. IInv => OwnerWasApproved
  BY DEF IInv
<1> QED
  BY <1>1, Invariance, PTL

\* The guesses at a claim's code pass the limit by fewer than the calls the
\* server has under way: each had read otp_attempts below the limit.
THEOREM AttemptsAlwaysBounded == Spec => []AttemptsBounded
<1>1. IInv => AttemptsBounded
  <2> SUFFICES ASSUME IInv, NEW k \in Claims
               PROVE  claim[k].attempts <= MaxOtpAttempts + Cardinality(Handlers) - 1
    BY DEF AttemptsBounded
  <2>1. claim[k].attempts \in Nat /\ MaxOtpAttempts \in Nat
    BY ClaimAssumption DEF IInv, TypeOK, ClaimRow, ClaimAssumption
  <2>2. Cardinality(Counting(k)) \in Nat /\ Cardinality(Handlers) \in Nat
    BY ClaimAssumption, CountingFinite
  <2> QED
    BY <2>1, <2>2 DEF IInv, AttemptsForeseen
<1> QED
  BY <1>1, Invariance, PTL

\* A claim is COMPLETED only together with the transfer it asked for; later
\* claims may take the business over, but it never goes back to unclaimed.
THEOREM CompletedAlwaysOwns == Spec => []CompletedOwns
<1>1. IInv => CompletedOwns
  BY DEF IInv
<1> QED
  BY <1>1, Invariance, PTL

-----------------------------------------------------------------------------
(* The register                                                            *)

\* The rows as the register sees them.
LEMMA RegisterSame ==
  ASSUME \A k \in Claims :
           /\ claim'[k].status = claim[k].status /\ claim'[k].approved = claim[k].approved
           /\ claim'[k].business = claim[k].business /\ claim'[k].mobile = claim[k].mobile
  PROVE  Words' = Words /\ Names' = Names /\ EverApproved' = EverApproved
BY DEF Words, Names, EverApproved

\* What the register sees of a claim that has a new status.
LEMMA Spoken ==
  ASSUME ClaimAssumption, IInv, NEW k \in Claims, claim[k].status # "none", NEW approval \in BOOLEAN,
         NEW s \in {"EXPIRED", Approved, "ADMIN_REJECTED", "COMPLETED"}, SetStatus(k, s, approval)
  PROVE  /\ Words' = [Words EXCEPT ![k] = s] /\ Names' = Names
         /\ EverApproved' = IF approval THEN EverApproved \cup {k} ELSE EverApproved
         /\ Words[k] # "none"
<1>1. claim[k] \in ClaimRow /\ claim \in [Claims -> ClaimRow]
  BY DEF IInv, TypeOK
<1>2. /\ claim'[k].status = s /\ claim'[k].approved = (claim[k].approved \/ approval)
      /\ claim'[k].business = claim[k].business /\ claim'[k].mobile = claim[k].mobile
      /\ \A l \in Claims : l # k => claim'[l] = claim[l]
  BY <1>1 DEF SetStatus, ClaimRow
<1>3. Words' = [Words EXCEPT ![k] = s]
  BY <1>2 DEF Words
<1>4. Names' = Names
  BY <1>2 DEF Names
<1>5. EverApproved' = IF approval THEN EverApproved \cup {k} ELSE EverApproved
  BY <1>1, <1>2 DEF EverApproved, ClaimRow
<1> QED
  BY <1>3, <1>4, <1>5 DEF Words

LEMMA DecidedOn ==
  ASSUME ClaimAssumption, IInv, NEW h \in Handlers, WriteVerdict(h)
  PROVE  Register!Next
<1> DEFINE k == call[h].claim
<1>1. k \in Claims /\ claim[k].status # "none"
  BY DEF WriteVerdict, At, IInv, AllRely, Relies, ClaimAwaits, TransferAwaits
<1>2. UNCHANGED <<status, mobile, claimedBy, into, home>>
  BY DEF WriteVerdict, businessVars
<1>3. CASE SetStatus(k, Approved, TRUE)
  <2>1. /\ Words' = [Words EXCEPT ![k] = Approved] /\ Names' = Names
        /\ EverApproved' = EverApproved \cup {k} /\ Words[k] # "none"
    BY <1>1, <1>3, Spoken
  <2>2. Register!Approve(k)
    BY <1>2, <2>1 DEF Register!Approve, Register!businessVars, Approved
  <2> QED
    BY <1>1, <2>2 DEF Register!Next
<1>4. ASSUME NEW s \in {"ADMIN_REJECTED", "EXPIRED"}, SetStatus(k, s, FALSE)
      PROVE  Register!Next
  <2>1. /\ Words' = [Words EXCEPT ![k] = s] /\ Names' = Names
        /\ EverApproved' = EverApproved /\ Words[k] # "none"
    BY <1>1, <1>4, Spoken
  <2>2. Register!Dismiss(k, s)
    BY <1>2, <2>1 DEF Register!Dismiss, Register!businessVars
  <2> QED
    BY <1>1, <2>2 DEF Register!Next
<1> QED
  BY <1>3, <1>4 DEF WriteVerdict

LEMMA HandedOver ==
  ASSUME ClaimAssumption, IInv, NEW h \in Handlers, Transfer(h)
  PROVE  [Register!Next]_(Register!registerVars)
<1> DEFINE k == call[h].claim
           b == claim[k].business
           m == claim[k].mobile
<1>1. k \in Claims /\ claim[k].status # "none" /\ claim[k].approved
  BY DEF Transfer, At, IInv, AllRely, Relies, ClaimAwaits, TransferAwaits
<1>2. UNCHANGED <<into, home>> /\ b \in Businesses /\ m \in Mobiles
  BY <1>1 DEF Transfer, IInv, RowsFilled
<1>3. CASE TakenElsewhere(m, b) /\ RolledBack(k) /\ UNCHANGED <<status, mobile, claimedBy, codes>>
  BY <1>2, <1>3 DEF RolledBack, Register!registerVars, Register!businessVars, Words, Names,
                    EverApproved
<1>4. CASE /\ ~TakenElsewhere(m, b)
           /\ status' = [status EXCEPT ![b] = "CLAIMED"]
           /\ mobile' = [mobile EXCEPT ![b] = m]
           /\ claimedBy' = [claimedBy EXCEPT ![b] = k]
           /\ SetStatus(k, "COMPLETED", FALSE)
  <2>1. /\ Words' = [Words EXCEPT ![k] = "COMPLETED"] /\ Names' = Names
        /\ EverApproved' = EverApproved
    BY <1>1, <1>4, Spoken
  <2>2. k \in EverApproved /\ Names[k] = [business |-> b, mobile |-> m]
    BY <1>1 DEF EverApproved, Names
  <2>3. ~Register!HeldElsewhere(m, b)
    BY <1>4 DEF TakenElsewhere, Register!HeldElsewhere
  <2>4. Register!HandOver(k, b, m)
    BY <1>2, <1>4, <2>1, <2>2, <2>3 DEF Register!HandOver
  <2> QED
    BY <1>1, <1>2, <2>4 DEF Register!Next
<1> QED
  BY <1>3, <1>4 DEF Transfer

LEMMA MergedInto ==
  ASSUME IInv, NEW h \in Handlers, Merge(h)
  PROVE  Register!Next
<1> DEFINE b == call[h].business
           c == call[h].canonical
<1>1. b \in Businesses /\ c \in Businesses \ {b}
  BY DEF Merge, At, IInv, AllRely, Relies, MergeAwaits
<1>2. UNCHANGED <<mobile, claimedBy, claim>>
  BY DEF Merge, claimVars
<1>3. Words' = Words /\ Names' = Names /\ EverApproved' = EverApproved
  BY <1>2 DEF Words, Names, EverApproved
<1>4. Register!Merge(b, c)
  BY <1>2, <1>3 DEF Merge, MoveOffers, Register!Merge
<1> QED
  BY <1>1, <1>4 DEF Register!Next

LEMMA Filed ==
  ASSUME IInv, NEW h \in Handlers, CreateClaim(h)
  PROVE  Register!Next
<1>1. PICK k \in Claims : /\ claim[k].status = "none"
                          /\ claim' = [claim EXCEPT ![k] =
                               [NoClaim EXCEPT !.status = Pending, !.business = call[h].business,
                                               !.mobile = call[h].mobile]]
  BY DEF CreateClaim
<1>2. UNCHANGED <<status, mobile, claimedBy, into, home>>
  BY DEF CreateClaim, businessVars
<1>3. call[h].business \in Businesses /\ call[h].mobile \in Mobiles
  BY DEF CreateClaim, At, IInv, AllRely, Relies, RequestAwaits
<1>4. claim'[k] = [NoClaim EXCEPT !.status = Pending, !.business = call[h].business,
                                  !.mobile = call[h].mobile]
  BY <1>1 DEF IInv, TypeOK
<1>5. /\ claim'[k].status = Pending /\ claim'[k].approved = FALSE
      /\ claim'[k].business = call[h].business /\ claim'[k].mobile = call[h].mobile
      /\ \A l \in Claims : l # k => claim'[l] = claim[l]
  BY <1>1, <1>4 DEF NoClaim, IInv, TypeOK
<1>6. claim[k] = NoClaim
  BY <1>1 DEF IInv, RowsFilled
<1>7. PICK name \in [business : Businesses, mobile : Mobiles] :
        name = [business |-> call[h].business, mobile |-> call[h].mobile]
  BY <1>3
<1>8. Words' = [Words EXCEPT ![k] = "PENDING_ADMIN_REVIEW"] /\ Words[k] = "none"
  <2>1. Words[k] = "none"
    BY <1>1 DEF Words
  <2>2. \A l \in Claims : Words'[l] = IF l = k THEN "PENDING_ADMIN_REVIEW" ELSE Words[l]
    BY <1>5 DEF Words, Pending
  <2>3. Words = [l \in Claims |-> claim[l].status] /\ Words' = [l \in Claims |-> claim'[l].status]
    BY DEF Words
  <2> QED
    BY <2>1, <2>2, <2>3
<1>9. Names' = [Names EXCEPT ![k] = name]
  BY <1>5, <1>7 DEF Names
<1>10. EverApproved' = EverApproved
  BY <1>5, <1>6 DEF EverApproved, NoClaim
<1>11. Register!File(k)
  BY <1>2, <1>8, <1>9, <1>10 DEF Register!File, Register!businessVars
<1> QED
  BY <1>11 DEF Register!Next

\* A step that writes no business and no status is none of the register's.
LEMMA RegisterLeftAlone ==
  ASSUME IInv, NEW h \in Handlers, CountAttempt(h) \/ UNCHANGED <<businessVars, claim>>
  PROVE  UNCHANGED Register!registerVars
<1>1. UNCHANGED <<status, mobile, claimedBy, into, home>>
  BY DEF CountAttempt, businessVars
<1>2. CASE CountAttempt(h)
  <2>1. \A l \in Claims :
          /\ claim'[l].status = claim[l].status /\ claim'[l].approved = claim[l].approved
          /\ claim'[l].business = claim[l].business /\ claim'[l].mobile = claim[l].mobile
    BY <1>2 DEF CountAttempt, IInv, TypeOK, ClaimRow
  <2> QED
    BY <1>1, <2>1, RegisterSame DEF Register!registerVars, Register!businessVars
<1>3. CASE UNCHANGED <<businessVars, claim>>
  BY <1>1, <1>3 DEF Register!registerVars, Register!businessVars, Words, Names, EverApproved
<1> QED
  BY <1>2, <1>3

\* Claims and consolidation implement the register: a business changes hands
\* in one step, with its mobile, and completes in that step a claim that was
\* approved at some time, for what the claim names and nobody else holds; a
\* merge takes every offer along; a word on a claim, however late, touches no
\* business (verifyOtpAndTransfer, approve, reject, consolidate).
THEOREM RegisterImplemented == Spec => RegisterSpec
<1>1. Init => Register!Init
  <2> SUFFICES ASSUME Init PROVE Register!Init
    OBVIOUS
  <2>1. (\A k \in Claims : Words[k] = "none") /\ EverApproved = {}
    BY DEF Init, Words, EverApproved, NoClaim
  <2>2. \A b \in Businesses : claimedBy[b] = None /\ into[b] = None /\ status[b] # "REMOVED"
    BY DEF Init
  <2>3. \A b \in Businesses : mobile[b] # None => ~Register!HeldElsewhere(mobile[b], b)
    BY DEF Init, Register!HeldElsewhere
  <2> QED
    BY <2>1, <2>2, <2>3 DEF Register!Init
<1>2. ASSUME IInv, [Next]_vars PROVE [Register!Next]_(Register!registerVars)
  <2>1. ASSUME NEW h \in Handlers, Transfer(h) PROVE [Register!Next]_(Register!registerVars)
    BY <1>2, <2>1, HandedOver, ClaimAssumption
  <2>2. ASSUME NEW h \in Handlers, Merge(h) \/ WriteVerdict(h) \/ CreateClaim(h)
        PROVE  [Register!Next]_(Register!registerVars)
    BY <1>2, <2>2, MergedInto, DecidedOn, Filed, ClaimAssumption
  <2>3. ASSUME NEW h \in Handlers, CountAttempt(h)
        PROVE  [Register!Next]_(Register!registerVars)
    BY <1>2, <2>3, RegisterLeftAlone
  <2>4. ASSUME UNCHANGED <<businessVars, claim>>
        PROVE  [Register!Next]_(Register!registerVars)
    <3>1. PICK h \in Handlers : TRUE
      BY ClaimAssumption DEF ClaimAssumption
    <3> QED
      BY <1>2, <2>4, <3>1, RegisterLeftAlone
  <2>5. ASSUME NEW h \in Handlers, Reads(h) \/ SendCode(h)
        PROVE  UNCHANGED <<businessVars, claim>>
    BY <2>5 DEF Reads, SendCode, RequestClaim, CheckMobileTaken, CheckActiveClaim, ReadOverdue,
                ReadForApproval, ReadForCode, ReadForTransfer, ReadForRejection, CheckCode,
                CheckClaimable, CheckMobileFree, ReadDuplicate, ReadCanonical, CheckPendingClaim,
                claimVars
  <2>6. CASE \E k \in Claims : DeadlinePasses(k)
    BY <2>4, <2>6 DEF DeadlinePasses
  <2>7. CASE \E m \in Mobiles : CodeExpires(m)
    BY <2>4, <2>7 DEF CodeExpires
  <2>8. CASE Crash \/ UNCHANGED vars
    BY <2>4, <2>8 DEF Crash, vars, claimVars
  <2>9. ASSUME NEW h \in Handlers, ClaimStep(h) \/ ConsolidationStep(h)
        PROVE  \/ Transfer(h) \/ Merge(h) \/ WriteVerdict(h)
               \/ CreateClaim(h) \/ CountAttempt(h)
               \/ Reads(h) \/ SendCode(h)
    BY <2>9 DEF ClaimStep, ConsolidationStep, Reads
  <2> QED
    BY <1>2, <2>1, <2>2, <2>3, <2>4, <2>5, <2>6, <2>7, <2>8, <2>9 DEF Next
<1> QED
  BY <1>1, <1>2, Invariance, PTL DEF Spec, RegisterSpec, Register!Spec
=============================================================================
