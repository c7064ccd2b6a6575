---------------------------- MODULE BusinessClaim ----------------------------
(***************************************************************************)
(* Who owns a business: claim requests with their administrator's review   *)
(* and one-time code, the transfer of ownership, and the consolidation of  *)
(* a duplicate business into another.  A handler serves one call at a time *)
(* and stops at every await; what it read before an await may be stale     *)
(* after it.  A call that is refused or throws changes nothing and is not  *)
(* a step.  Timers (the seven days of a claim, the five minutes of a code) *)
(* run out at any time.                                                    *)
(***************************************************************************)
EXTENDS Integers, FiniteSets

CONSTANTS
    Businesses, Mobiles, Offers,
    Claims,         \* the claim requests that can ever be created
    Handlers,       \* calls the server can have under way together
    MaxOtpAttempts, \* MAX_OTP_ATTEMPTS
    None

ASSUME ClaimAssumption ==
    /\ IsFiniteSet(Handlers) /\ Handlers # {}
    /\ MaxOtpAttempts \in Nat
    /\ None \notin Businesses \cup Mobiles \cup Claims \cup Offers

VARIABLES
    status,     \* Business.business_status
    mobile,     \* Business.mobile, unique
    claimedBy,  \* Business.claimed_by
    into,       \* Business.consolidated_into_business_id
    home,       \* Offer.business_id
    claim,      \* ClaimRequest
    late,       \* the claims past token_expires_at
    codes,      \* the mobiles a valid one-time code was delivered to
    call        \* what each handler is doing

businessVars == <<status, mobile, claimedBy, into, home>>
claimVars == <<claim, late, codes>>
vars == <<businessVars, claimVars, call>>

Pending == "PENDING_ADMIN_REVIEW"
Approved == "ADMIN_APPROVED"
Active == {Pending, Approved}
Terminal == {"COMPLETED", "ADMIN_REJECTED", "EXPIRED"}

\* `approved' is not a column: whether an administrator ever approved it.
ClaimRow == [status : {"none"} \cup Active \cup Terminal, business : Businesses \cup {None},
             mobile : Mobiles \cup {None}, attempts : Nat, approved : BOOLEAN]
NoClaim == [status |-> "none", business |-> None, mobile |-> None, attempts |-> 0,
            approved |-> FALSE]

Awaits == {"idle", "mobile_taken", "active_claim", "create", "expire", "approve", "reject",
           "send_code", "lock_out", "code", "count_attempt", "claimable", "mobile_free",
           "transfer", "canonical", "pending_claim", "merge"}
Call == [at : Awaits, claim : Claims \cup {None}, business : Businesses \cup {None},
         mobile : Mobiles \cup {None}, canonical : Businesses \cup {None}]
Idle == [at |-> "idle", claim |-> None, business |-> None, mobile |-> None, canonical |-> None]

TypeOK ==
    /\ status \in [Businesses -> {"UNCLAIMED", "CLAIMED", "REMOVED"}]
    /\ mobile \in [Businesses -> Mobiles \cup {None}]
    /\ claimedBy \in [Businesses -> Claims \cup {None}]
    /\ into \in [Businesses -> Businesses \cup {None}]
    /\ home \in [Offers -> Businesses]
    /\ claim \in [Claims -> ClaimRow]
    /\ late \subseteq Claims
    /\ codes \subseteq Mobiles
    /\ call \in [Handlers -> Call]

\* Discovered businesses have no owner and no mobile yet; a self-registered
\* one has both, without a claim.
Init ==
    /\ status \in [Businesses -> {"UNCLAIMED", "CLAIMED"}]
    /\ mobile \in [Businesses -> Mobiles \cup {None}]
    /\ \A b \in Businesses : status[b] = "UNCLAIMED" <=> mobile[b] = None
    /\ \A b, c \in Businesses : b # c /\ mobile[b] = mobile[c] => mobile[b] = None
    /\ claimedBy = [b \in Businesses |-> None]
    /\ into = [b \in Businesses |-> None]
    /\ home \in [Offers -> Businesses]
    /\ claim = [k \in Claims |-> NoClaim]
    /\ late = {}
    /\ codes = {}
    /\ call = [h \in Handlers |-> Idle]

-----------------------------------------------------------------------------
(* The shape of a call *)

At(h, where) == call[h].at = where
Start(h, where, fields) ==
    call' = [call EXCEPT ![h] = [f \in DOMAIN Idle |->
               IF f = "at" THEN where ELSE IF f \in DOMAIN fields THEN fields[f] ELSE Idle[f]]]
Goto(h, where) == call' = [call EXCEPT ![h].at = where]
Return(h) == call' = [call EXCEPT ![h] = Idle]

\* Go on when the check passes; when it does not, the call is refused.
Check(h, passes, where) == IF passes THEN Goto(h, where) ELSE Return(h)

ActiveOn(b) == {k \in Claims : claim[k].status \in Active /\ claim[k].business = b}
TakenElsewhere(m, b) == \E c \in Businesses \ {b} : mobile[c] = m

-----------------------------------------------------------------------------
(* ClaimRequestService.requestClaim *)

RequestClaim(h) ==
    /\ At(h, "idle")
    /\ \E b \in Businesses, m \in Mobiles :
         /\ status[b] = "UNCLAIMED"
         /\ Start(h, "mobile_taken", [business |-> b, mobile |-> m])
    /\ UNCHANGED <<businessVars, claimVars>>

CheckMobileTaken(h) ==
    /\ At(h, "mobile_taken")
    /\ Check(h, ~TakenElsewhere(call[h].mobile, call[h].business), "active_claim")
    /\ UNCHANGED <<businessVars, claimVars>>

\* The evidence is uploaded between this check and the insert.
CheckActiveClaim(h) ==
    /\ At(h, "active_claim")
    /\ Check(h, ActiveOn(call[h].business) = {}, "create")
    /\ UNCHANGED <<businessVars, claimVars>>

CreateClaim(h) ==
    /\ At(h, "create")
    /\ \E k \in Claims :
         /\ claim[k].status = "none"
         /\ claim' = [claim EXCEPT ![k] =
                [NoClaim EXCEPT !.status = Pending, !.business = call[h].business,
                                !.mobile = call[h].mobile]]
    /\ Return(h)
    /\ UNCHANGED <<businessVars, late, codes>>

-----------------------------------------------------------------------------
(* Reading a claim: expireIfPastDeadline first, then what the call asks of *)
(* its status                                                              *)

PastDeadline(k) == claim[k].status \in Active /\ k \in late

ReadOverdue(h) ==
    /\ At(h, "idle")
    /\ \E k \in Claims : PastDeadline(k) /\ Start(h, "expire", [claim |-> k])
    /\ UNCHANGED <<businessVars, claimVars>>

NotTerminal(k) == claim[k].status \in Active
UsableAndApproved(k) == claim[k].status = Approved

ReadForApproval(h) ==
    /\ At(h, "idle")
    /\ \E k \in Claims :
         claim[k].status = Pending /\ ~PastDeadline(k) /\ Start(h, "approve", [claim |-> k])
    /\ UNCHANGED <<businessVars, claimVars>>

ReadForCode(h) ==
    /\ At(h, "idle")
    /\ \E k \in Claims :
         UsableAndApproved(k) /\ ~PastDeadline(k) /\ Start(h, "send_code", [claim |-> k])
    /\ UNCHANGED <<businessVars, claimVars>>

OneMore(k) == claim[k].attempts > MaxOtpAttempts
LockedOut(k) == claim[k].attempts >= MaxOtpAttempts

ReadForTransfer(h) ==
    /\ At(h, "idle")
    /\ \E k \in Claims :
         /\ UsableAndApproved(k) /\ ~PastDeadline(k)
         /\ Start(h, IF LockedOut(k) THEN "lock_out" ELSE "code", [claim |-> k])
    /\ UNCHANGED <<businessVars, claimVars>>

\* reject looks at no deadline.
ReadForRejection(h) ==
    /\ At(h, "idle")
    /\ \E k \in Claims : claim[k].status \in Active /\ Start(h, "reject", [claim |-> k])
    /\ UNCHANGED <<businessVars, claimVars>>

-----------------------------------------------------------------------------
(* Writing a claim, by id, whatever its status has become *)

SetStatus(k, s, approval) ==
    claim' = [claim EXCEPT ![k].status = s, ![k].approved = @ \/ approval]

WriteVerdict(h) ==
    /\ \/ At(h, "expire") /\ SetStatus(call[h].claim, "EXPIRED", FALSE)
       \/ At(h, "lock_out") /\ SetStatus(call[h].claim, "EXPIRED", FALSE)
       \/ At(h, "approve") /\ SetStatus(call[h].claim, Approved, TRUE)
       \/ At(h, "reject") /\ SetStatus(call[h].claim, "ADMIN_REJECTED", FALSE)
    /\ Return(h)
    /\ UNCHANGED <<businessVars, late, codes>>

\* sendOtp: the provider may fail to deliver the code it stored.
SendCode(h) ==
    /\ At(h, "send_code")
    /\ \/ codes' = codes \cup {claim[call[h].claim].mobile}
       \/ UNCHANGED codes
    /\ Return(h)
    /\ UNCHANGED <<businessVars, claim, late>>

-----------------------------------------------------------------------------
(* verifyOtpAndTransfer *)

\* A right code, valid and delivered to the claim's mobile, or a wrong one.
CheckCode(h) ==
    /\ At(h, "code")
    /\ \/ claim[call[h].claim].mobile \in codes /\ Goto(h, "claimable")
       \/ Goto(h, "count_attempt")
    /\ UNCHANGED <<businessVars, claimVars>>

CountAttempt(h) ==
    /\ At(h, "count_attempt")
    /\ claim' = [claim EXCEPT ![call[h].claim].attempts = @ + 1]
    /\ Return(h)
    /\ UNCHANGED <<businessVars, late, codes>>

CheckClaimable(h) ==
    /\ At(h, "claimable")
    /\ Check(h, status[claim[call[h].claim].business] = "UNCLAIMED", "mobile_free")
    /\ UNCHANGED <<businessVars, claimVars>>

CheckMobileFree(h) ==
    /\ At(h, "mobile_free")
    /\ LET k == call[h].claim IN
       Check(h, ~TakenElsewhere(claim[k].mobile, claim[k].business), "transfer")
    /\ UNCHANGED <<businessVars, claimVars>>

\* What a refused update of the business leaves: nothing, or, without the
\* transaction, a claim that is completed all the same.
Half(k) == SetStatus(k, "COMPLETED", FALSE)
RolledBack(k) == UNCHANGED claim

\* The transaction: owner, claim and codes together, or nothing when the
\* mobile's unique constraint refuses.
Transfer(h) ==
    /\ At(h, "transfer")
    /\ LET k == call[h].claim
           b == claim[k].business
           m == claim[k].mobile
       IN \/ /\ TakenElsewhere(m, b)
             /\ RolledBack(k)
             /\ UNCHANGED <<status, mobile, claimedBy, codes>>
          \/ /\ ~TakenElsewhere(m, b)
             /\ status' = [status EXCEPT ![b] = "CLAIMED"]
             /\ mobile' = [mobile EXCEPT ![b] = m]
             /\ claimedBy' = [claimedBy EXCEPT ![b] = k]
             /\ SetStatus(k, "COMPLETED", FALSE)
             /\ codes' = codes \ {m}
    /\ Return(h)
    /\ UNCHANGED <<into, home, late>>

-----------------------------------------------------------------------------
(* BusinessConsolidationService.consolidate *)

ReadDuplicate(h) ==
    /\ At(h, "idle")
    /\ \E b, c \in Businesses :
         /\ b # c
         /\ status[b] = "UNCLAIMED"
         /\ Start(h, "canonical", [business |-> b, canonical |-> c])
    /\ UNCHANGED <<businessVars, claimVars>>

ReadCanonical(h) ==
    /\ At(h, "canonical")
    /\ Check(h, status[call[h].canonical] # "REMOVED", "pending_claim")
    /\ UNCHANGED <<businessVars, claimVars>>

CheckPendingClaim(h) ==
    /\ At(h, "pending_claim")
    /\ Check(h, ActiveOn(call[h].business) \cup ActiveOn(call[h].canonical) = {}, "merge")
    /\ UNCHANGED <<businessVars, claimVars>>

\* The transaction: the offers move, the duplicate is removed.
StrandOffers(b, c) == UNCHANGED home
MoveOffers(b, c) == home' = [o \in Offers |-> IF home[o] = b THEN c ELSE home[o]]

Merge(h) ==
    /\ At(h, "merge")
    /\ LET b == call[h].business IN
         /\ MoveOffers(b, call[h].canonical)
         /\ status' = [status EXCEPT ![b] = "REMOVED"]
         /\ into' = [into EXCEPT ![b] = call[h].canonical]
    /\ Return(h)
    /\ UNCHANGED <<mobile, claimedBy, claimVars>>

-----------------------------------------------------------------------------
(* Time and crashes *)

DeadlinePasses(k) ==
    /\ claim[k].status # "none" /\ k \notin late
    /\ late' = late \cup {k}
    /\ UNCHANGED <<businessVars, claim, codes, call>>

\* A code runs out, or the login of the same mobile replaces it.
CodeExpires(m) ==
    /\ m \in codes
    /\ codes' = codes \ {m}
    /\ UNCHANGED <<businessVars, claim, late, call>>

Crash ==
    /\ \E h \in Handlers : call[h] # Idle
    /\ call' = [h \in Handlers |-> Idle]
    /\ UNCHANGED <<businessVars, claimVars>>

ClaimStep(h) ==
    \/ RequestClaim(h) \/ CheckMobileTaken(h) \/ CheckActiveClaim(h) \/ CreateClaim(h)
    \/ ReadOverdue(h) \/ ReadForApproval(h) \/ ReadForCode(h) \/ ReadForTransfer(h)
    \/ ReadForRejection(h) \/ WriteVerdict(h) \/ SendCode(h)
    \/ CheckCode(h) \/ CountAttempt(h) \/ CheckClaimable(h) \/ CheckMobileFree(h) \/ Transfer(h)

ConsolidationStep(h) ==
    ReadDuplicate(h) \/ ReadCanonical(h) \/ CheckPendingClaim(h) \/ Merge(h)

Next ==
    \/ \E h \in Handlers : ClaimStep(h) \/ ConsolidationStep(h)
    \/ \E k \in Claims : DeadlinePasses(k)
    \/ \E m \in Mobiles : CodeExpires(m)
    \/ Crash

Spec == Init /\ [][Next]_vars

-----------------------------------------------------------------------------
(* Properties *)

\* A business is claimed through a claim only when that claim is for this
\* business, an administrator has approved it and its mobile is now the
\* owner's (approve, verifyOtpAndTransfer), whatever was approved, rejected,
\* expired or transferred at the same time.
OwnerWasApproved ==
    \A b \in Businesses :
        claimedBy[b] # None =>
            /\ claim[claimedBy[b]].business = b
            /\ claim[claimedBy[b]].approved
            /\ claim[claimedBy[b]].mobile = mobile[b]

\* Guessing a claim's code ends: otp_attempts passes its limit by no more
\* than the calls that read it together.
AttemptsBounded ==
    \A k \in Claims : claim[k].attempts <= MaxOtpAttempts + Cardinality(Handlers) - 1

\* A completed claim has an owner to show for it: the transaction leaves no
\* claim COMPLETED whose business it did not hand over, also when the
\* mobile's unique constraint refuses (verifyOtpAndTransfer).
CompletedOwns ==
    \A k \in Claims :
        claim[k].status = "COMPLETED" =>
            LET b == claim[k].business IN
            /\ status[b] # "UNCLAIMED" /\ claimedBy[b] # None
            /\ claimedBy[b] # k => claim[claimedBy[b]].business = b

\* The last word on each claim is its status, whatever it was before; what
\* was ever approved is remembered beside it.
Words == [k \in Claims |-> claim[k].status]
Names == [k \in Claims |-> [business |-> claim[k].business, mobile |-> claim[k].mobile]]
EverApproved == {k \in Claims : claim[k].approved}

\* The implementation of the register: every step of a claim, a review, a
\* transfer or a merge files a claim, speaks a word on one, hands a business
\* over or merges it there, or leaves it alone (requestClaim, approve, reject,
\* verifyOtpAndTransfer, consolidate).
Register == INSTANCE BusinessRegister WITH
    state <- status, owner <- claimedBy, word <- Words, names <- Names, approved <- EverApproved
RegisterSpec == Register!Spec
=============================================================================
