------------------------------ MODULE LoginCodes ------------------------------
(***************************************************************************)
(* One-time codes.  The table of codes has no owner: signing in, claiming  *)
(* a business and confirming a WhatsApp number for lead alerts all write,  *)
(* read and clear the rows of a mobile.  Sending is one query (the message *)
(* that follows may fail and changes nothing); entering a code is several, *)
(* with other calls in between.  A call that is refused or throws changes  *)
(* nothing more.  A code runs out at any time.                             *)
(***************************************************************************)
EXTENDS Integers, FiniteSets

CONSTANTS
    Mobiles, Businesses,
    Registered,     \* Business.mobile of each business
    ShortCodes,     \* four digits: sign-in and claims
    LongCodes,      \* six digits: WhatsApp numbers
    Handlers,       \* calls the server can have under way together
    MaxOtpAttempts, \* MAX_OTP_ATTEMPTS
    MaxRows,        \* bound: codes ever sent
    MaxCrashes,     \* bound: crashes of the server
    None

ASSUME CodesAssumption ==
    /\ Registered \in [Businesses -> Mobiles]
    /\ IsFiniteSet(Handlers) /\ Handlers # {}
    /\ MaxOtpAttempts \in Nat /\ MaxRows \in Nat /\ MaxCrashes \in Nat
    /\ None \notin Mobiles \cup Businesses \cup ShortCodes \cup LongCodes

Codes == ShortCodes \cup LongCodes

\* Rows are numbered in the order of created_at; 0 is no row.
Ids == 1 .. MaxRows
MaybeId == 0 .. MaxRows

VARIABLES
    otp,      \* OtpVerification
    issued,   \* the number of the last row created
    number,   \* Business.lead_whatsapp_number
    verified, \* Business.lead_whatsapp_verified
    call,     \* what each handler is doing
    guesses,  \* wrong codes entered while a row was its mobile's latest
    honoured, \* how many calls a row let through
    raced,    \* the rows two calls were let through by together
    proved,   \* the numbers each business has entered the WhatsApp code of
    replaced, \* the businesses whose number changed during a verification
    crashes

tables == <<otp, issued, number, verified>>
history == <<guesses, honoured, raced, proved, replaced, crashes>>
vars == <<tables, call, history>>

Row == [mobile : Mobiles, code : Codes, attempts : Nat, expired : BOOLEAN]
NoRow == [mobile |-> None, code |-> None, attempts |-> 0, expired |-> FALSE]

Call == [op : {"none", "sign in", "claim", "set number", "verify number"},
         at : {"idle", "find", "lock out", "count attempt", "spend", "issue", "mark"},
         mobile : Mobiles \cup {None}, code : Codes \cup {None}, latest : MaybeId,
         record : MaybeId, business : Businesses \cup {None}]
Idle == [op |-> "none", at |-> "idle", mobile |-> None, code |-> None, latest |-> 0,
         record |-> 0, business |-> None]

TypeOK ==
    /\ otp \in [Ids -> Row \cup {NoRow}]
    /\ issued \in MaybeId
    /\ number \in [Businesses -> Mobiles \cup {None}]
    /\ verified \in [Businesses -> BOOLEAN]
    /\ call \in [Handlers -> Call]
    /\ guesses \in [Ids -> Nat]
    /\ honoured \in [Ids -> Nat]
    /\ raced \subseteq Ids
    /\ proved \subseteq Businesses \X Mobiles
    /\ replaced \subseteq Businesses
    /\ crashes \in 0 .. MaxCrashes

Init ==
    /\ otp = [i \in Ids |-> NoRow]
    /\ issued = 0
    /\ number = [b \in Businesses |-> None]
    /\ verified = [b \in Businesses |-> FALSE]
    /\ call = [h \in Handlers |-> Idle]
    /\ guesses = [i \in Ids |-> 0]
    /\ honoured = [i \in Ids |-> 0]
    /\ raced = {} /\ proved = {} /\ replaced = {} /\ crashes = 0

-----------------------------------------------------------------------------
(* The shape of a call, and the table of codes *)

At(h, op, where) == call[h].op \in op /\ call[h].at = where
Goto(h, where) == call' = [call EXCEPT ![h].at = where]
Return(h) == call' = [call EXCEPT ![h] = Idle]

RowsOf(m) == {i \in Ids : otp[i].mobile = m}
IsLatest(i, ids) == IF ids = {} THEN i = 0 ELSE i \in ids /\ \A j \in ids : j <= i

\* otpVerification.create, and deleteMany of a mobile's rows.
Issue(m, c) ==
    /\ issued < MaxRows
    /\ issued' = issued + 1
    /\ otp' = [otp EXCEPT ![issued + 1] =
                 [mobile |-> m, code |-> c, attempts |-> 0, expired |-> FALSE]]
Blank(m) == [i \in Ids |-> IF otp[i].mobile = m THEN [otp[i] EXCEPT !.mobile = None] ELSE otp[i]]
WithoutLatest(m) == [i \in Ids |-> IF IsLatest(i, RowsOf(m)) THEN NoRow ELSE otp[i]]
Without(m) == [i \in Ids |-> IF otp[i].mobile = m THEN NoRow ELSE otp[i]]
DeleteRows(m) == otp' = Without(m)

\* sendOtp of the sign-in and of a claim.
SendOtp(m) ==
    /\ \E c \in ShortCodes : Issue(m, c)
    /\ UNCHANGED <<number, verified, call, history>>

Expire(i) ==
    /\ otp[i] # NoRow
    /\ otp' = [otp EXCEPT ![i].expired = TRUE]
    /\ UNCHANGED <<issued, number, verified, call, history>>

-----------------------------------------------------------------------------
(* AuthService.verifyOtp *)

OneMore(i) == i # 0 /\ otp[i].attempts > MaxOtpAttempts
LockedOut(i) == i # 0 /\ otp[i].attempts >= MaxOtpAttempts

\* The lockout is decided from the latest row alone.
SignIn(h) ==
    /\ At(h, {"none"}, "idle")
    /\ \E m \in Mobiles, c \in ShortCodes, i \in MaybeId :
         /\ IsLatest(i, RowsOf(m))
         /\ call' = [call EXCEPT ![h] =
                       [Idle EXCEPT !.op = "sign in", !.mobile = m, !.code = c, !.latest = i,
                                    !.at = IF LockedOut(i) THEN "lock out" ELSE "find"]]
    /\ UNCHANGED <<tables, history>>

LockOut(h) ==
    /\ At(h, {"sign in"}, "lock out")
    /\ DeleteRows(call[h].mobile)
    /\ Return(h)
    /\ UNCHANGED <<issued, number, verified, history>>

\* The latest row with the code entered, which may be older than the latest.
Matching(h) == {i \in RowsOf(call[h].mobile) : otp[i].code = call[h].code}
Accepts(h, i) == IsLatest(i, Matching(h)) /\ ~otp[i].expired

LetThrough(h) ==
    /\ At(h, {"sign in", "claim", "verify number"}, "find")
    /\ \E i \in Ids :
         /\ Accepts(h, i)
         /\ call' = [call EXCEPT ![h].at = "spend", ![h].record = i]
         /\ raced' = raced \cup
              {j \in {i} : \E g \in Handlers : call[g].at = "spend" /\ call[g].record = j}
         /\ proved' = proved \cup
              {p \in {<<call[h].business, otp[i].mobile>>} : call[h].op = "verify number"}
    /\ UNCHANGED <<tables, guesses, honoured, replaced, crashes>>

Refused(h) == \A i \in Ids : ~Accepts(h, i)

Refuse(h) ==
    /\ At(h, {"sign in"}, "find")
    /\ Refused(h)
    /\ IF call[h].latest = 0 THEN Return(h) ELSE Goto(h, "count attempt")
    /\ guesses' = [i \in Ids |-> guesses[i] + (IF i = call[h].latest THEN 1 ELSE 0)]
    /\ UNCHANGED <<tables, honoured, raced, proved, replaced, crashes>>

\* An update by id, which throws when the row is gone.
CountAttempt(h) ==
    /\ At(h, {"sign in"}, "count attempt")
    /\ LET i == call[h].latest IN
       otp' = IF otp[i] = NoRow THEN otp ELSE [otp EXCEPT ![i].attempts = @ + 1]
    /\ Return(h)
    /\ UNCHANGED <<issued, number, verified, history>>

\* Every row of the mobile goes with the one that was entered.  What the
\* sign-in looks up afterwards it only reads.
Spend(h) ==
    /\ At(h, {"sign in", "claim", "verify number"}, "spend")
    /\ DeleteRows(call[h].mobile)
    /\ honoured' = [honoured EXCEPT ![call[h].record] = @ + 1]
    /\ IF call[h].op = "verify number" THEN Goto(h, "mark") ELSE Return(h)
    /\ UNCHANGED <<issued, number, verified, guesses, raced, proved, replaced, crashes>>

-----------------------------------------------------------------------------
(* ClaimRequestService.verifyOtpAndTransfer, as far as the codes go: the   *)
(* attempts are counted on the claim, and the codes go with its transfer   *)

EnterClaimCode(h) ==
    /\ At(h, {"none"}, "idle")
    /\ \E m \in Mobiles, c \in ShortCodes :
         call' = [call EXCEPT ![h] = [Idle EXCEPT !.op = "claim", !.mobile = m, !.code = c,
                                                 !.at = "find"]]
    /\ UNCHANGED <<tables, history>>

\* No such code, or a transfer that was refused after its code was right.
GiveUp(h) ==
    /\ \/ At(h, {"claim", "verify number"}, "find") /\ Refused(h)
       \/ At(h, {"claim"}, "spend")
    /\ Return(h)
    /\ UNCHANGED <<tables, history>>

-----------------------------------------------------------------------------
(* BusinessService: the WhatsApp number of a merchant's lead alerts *)

KeepsMark(b, n) ==
    /\ number' = [number EXCEPT ![b] = n]
    /\ replaced' = replaced \cup
         {c \in {b} : \E h \in Handlers : call[h].op = "verify number" /\ call[h].business = b}
    /\ UNCHANGED <<verified, guesses, honoured, raced, proved, crashes>>
Replace(b, n) ==
    /\ number' = [number EXCEPT ![b] = n]
    /\ verified' = [verified EXCEPT ![b] = FALSE]
    /\ replaced' = replaced \cup
         {c \in {b} : \E h \in Handlers : call[h].op = "verify number" /\ call[h].business = b}
    /\ UNCHANGED <<guesses, honoured, raced, proved, crashes>>

\* setLeadWhatsappNumber with the registered mobile goes back to the default.
RevertNumber(b) ==
    /\ Replace(b, None)
    /\ UNCHANGED <<otp, issued, call>>

SetNumber(h) ==
    /\ At(h, {"none"}, "idle")
    /\ \E b \in Businesses, n \in Mobiles :
         /\ n # Registered[b]
         /\ Replace(b, n)
         /\ call' = [call EXCEPT ![h] = [Idle EXCEPT !.op = "set number", !.at = "issue",
                                                    !.mobile = n, !.business = b]]
    /\ UNCHANGED <<otp, issued>>

IssueNumberCode(h) ==
    /\ At(h, {"set number"}, "issue")
    /\ \E c \in LongCodes : Issue(call[h].mobile, c)
    /\ Return(h)
    /\ UNCHANGED <<number, verified, history>>

\* verifyLeadWhatsappNumber: the number it read decides which rows are
\* looked at and cleared; what it marks is the business.
VerifyNumber(h) ==
    /\ At(h, {"none"}, "idle")
    /\ \E b \in Businesses, c \in LongCodes :
         /\ number[b] # None
         /\ call' = [call EXCEPT ![h] = [Idle EXCEPT !.op = "verify number", !.at = "find",
                                                    !.mobile = number[b], !.code = c,
                                                    !.business = b]]
    /\ UNCHANGED <<tables, history>>

MarkVerified(h) ==
    /\ At(h, {"verify number"}, "mark")
    /\ verified' = [verified EXCEPT ![call[h].business] = TRUE]
    /\ Return(h)
    /\ UNCHANGED <<otp, issued, number, history>>

-----------------------------------------------------------------------------

\* The server dies: every call under way ends where it is.
Crash ==
    /\ crashes < MaxCrashes
    /\ crashes' = crashes + 1
    /\ call' = [h \in Handlers |-> Idle]
    /\ UNCHANGED <<tables, guesses, honoured, raced, proved, replaced>>

Step(h) ==
    \/ SignIn(h) \/ LockOut(h) \/ LetThrough(h) \/ Refuse(h) \/ CountAttempt(h) \/ Spend(h)
    \/ EnterClaimCode(h) \/ GiveUp(h)
    \/ SetNumber(h) \/ IssueNumberCode(h) \/ VerifyNumber(h) \/ MarkVerified(h)

Next ==
    \/ \E m \in Mobiles : SendOtp(m)
    \/ \E i \in Ids : Expire(i)
    \/ \E b \in Businesses : RevertNumber(b)
    \/ \E h \in Handlers : Step(h)
    \/ Crash

Spec == Init /\ [][Next]_vars

-----------------------------------------------------------------------------
(* Properties *)

\* Whatever a code is entered for, it lets one call through: a second one
\* only when both had found the row before either cleared it (verifyOtp,
\* verifyOtpAndTransfer and verifyLeadWhatsappNumber clear the mobile's rows).
CodeSpentOnce == \A i \in Ids : honoured[i] > 1 => i \in raced

\* verifyOtp's lockout: no more wrong codes are compared while one row is
\* the mobile's latest than the limit, the calls that read it together and
\* the counts a crash took with it, also when a claim's or a WhatsApp code
\* for the same mobile comes between.
LockoutHolds ==
    \A i \in Ids :
        guesses[i] <= MaxOtpAttempts + Cardinality(Handlers) * (crashes + 1) - 1

\* A WhatsApp number marked verified is one its business entered a code for,
\* unless the number was changed while it was being verified
\* (setLeadWhatsappNumber, verifyLeadWhatsappNumber).
VerifiedWasProved ==
    \A b \in Businesses :
        verified[b] /\ number[b] # None => <<b, number[b]>> \in proved \/ b \in replaced
=============================================================================
