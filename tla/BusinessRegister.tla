-------------------------- MODULE BusinessRegister --------------------------
(***************************************************************************)
(* What claiming and consolidating promise of the register of businesses,  *)
(* whatever calls run beside each other.  A claim names one business and   *)
(* one mobile for good.  The last word on it counts, and no word is final: *)
(* whoever speaks later, having looked earlier, takes back an approval, a  *)
(* rejection, even a completion.  A business changes hands in one step,    *)
(* its owner with its mobile, and only that step completes a claim: one    *)
(* that was approved at some time, for the business and the mobile it      *)
(* names, which no other business may hold.  A merge removes one business  *)
(* and takes every offer of it along.                                      *)
(***************************************************************************)
CONSTANTS Businesses, Mobiles, Offers, Claims, None

VARIABLES
    state,   \* whether a business is unclaimed, claimed or removed
    mobile,  \* the mobile of its owner
    owner,   \* the claim it was handed over by
    into,    \* the business it was merged into
    home,    \* the business of each offer
    word,    \* the last word on each claim
    names,   \* the business and the mobile it is for
    approved \* the claims that were approved at some time

businessVars == <<state, mobile, owner, into, home>>
registerVars == <<businessVars, word, names, approved>>

HeldElsewhere(m, b) == \E c \in Businesses \ {b} : mobile[c] = m

Init ==
    /\ \A b \in Businesses : owner[b] = None /\ into[b] = None /\ state[b] # "REMOVED"
    /\ \A b \in Businesses : mobile[b] # None => ~HeldElsewhere(mobile[b], b)
    /\ \A k \in Claims : word[k] = "none"
    /\ approved = {}

File(k) ==
    /\ word[k] = "none"
    /\ word' = [word EXCEPT ![k] = "PENDING_ADMIN_REVIEW"]
    /\ \E name \in [business : Businesses, mobile : Mobiles] :
          names' = [names EXCEPT ![k] = name]
    /\ UNCHANGED <<businessVars, approved>>

Approve(k) ==
    /\ word[k] # "none"
    /\ word' = [word EXCEPT ![k] = "ADMIN_APPROVED"]
    /\ approved' = approved \cup {k}
    /\ UNCHANGED <<businessVars, names>>

Dismiss(k, refusal) ==
    /\ word[k] # "none"
    /\ word' = [word EXCEPT ![k] = refusal]
    /\ UNCHANGED <<businessVars, names, approved>>

HandOver(k, b, m) ==
    /\ k \in approved /\ names[k] = [business |-> b, mobile |-> m]
    /\ ~HeldElsewhere(m, b)
    /\ owner' = [owner EXCEPT ![b] = k]
    /\ mobile' = [mobile EXCEPT ![b] = m]
    /\ state' = [state EXCEPT ![b] = "CLAIMED"]
    /\ word' = [word EXCEPT ![k] = "COMPLETED"]
    /\ UNCHANGED <<into, home, names, approved>>

Merge(b, c) ==
    /\ into' = [into EXCEPT ![b] = c]
    /\ state' = [state EXCEPT ![b] = "REMOVED"]
    /\ home' = [o \in Offers |-> IF home[o] = b THEN c ELSE home[o]]
    /\ UNCHANGED <<mobile, owner, word, names, approved>>

Next ==
    \/ \E k \in Claims :
          \/ File(k) \/ Approve(k)
          \/ \E refusal \in {"ADMIN_REJECTED", "EXPIRED"} : Dismiss(k, refusal)
          \/ \E b \in Businesses, m \in Mobiles : HandOver(k, b, m)
    \/ \E b, c \in Businesses : b # c /\ Merge(b, c)

Spec == Init /\ [][Next]_registerVars
=============================================================================
