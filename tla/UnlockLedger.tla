---------------------------- MODULE UnlockLedger ----------------------------
(***************************************************************************)
(* What unlocking promises, whatever the requests behind it do: contact    *)
(* details open one lead at a time, never close again, and each opening    *)
(* leaves exactly one new entry, charged to the lead's owner, in a ledger  *)
(* nothing is ever removed from.                                           *)
(***************************************************************************)
CONSTANTS Leads, Businesses, Owner

VARIABLES
    opened,  \* the leads whose contact details are visible to their owner
    ledger   \* the entries written for unlocks

ledgerVars == <<opened, ledger>>

Init == opened = {} /\ ledger = {}

Open(l) ==
    /\ opened' = opened \cup {l}
    /\ \E e \in ledger' \ ledger :
          /\ ledger' = ledger \cup {e}
          /\ e.lead = l
          /\ e.business = Owner[l]

Next == \E l \in Leads : Open(l)

Spec == Init /\ [][Next]_ledgerVars
=============================================================================
