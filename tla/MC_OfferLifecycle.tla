-------------------------- MODULE MC_OfferLifecycle --------------------------
(***************************************************************************)
(* Two calls on one offer beside its creation, the sweep, a day on which   *)
(* it is overdue and one crash.  The forms pause, extend, reinstate and    *)
(* delete it.                                                              *)
(***************************************************************************)
EXTENDS OfferLifecycle

Ask(kind, set) == [kind |-> kind, set |-> set]

MCForms ==
    {Ask("STATUS_CHANGE", [status |-> "PAUSED"]),
     Ask("MERCHANT_EDIT", [end |-> 2]),
     Ask("MODERATE", [status |-> "ACTIVE"]),
     Ask("DELETE", <<>>)}
=============================================================================
