---------------------------- MODULE MC_OfferMatch ----------------------------
(***************************************************************************)
(* Three customers and three requests, two under way together, for an      *)
(* offer of a matching type that asks for two people; one call that sets   *)
(* it ACTIVE again, raises the target or, by the administrator, deletes    *)
(* it; one crash.  The sweep has its own run: here no day passes.  And     *)
(* what listOffers shows of small tables of such offers.                   *)
(***************************************************************************)
EXTENDS OfferMatch, Sequences, TLC

CONSTANT None

MCForms ==
    {[kind |-> "STATUS_CHANGE", set |-> [status |-> "ACTIVE"]],
     [kind |-> "MERCHANT_EDIT", set |-> [required |-> 3]],
     [kind |-> "DELETE", set |-> <<>>]}

MCInterestUpdates == {"CANCELLED"}

\* The requests wait for the offer, and meet one disturbance: a call of the
\* merchant, a crash, a deleted account or a cancelled interest row.
Disturbances ==
    Cardinality({e \in Edits : wpc[e] # "new"}) + crashes
      + Cardinality(Customers \ accounts) + Cardinality({c \in Pool : interests[c] = "CANCELLED"})

Bounded ==
    /\ Disturbances <= 1
    /\ wpc[Creator] = "new" => \A r \in Requests : pc[r] = "new"

Symmetry == Permutations(Customers) \cup Permutations(Requests)

-----------------------------------------------------------------------------

V == INSTANCE OfferVisibility WITH Km <- [p, q \in 0 .. 2 |-> IF p >= q THEN p - q ELSE q - p]

Listed(status, end, place, shop) ==
    [offer |-> [status |-> status, end |-> end, place |-> place, category |-> "dining",
                business |-> 1, words |-> {"thali"}],
     business |-> [status |-> shop, mall |-> None, place |-> 1]]
TableRows == {Listed("ACTIVE", 1, p, "CLAIMED") : p \in {0, 2, None}}
               \cup {Listed("ACTIVE", 0, 0, "CLAIMED"), Listed("PAUSED", 1, 0, "CLAIMED"),
                     Listed("ACTIVE", 1, 0, "REMOVED")}
Tables == UNION {[1 .. n -> TableRows] : n \in 0 .. 4}
Asking(limit, page) == [V!NoFilter EXCEPT !.limit = limit, !.page = page]

\* The pages of a list, one after the other, are the list.
ASSUME PagesMakeTheList ==
    \A t \in Tables :
        V!ListOffers(t, Asking(1, 1), 1) \o V!ListOffers(t, Asking(1, 2), 1)
          \o V!ListOffers(t, Asking(1, 3), 1) \o V!ListOffers(t, Asking(1, 4), 1)
        = V!GetOffersByCategory(t, "dining", 1)

\* Offers listed around a place come nearest first, with no distance but the asked.
ASSUME NearestFirst ==
    \A t \in Tables :
        LET f == [Asking(2, 1) EXCEPT !.near = 2, !.radius = 1]
            found == V!ListOffers(t, f, 1)
        IN \A k \in DOMAIN found :
             /\ V!Distance(found[k], f) <= 1
             /\ k > 1 => V!Distance(found[k - 1], f) <= V!Distance(found[k], f)
=============================================================================
