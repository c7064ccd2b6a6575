--------------------------- MODULE MC_BusinessClaim ---------------------------
(***************************************************************************)
(* Two businesses, two claims, two mobiles, two calls at a time; one wrong *)
(* code locks a claim.  One claim is left alone by its timer, so that the  *)
(* other can expire beside it, and one mobile at a time holds a code: the  *)
(* calls for both claims may still have passed the check of their codes.   *)
(***************************************************************************)
EXTENDS BusinessClaim, TLC

OneExpires == Cardinality(late) <= 1
FewGuesses == \A k, l \in Claims : k # l => claim[k].attempts = 0 \/ claim[l].attempts = 0

\* A deadline passed and a claim locked by guesses end in the same write of
\* EXPIRED; a behaviour has one of the two.
OneEnd == late = {} \/ \A k \in Claims : claim[k].attempts = 0

OneCode == Cardinality(codes) <= 1

Symmetry ==
    Permutations(Businesses) \cup Permutations(Mobiles) \cup Permutations(Claims)
        \cup Permutations(Handlers)
=============================================================================
