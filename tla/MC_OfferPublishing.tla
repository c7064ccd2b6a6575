-------------------------- MODULE MC_OfferPublishing --------------------------
(***************************************************************************)
(* One queue row, two calls at a time; and the duplicate check a publication *)
(* makes, on small tables of offers.                                       *)
(***************************************************************************)
EXTENDS OfferPublishing, Sequences, TLC

CONSTANTS m1, m2

Says(outcome, m) == [outcome |-> outcome, mobile |-> m, whole |-> TRUE]

MCContents == {Says("READY", m1), Says("CATEGORY_REQUIRED", None)}

Symmetry == Permutations(Businesses) \cup Permutations(Offers) \cup Permutations(Handlers)

-----------------------------------------------------------------------------

Words == {"", "offers", "Offers", "diwali-50-off", "Diwali-50-Off"}

D == INSTANCE Duplicates WITH
       SiteOf <- [h \in {"shop", "fb"} |-> IF h = "fb" THEN "facebook" ELSE "own"],
       GenericSegments <- {"offers"}, Numbered <- {"diwali-50-off"},
       Gap <- "",
       Plain <- [w \in {"shop", "www.shop", "fb"} \cup Words |->
                   CASE w = "www.shop" -> "shop" [] w = "Offers" -> "offers"
                     [] w = "Diwali-50-Off" -> "diwali-50-off" [] OTHER -> w]

Text(bogo, percent) == [bogt |-> FALSE, bogo |-> bogo, percent |-> percent, free |-> FALSE]
Texts == {Text(TRUE, 0), Text(FALSE, 10), Text(FALSE, 13), Text(FALSE, 0)}
Titles == {{}, {1, 2, 3}, {1, 2}, {1, 4, 5}, {1, 2, 3, 4, 5}}

FoundRow(original) ==
    [business |-> 1, title |-> {1, 2, 3}, text |-> Text(TRUE, 0), original |-> original,
     price |-> 98, url |-> None]
Sold(title, text, original) ==
    [business |-> 1, status |-> "ACTIVE", title |-> title, text |-> text, original |-> original,
     price |-> 100, url |-> None]
FoundRows == {FoundRow(o) : o \in {None, 102}}
Table == {Sold(t, x, o) : t \in Titles, x \in {Text(TRUE, 0), Text(FALSE, 10)}, o \in {0, 101}}

\* The loop of checkTier2SameBusiness, which keeps the best so far; 0 is none.
Scan(f, offers) ==
    LET best[n \in 0 .. Len(offers)] ==
          IF n = 0 THEN 0
          ELSE LET v == D!Verdict(f, offers[n]) IN
               IF v.confidence = "LOW" THEN best[n - 1]
               ELSE IF best[n - 1] = 0 THEN n
               ELSE IF D!Beats(v, D!Verdict(f, offers[best[n - 1]])) THEN n
               ELSE best[n - 1]
    IN best[Len(offers)]

\* The candidate Duplicates chooses is the one the loop ends with.
ASSUME ScanFindsBest ==
    \A f \in FoundRows, a, b, c \in Table :
        D!CheckTier2SameBusiness(f, <<a, b, c>>).offer = Scan(f, <<a, b, c>>)

Pages == {[host |-> h, path |-> p, post |-> None] :
             h \in {"shop", "www.shop"}, p \in UNION {[1 .. n -> Words] : n \in 1 .. 3}}

\* Two spellings of an address are the same page: both of one offer, or neither.
ASSUME SpellingsAgree ==
    \A u, v \in Pages :
        D!NormalizeUrl(u) = D!NormalizeUrl(v) =>
            (D!IsLikelyOfferSpecificUrl(u) <=> D!IsLikelyOfferSpecificUrl(v))

\* Likeness is symmetric: it does not matter which of the two was first.
ASSUME MechanicsSymmetric ==
    \A x, y \in Texts, o, p \in {None, 99, 102} :
        LET a == D!ClassifyMechanic(x, o, 98)  b == D!ClassifyMechanic(y, p, 96) IN
        D!MechanicsEqual(a, b) <=> D!MechanicsEqual(b, a)
=============================================================================
