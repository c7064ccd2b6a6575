------------------------------ MODULE Duplicates ------------------------------
(***************************************************************************)
(* Whether an offer found online is one the platform already sells: by its *)
(* source page, which has to be a page of one offer, or by its business,   *)
(* its promotion and the words of its title.  Words, hosts and the phrases *)
(* a promotion is recognised by are abstract; scores are compared as       *)
(* fractions, multiplied out.                                              *)
(***************************************************************************)
EXTENDS Integers, FiniteSets, Sequences

CONSTANTS
    SiteOf,          \* the kind of site each host belongs to
    GenericSegments, \* GENERIC_LISTING_SEGMENTS
    Numbered,        \* segments, in lower case, with a long number or three words
    Plain,           \* a host without its www., a segment in lower case
    Gap,             \* what two slashes that meet hold between them: nothing
    None

LiveStatuses == {"ACTIVE", "DRAFT"}
Mechanics == {"FLAT_PRICE", "BOGO", "BOGT", "PERCENTAGE_OFF", "FREE_BENEFIT", "OTHER"}

Max2(a, b) == IF a >= b THEN a ELSE b
AbsDiff(a, b) == IF a >= b THEN a - b ELSE b - a

-----------------------------------------------------------------------------
(* The source page: its host, its path and the post its query names.  The   *)
(* path is what stands between its slashes, a gap where two meet or it ends *)
(* in one; other protocols and queries are not told apart.                  *)

\* Trailing slashes and the case of letters do not count.
NormalizeUrl(u) ==
    LET last == CHOOSE n \in 0 .. Len(u.path) :
                  /\ n > 0 => u.path[n] # Gap
                  /\ \A i \in n + 1 .. Len(u.path) : u.path[i] = Gap
    IN <<Plain[u.host], [i \in 1 .. last |-> Plain[u.path[i]]]>>

\* The segments in lower case, each at its place in the path.
LowerSegments(u) ==
    [i \in {j \in 1 .. Len(u.path) : u.path[j] # Gap} |-> Plain[u.path[i]]]

IsLikelyOfferSpecificUrl(u) ==
    LET segments == LowerSegments(u)
        n == Cardinality(DOMAIN segments)
        Named(k, words) == \E i \in DOMAIN segments :
            segments[i] \in words /\ Cardinality({j \in DOMAIN segments : j <= i}) = k
        site == SiteOf[Plain[u.host]]
    IN
    \/ site = "instagram" /\ n >= 2 /\ Named(1, {"p", "reel", "tv"})
    \/ site = "facebook" /\ \E i \in DOMAIN segments : segments[i] \in {"posts", "photos", "videos"}
    \/ /\ site = "facebook" /\ u.post # None
       /\ u.path \in {<<"permalink.php">>, <<"photo">>, <<"photo.php">>}
    \/ site = "twitter" /\ n >= 3 /\ Named(2, {"status"})
    \/ site = "threads" /\ ((n >= 3 /\ Named(2, {"post"})) \/ (n >= 2 /\ Named(1, {"t"})))
    \/ site = "own" /\ n >= 1 /\ ~(n = 1 /\ Named(1, GenericSegments)) /\ Named(n, Numbered)

-----------------------------------------------------------------------------
(* The promotion: two prices, or what the text says *)

Mechanic(type, percent, original, price) ==
    [type |-> type, percent |-> percent, original |-> original, price |-> price]

ClassifyMechanic(text, original, price) ==
    IF original # None /\ price # None /\ original > price
      THEN Mechanic("FLAT_PRICE", 0, original, price)
      ELSE Mechanic(
             CASE text.bogt -> "BOGT"
               [] ~text.bogt /\ text.bogo -> "BOGO"
               [] ~text.bogt /\ ~text.bogo /\ text.percent \in 1 .. 99 -> "PERCENTAGE_OFF"
               [] ~text.bogt /\ ~text.bogo /\ text.percent \notin 1 .. 99 /\ text.free
                    -> "FREE_BENEFIT"
               [] OTHER -> "OTHER",
             text.percent, 0, 0)

\* relativeDiffPct(a, b) <= 2.
Close(a, b) == 50 * AbsDiff(a, b) <= Max2(a, b)

MechanicsEqual(a, b) ==
    /\ a.type = b.type /\ a.type # "OTHER"
    /\ a.type = "FLAT_PRICE" => Close(a.price, b.price) /\ Close(a.original, b.original)
    /\ a.type = "PERCENTAGE_OFF" => AbsDiff(a.percent, b.percent) <= 2

-----------------------------------------------------------------------------
(* Likeness of titles, and the verdict on one candidate *)

\* titleJaccard as the fraction common / all, and 0 of an empty title.
TitleJaccard(a, b) == [common |-> Cardinality(a \cap b), all |-> Cardinality(a \cup b)]
AtLeast(j, num, den) == j.common > 0 /\ den * j.common >= num * j.all

Confidence(match, j) ==
    IF match /\ AtLeast(j, 1, 2) THEN "HIGH"
    ELSE IF (match /\ AtLeast(j, 1, 5)) \/ (~match /\ AtLeast(j, 3, 5)) THEN "MEDIUM"
    ELSE "LOW"

\* Ten times the score, times j.all.
Points(confidence, j) == (IF confidence = "HIGH" THEN 7 ELSE 4) * j.all + 3 * j.common

\* 0 is how the table of offers says that there is no price.
Price(p) == IF p = 0 THEN None ELSE p

Verdict(row, offer) ==
    LET match == MechanicsEqual(ClassifyMechanic(row.text, row.original, row.price),
                                ClassifyMechanic(offer.text, Price(offer.original),
                                                 Price(offer.price)))
        j == TitleJaccard(row.title, offer.title)
        c == Confidence(match, j)
    IN [confidence |-> c, all |-> j.all, points |-> Points(c, j)]

Beats(v, w) == v.points * w.all > w.points * v.all

-----------------------------------------------------------------------------
(* AiOfferDuplicateDetectionService.check, over the table of offers *)

SameSource(row, offers) ==
    {i \in DOMAIN offers : /\ offers[i].status \in LiveStatuses
                           /\ offers[i].url # None
                           /\ NormalizeUrl(offers[i].url) = NormalizeUrl(row.url)}

SameBusiness(row, offers) ==
    {i \in DOMAIN offers : /\ offers[i].business = row.business
                           /\ offers[i].status \in LiveStatuses
                           /\ Verdict(row, offers[i]).confidence # "LOW"}

\* The scan keeps the best so far, which only a better one replaces.
IsBest(i, row, offers) ==
    /\ i \in SameBusiness(row, offers)
    /\ \A j \in SameBusiness(row, offers) :
         /\ ~Beats(Verdict(row, offers[j]), Verdict(row, offers[i]))
         /\ j < i => Beats(Verdict(row, offers[i]), Verdict(row, offers[j]))

Found(confidence, offer) == [confidence |-> confidence, offer |-> offer]

CheckTier1SourceUrl(row, offers) ==
    LET same == SameSource(row, offers) IN
    IF row.url # None /\ IsLikelyOfferSpecificUrl(row.url) /\ same # {}
      THEN Found("HIGH", CHOOSE i \in same : \A j \in same : i <= j)
      ELSE Found("LOW", 0)

CheckTier2SameBusiness(row, offers) ==
    IF \E i \in DOMAIN offers : IsBest(i, row, offers)
      THEN LET i == CHOOSE i \in DOMAIN offers : IsBest(i, row, offers) IN
           Found(Verdict(row, offers[i]).confidence, i)
      ELSE Found("LOW", 0)

Check(row, offers) ==
    LET tier1 == CheckTier1SourceUrl(row, offers) IN
    IF tier1.confidence = "HIGH" THEN tier1 ELSE CheckTier2SameBusiness(row, offers)
=============================================================================
