---------------------------- MODULE OfferVisibility ----------------------------
(***************************************************************************)
(* What a viewer is shown of offers: the page of an offer, with or without *)
(* the merchant's contact details, and the lists.  The columns are grouped *)
(* by who may see them; a group that may not be seen is never queried.     *)
(***************************************************************************)
EXTENDS Integers, Sequences, FiniteSets

CONSTANTS
    Km,     \* haversineKm: the distance of two places
    None

LOCAL INSTANCE TLC

DEFAULT_LIST_OFFERS_PAGE_SIZE == 100
MAX_LIST_OFFERS_PAGE_SIZE == 200

-----------------------------------------------------------------------------
(* Who is asking; nobody has the id None *)

IsOwner(viewer, offer) == viewer.user # None /\ viewer.user = offer.business
IsAdmin(viewer) == viewer.role = "Admin"

\* Anything but the one word, a missing setting included, is the safer mode.
ResolveLeadFollowupMode(raw) ==
    IF raw = "MERCHANT_MANAGED" THEN "MERCHANT_MANAGED" ELSE "ADMIN_MANAGED"

\* Whether the contact details may be seen, and what the viewer is told.
Allowed == [canSeeContact |-> TRUE, notice |-> "AVAILABLE"]
Withheld(notice) == [canSeeContact |-> FALSE, notice |-> notice]

ResolveContactAccess(viewer, offer, business, interested, mode) ==
    IF IsOwner(viewer, offer) \/ IsAdmin(viewer) THEN Allowed
    ELSE IF viewer.user = None THEN Withheld("SIGN_UP_REQUIRED")
    ELSE IF mode = "ADMIN_MANAGED" THEN Withheld("NOT_SHARED")
    ELSE IF business.status # "CLAIMED" THEN Withheld("USE_OFFICIAL_WEBSITE")
    ELSE IF ~interested THEN Withheld("SHOW_INTEREST_REQUIRED")
    ELSE Allowed

ComputeOfferBadge(offer) ==
    IF offer.verified THEN "verified"
    ELSE IF offer.exclusive THEN "exclusive"
    ELSE IF offer.source # "MANUAL" THEN "imported"
    ELSE None

-----------------------------------------------------------------------------
(* getDetails *)

\* An offer that is not on sale is not found, rather than refused.
Hidden(offer, business, viewer) ==
    \/ offer.status # "ACTIVE" /\ ~IsOwner(viewer, offer) /\ ~IsAdmin(viewer)
    \/ business.status = "REMOVED" /\ ~IsAdmin(viewer)

\* myLead; leads are pairs of a customer and an offer's id.
HasLead(viewer, offer, leads) ==
    viewer.user # None /\ ~IsOwner(viewer, offer) /\ <<viewer.user, offer.id>> \in leads

NotFound == [available |-> FALSE, notice |-> None, badge |-> None, shows |-> {}]

\* The columns queried follow the one value, what the page says of them both.
BuildBusinessSelect(access) == {"business"} \cup {g \in {"contact"} : access.canSeeContact}

GetDetails(offer, business, leads, setting, viewer) ==
    LET lead == HasLead(viewer, offer, leads)
        access == ResolveContactAccess(viewer, offer, business, lead,
                                       ResolveLeadFollowupMode(setting))
    IN IF Hidden(offer, business, viewer) THEN NotFound
       ELSE [available |-> access.canSeeContact, notice |-> access.notice,
             badge |-> ComputeOfferBadge(offer),
             shows |-> {"offer", "interests"} \cup BuildBusinessSelect(access)
                         \cup {g \in {"lead"} : lead}
                         \cup {g \in {"customers", "whatsapp"} : IsOwner(viewer, offer)}]

-----------------------------------------------------------------------------
(* listOffers.  A table is a sequence of offers, the newest first, each    *)
(* with its business; a filter that is None was not given                  *)

OnSale(offer, now) == offer.status = "ACTIVE" /\ offer.end >= now

\* The controller's refusal.
MayList(f, viewer) == f.status \in {None, "ACTIVE"} \/ viewer.user # None

StatusAsked(offer, f, now) ==
    \/ f.status = "ALL"
    \/ f.status \in {None, "ACTIVE"} /\ OnSale(offer, now)
    \/ f.status \notin {None, "ACTIVE", "ALL"} /\ offer.status = f.status

Selected(offer, business, f, now) ==
    /\ StatusAsked(offer, f, now)
    /\ f.category # None => offer.category = f.category
    /\ f.business # None => offer.business = f.business
    /\ f.mall # None => business.mall = f.mall
    /\ f.search # None => f.search \in offer.words
    /\ business.status # "REMOVED"

Clamp(x, low, high) == IF x < low THEN low ELSE IF x > high THEN high ELSE x
Take(f) == IF f.limit = None THEN DEFAULT_LIST_OFFERS_PAGE_SIZE
           ELSE Clamp(f.limit, 1, MAX_LIST_OFFERS_PAGE_SIZE)
PageNumber(f) == IF f.page = None \/ f.page < 1 THEN 1 ELSE f.page
Skip(f) == (PageNumber(f) - 1) * Take(f)
OnPage(k, f) == Skip(f) < k /\ k <= Skip(f) + Take(f)

\* The offer's own place before its shop's.
Place(row) == IF row.offer.place # None THEN row.offer.place ELSE row.business.place
Distance(row, f) == Km[f.near, Place(row)]
Within(row, f) == Place(row) # None /\ Distance(row, f) <= f.radius

\* The page is taken first and the distance filters what is on it.
ListOffers(table, f, now) ==
    LET matching == SelectSeq(table, LAMBDA row : Selected(row.offer, row.business, f, now))
        page == SubSeq(matching, Skip(f) + 1,
                       Clamp(Skip(f) + Take(f), 0, Len(matching)))
    IN IF f.near = None THEN page
       ELSE SortSeq(SelectSeq(page, LAMBDA row : Within(row, f)),
                    LAMBDA r, s : Distance(r, f) <= Distance(s, f))

\* What each row of a list shows, to whomever.
ListingShows == {"offer", "business"}

NoFilter == [status |-> None, category |-> None, business |-> None, mall |-> None,
             search |-> None, near |-> None, radius |-> 0, page |-> None, limit |-> None]
GetOffersByCategory(table, category, now) ==
    ListOffers(table, [NoFilter EXCEPT !.category = category], now)

\* A removed business's offers count all the same.
GetCategoryCounts(table, now) ==
    LET OnSaleIn(c) == {k \in DOMAIN table : OnSale(table[k].offer, now)
                                               /\ table[k].offer.category = c}
        categories == {c \in {table[k].offer.category : k \in DOMAIN table} : OnSaleIn(c) # {}}
    IN [c \in categories |-> Cardinality(OnSaleIn(c))]
=============================================================================
