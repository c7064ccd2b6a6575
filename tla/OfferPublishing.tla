--------------------------- MODULE OfferPublishing ---------------------------
(***************************************************************************)
(* From the queue of offers found online to a live offer: the rows the     *)
(* collector exports and administrators correct, match, reject and         *)
(* publish, and the Offer Publisher's drafts, which publishing goes        *)
(* through and administrators edit beside it.  publish is a dozen queries  *)
(* without a transaction and resumes from what an earlier attempt stored.  *)
(* A call that is refused or throws changes nothing more, but a bulk       *)
(* publication writes FAILED.                                              *)
(*                                                                         *)
(* A business's mobile stands for the merchant's data approval asks for.   *)
(* Names and cities are abstract: a search may find any named business.    *)
(***************************************************************************)
EXTENDS Integers, FiniteSets

CONSTANTS
    Rows, Businesses, Offers, Mobiles,
    Handlers,    \* calls the server can have under way together
    Contents,    \* what a row may say: see Content
    MaxCrashes,  \* bound: crashes of the server
    MaxCalls,    \* bound: calls begun
    None

\* outcome is what classifyForPublish makes of the category, whole whether the
\* other fields approval requires are there.  A row may expire at any time.
Content == [outcome : {"READY", "CATEGORY_REQUIRED"},
            mobile : Mobiles \cup {None}, whole : BOOLEAN]

ASSUME PublishingAssumption ==
    /\ IsFiniteSet(Handlers)
    /\ Contents \subseteq Content /\ Contents # {}
    /\ MaxCrashes \in Nat /\ MaxCalls \in Nat
    /\ None \notin Rows \cup Businesses \cup Offers \cup Mobiles \cup Contents

VARIABLES
    row,       \* AiOfferFromOnline
    business,  \* Business
    offer,     \* Offer
    call,      \* what each handler is doing
    overlap,   \* the rows two calls were under way on together
    lost,      \* the offers a crash kept from being named by their rows
    rejected,  \* the rows an administrator has rejected
    crashes,
    calls

tables == <<row, business, offer>>
history == <<overlap, lost, rejected, crashes, calls>>
vars == <<tables, call, history>>

Terminal == {"PUBLISHED", "REJECTED"}
RowStatus == {"PENDING_ADMIN_REVIEW", "MERCHANT_MATCHED", "READY_TO_PUBLISH", "FAILED",
              "DUPLICATE_SUPPRESSED", "CATEGORY_REQUIRED", "EXPIRED"} \cup Terminal
Row == [status : RowStatus, content : Contents, matched : Businesses \cup {None},
        created : Businesses \cup {None}, offer : Offers \cup {None}]
NoRow == [status |-> "none", content |-> None, matched |-> None, created |-> None, offer |-> None]

\* A placeholder has no name a search finds; an owned business is CLAIMED.
Business == [kind : {"none", "placeholder", "named", "gone"}, owned : BOOLEAN,
             mobile : Mobiles \cup {None}]
NoBusiness == [kind |-> "none", owned |-> FALSE, mobile |-> None]
Gone == [kind |-> "gone", owned |-> FALSE, mobile |-> None]

\* made is the queue row an offer comes from; approved says whether it was
\* after its last edit, live whether it ever was, and crossed whether an edit
\* came between the two queries of a release.
Offer == [status : {"none", "DRAFT", "APPROVED", "REJECTED", "ACTIVE", "gone"},
          business : Businesses \cup {None}, whole : BOOLEAN, made : Rows \cup {None},
          approved : BOOLEAN, live : BOOLEAN, crossed : BOOLEAN]
NoOffer == [status |-> "none", business |-> None, whole |-> FALSE, made |-> None,
            approved |-> FALSE, live |-> FALSE, crossed |-> FALSE]

\* A call: its operation, the await it stands at and what it has read.
Op == {"none", "import", "match", "merchant", "correct", "reject", "publish", "bulk",
       "edit", "approve", "refuse", "release", "delete"}
Read == [status : RowStatus \cup {"none"}, content : Contents \cup {None},
         offer : Offers \cup {None}]
Remember(r) == [status |-> r.status, content |-> r.content, offer |-> r.offer]
Call == [op : Op,
         at : {"idle", "write", "search", "create_business", "store_business", "reuse",
               "duplicate", "suppress", "create", "store_offer", "fill", "current",
               "read_draft", "approve", "ready", "read_approved", "release", "published",
               "fail", "count", "delete_business"},
         row : Rows \cup {None}, read : Read, business : Businesses \cup {None},
         offer : Offers \cup {None}, mobile : Mobiles \cup {None}]
Idle == [op |-> "none", at |-> "idle", row |-> None, read |-> Remember(NoRow), business |-> None,
         offer |-> None, mobile |-> None]

TypeOK ==
    /\ row \in [Rows -> Row \cup {NoRow}]
    /\ business \in [Businesses -> Business]
    /\ offer \in [Offers -> Offer]
    /\ call \in [Handlers -> Call]
    /\ overlap \subseteq Rows /\ rejected \subseteq Rows /\ lost \subseteq Offers
    /\ crashes \in 0 .. MaxCrashes /\ calls \in 0 .. MaxCalls

\* Merchants there already, with their mobiles; nothing is in the queue.
Init ==
    /\ row = [k \in Rows |-> NoRow]
    /\ business \in [Businesses -> {NoBusiness} \cup
                       {[kind |-> "named", owned |-> TRUE, mobile |-> m] : m \in Mobiles}]
    /\ \A b, c \in Businesses :
         b # c /\ business[b].mobile = business[c].mobile => business[b].mobile = None
    /\ offer = [o \in Offers |-> NoOffer]
    /\ call = [h \in Handlers |-> Idle]
    /\ overlap = {} /\ lost = {} /\ rejected = {} /\ crashes = 0 /\ calls = 0

-----------------------------------------------------------------------------
(* The shape of a call *)

At(h, where) == call[h].at = where
Begin(h) == At(h, "idle") /\ calls < MaxCalls /\ calls' = calls + 1
Goto(h, where) == call' = [call EXCEPT ![h].at = where]
Return(h) == call' = [call EXCEPT ![h] = Idle]

\* Publishing alone or as one of a selection; of a selection an error is caught.
Publishing(h) == call[h].op \in {"publish", "bulk"}
Throw(h) == IF call[h].op = "bulk" THEN Goto(h, "fail") ELSE Return(h)

\* A call on a queue row begins with load.
Load(h, op, k, where, b) ==
    /\ Begin(h)
    /\ call' = [call EXCEPT ![h] = [Idle EXCEPT !.op = op, !.at = where, !.row = k,
                                               !.read = Remember(row[k]), !.business = b]]
    /\ overlap' = overlap \cup {j \in {k} : \E g \in Handlers : call[g].row = k}
    /\ UNCHANGED <<tables, lost, rejected, crashes>>

SetRow(h, fields) ==
    row' = [row EXCEPT ![call[h].row] = [f \in DOMAIN NoRow |->
              IF f \in DOMAIN fields THEN fields[f] ELSE @[f]]]
SetStatus(h, s) == SetRow(h, [status |-> s])

Queued(k) == row[k].status # "none"
Open(k) == Queued(k) /\ row[k].status \notin Terminal

Exists(b) == business[b].kind \in {"placeholder", "named"}
Present(o) == offer[o].status \notin {"none", "gone"}
TakenElsewhere(m, b) == m # None /\ \E c \in Businesses \ {b} : business[c].mobile = m

\* deleting a business takes its offers with it.
DeleteBusiness(b, offers) ==
    /\ business' = [business EXCEPT ![b] = Gone]
    /\ offer' = [o \in Offers |->
                   IF offers[o].business = b THEN [offers[o] EXCEPT !.status = "gone"]
                   ELSE offers[o]]

-----------------------------------------------------------------------------
(* importExportedOffer: the status is decided from a row read before the   *)
(* banner is uploaded, and written with the content by the upsert          *)

ReadForImport(h) == \E k \in Rows : Load(h, "import", k, "write", None)

StatusAsRead(read) == read.status
NextStatus(read) == IF read.status = "none" THEN "PENDING_ADMIN_REVIEW" ELSE read.status

Upsert(h) ==
    /\ call[h].op = "import" /\ At(h, "write")
    /\ \E c \in Contents : SetRow(h, [status |-> NextStatus(call[h].read), content |-> c])
    /\ Return(h)
    /\ UNCHANGED <<business, offer, history>>

-----------------------------------------------------------------------------
(* matchBusiness, createMerchant, correct, reject                          *)

ReadForMatch(h) ==
    \E k \in Rows, b \in Businesses : Open(k) /\ Exists(b) /\ Load(h, "match", k, "write", b)

WriteMatch(h) ==
    /\ call[h].op = "match" /\ At(h, "write")
    /\ SetRow(h, [status |-> "MERCHANT_MATCHED", matched |-> call[h].business, created |-> None])
    /\ Return(h)
    /\ UNCHANGED <<business, offer, history>>

ReadForMerchant(h) == \E k \in Rows : Open(k) /\ Load(h, "merchant", k, "search", None)

ReadForCorrection(h) == \E k \in Rows : Open(k) /\ Load(h, "correct", k, "write", None)

\* A corrected category returns the row to review; no other correction does.
Corrected(h, c, s) ==
    LET read == call[h].read IN
    \/ s = "PENDING_ADMIN_REVIEW" /\ read.status = "CATEGORY_REQUIRED"
    \/ /\ s = read.status
       /\ read.status = "CATEGORY_REQUIRED" => c.outcome = read.content.outcome

WriteCorrection(h) ==
    /\ call[h].op = "correct" /\ At(h, "write")
    /\ \E c \in Contents, s \in RowStatus :
         Corrected(h, c, s) /\ SetRow(h, [status |-> s, content |-> c])
    /\ Return(h)
    /\ UNCHANGED <<business, offer, history>>

ReadForRejection(h) == \E k \in Rows : Open(k) /\ Load(h, "reject", k, "write", None)

WriteRejection(h) ==
    /\ call[h].op = "reject" /\ At(h, "write")
    /\ SetStatus(h, "REJECTED")
    /\ rejected' = rejected \cup {call[h].row}
    /\ Return(h)
    /\ UNCHANGED <<business, offer, overlap, lost, crashes, calls>>

-----------------------------------------------------------------------------
(* matchOrCreateBusiness: by mobile, by name, or a new one                 *)

FoundBy(m, b) ==
    \/ m # None /\ business[b].mobile = m
    \/ ~TakenElsewhere(m, None) /\ business[b].kind = "named"

SearchBusiness(h) ==
    /\ At(h, "search")
    /\ LET m == call[h].read.content.mobile IN
       \/ \E b \in Businesses :
             /\ FoundBy(m, b)
             /\ call' = [call EXCEPT ![h].at = "store_business", ![h].business = b]
       \/ ~TakenElsewhere(m, None) /\ Goto(h, "create_business")
    /\ UNCHANGED <<tables, history>>

NewBusiness(m) == [kind |-> "named", owned |-> FALSE, mobile |-> m]

CreateBusiness(h) ==
    /\ At(h, "create_business")
    /\ LET m == call[h].read.content.mobile IN
       \/ /\ TakenElsewhere(m, None)
          /\ Throw(h)
          /\ UNCHANGED business
       \/ /\ ~TakenElsewhere(m, None)
          /\ \E b \in Businesses :
               /\ business[b] = NoBusiness
               /\ business' = [business EXCEPT ![b] = NewBusiness(m)]
               /\ call' = [call EXCEPT ![h].at = "store_business", ![h].business = b]
    /\ UNCHANGED <<row, offer, history>>

\* Where publishing goes once it has a business.
WithBusiness(read) == IF read.offer = None THEN "duplicate" ELSE "reuse"

StoreBusiness(h) ==
    /\ At(h, "store_business")
    /\ \/ /\ call[h].op = "merchant"
          /\ SetRow(h, [status |-> "MERCHANT_MATCHED", created |-> call[h].business,
                        matched |-> None])
          /\ Return(h)
       \/ /\ Publishing(h)
          /\ SetRow(h, [status |-> "MERCHANT_MATCHED", created |-> call[h].business])
          /\ Goto(h, WithBusiness(call[h].read))
    /\ UNCHANGED <<business, offer, history>>

-----------------------------------------------------------------------------
(* publish, alone or for publishSelected                                   *)

Chosen(k) == IF row[k].matched # None THEN row[k].matched ELSE row[k].created

Start(h, op) ==
    \E k \in Rows :
        \/ op = "bulk" /\ row[k].status \in Terminal /\ Load(h, op, k, "fail", None)
        \/ Open(k) /\ Load(h, op, k, "write", None)
        \/ /\ Open(k) /\ row[k].content.outcome = "READY"
           /\ IF Chosen(k) = None
              THEN Load(h, op, k, "search", None)
              ELSE Load(h, op, k, WithBusiness(row[k]), Chosen(k))

Publish(h) == Start(h, "publish")
PublishSelected(h) == Start(h, "bulk")

WriteReview(h) ==
    /\ Publishing(h) /\ At(h, "write")
    /\ \E s \in {"EXPIRED", call[h].read.content.outcome} \ {"READY"} : SetStatus(h, s)
    /\ Return(h)
    /\ UNCHANGED <<business, offer, history>>

ReuseOffer(h) ==
    /\ At(h, "reuse")
    /\ LET o == call[h].read.offer IN
       IF Present(o)
       THEN call' = [call EXCEPT ![h].at = "fill", ![h].offer = o]
       ELSE Goto(h, "duplicate")
    /\ UNCHANGED <<tables, history>>

\* Only an offer that is a draft or live can be what this one duplicates.
CheckDuplicate(h) ==
    /\ At(h, "duplicate")
    /\ \/ \E o \in Offers : offer[o].status \in {"DRAFT", "ACTIVE"} /\ Goto(h, "suppress")
       \/ Goto(h, "create")
    /\ UNCHANGED <<tables, history>>

Suppress(h) ==
    /\ At(h, "suppress")
    /\ SetStatus(h, "DUPLICATE_SUPPRESSED")
    /\ Return(h)
    /\ UNCHANGED <<business, offer, history>>

Draft(b, whole, k) ==
    [NoOffer EXCEPT !.status = "DRAFT", !.business = b, !.whole = whole, !.made = k]

CreateOffer(h) ==
    /\ At(h, "create")
    /\ LET b == call[h].business IN
       \/ /\ ~Exists(b)
          /\ Throw(h)
          /\ UNCHANGED offer
       \/ /\ Exists(b)
          /\ \E o \in Offers :
               /\ offer[o] = NoOffer
               /\ offer' = [offer EXCEPT ![o] = Draft(b, call[h].read.content.whole, call[h].row)]
               /\ call' = [call EXCEPT ![h].at = "store_offer", ![h].offer = o]
    /\ UNCHANGED <<row, business, history>>

ForgetOffer(h) == UNCHANGED row
RecordOffer(h) == SetRow(h, [offer |-> call[h].offer])

StoreOffer(h) ==
    /\ At(h, "store_offer")
    /\ RecordOffer(h)
    /\ Goto(h, "fill")
    /\ UNCHANGED <<business, offer, history>>

\* The row's mobile becomes the business's, unless that update fails.
FillGaps(h) ==
    /\ At(h, "fill")
    /\ LET b == call[h].business
           m == call[h].read.content.mobile
       IN IF m = None \/ ~Exists(b) \/ TakenElsewhere(m, b)
          THEN UNCHANGED business
          ELSE business' = [business EXCEPT ![b].mobile = m]
    /\ Goto(h, "current")
    /\ UNCHANGED <<row, offer, history>>

LiveOrApproved(s) == s \in {"ACTIVE", "APPROVED"}
AlreadyLive(s) == s = "ACTIVE"

ReadCurrent(h) ==
    /\ At(h, "current")
    /\ LET s == offer[call[h].offer].status IN
       \/ ~Present(call[h].offer) /\ Throw(h)
       \/ s = "DRAFT" /\ Goto(h, "read_draft")
       \/ AlreadyLive(s) /\ Goto(h, "published")
       \/ Present(call[h].offer) /\ s # "DRAFT" /\ ~AlreadyLive(s) /\ Goto(h, "read_approved")
    /\ UNCHANGED <<tables, history>>

MarkReady(h) ==
    /\ At(h, "ready")
    /\ SetStatus(h, "READY_TO_PUBLISH")
    /\ Goto(h, "read_approved")
    /\ UNCHANGED <<business, offer, history>>

MarkPublished(h) ==
    /\ At(h, "published")
    /\ SetStatus(h, "PUBLISHED")
    /\ Return(h)
    /\ UNCHANGED <<business, offer, history>>

\* publishSelected's catch.
MarkFailed(h) ==
    /\ At(h, "fail")
    /\ SetStatus(h, "FAILED")
    /\ Return(h)
    /\ UNCHANGED <<business, offer, history>>

-----------------------------------------------------------------------------
(* The Offer Publisher, called by publish and by administrators            *)

Take(h, op, o, where) ==
    /\ Begin(h)
    /\ call' = [call EXCEPT ![h] = [Idle EXCEPT !.op = op, !.at = where, !.offer = o,
                                               !.business = offer[o].business]]
    /\ UNCHANGED <<tables, overlap, lost, rejected, crashes>>

Update(o, s) == offer' = [offer EXCEPT ![o].status = s, ![o].approved = @ \/ s = "APPROVED",
                                       ![o].live = @ \/ s = "ACTIVE"]

Approvable(o) ==
    offer[o].status = "DRAFT" /\ offer[o].whole /\ business[offer[o].business].mobile # None

ReadDraft(h) ==
    \/ \E o \in Offers : Approvable(o) /\ Take(h, "approve", o, "approve")
    \/ /\ At(h, "read_draft")
       /\ IF Approvable(call[h].offer) THEN Goto(h, "approve") ELSE Throw(h)
       /\ UNCHANGED <<tables, history>>

ApproveDraft(h) ==
    /\ At(h, "approve")
    /\ \/ ~Present(call[h].offer) /\ Throw(h) /\ UNCHANGED offer
       \/ /\ Present(call[h].offer)
          /\ Update(call[h].offer, "APPROVED")
          /\ IF Publishing(h) THEN Goto(h, "ready") ELSE Return(h)
    /\ UNCHANGED <<row, business, history>>

NotDraft(s) == s \in {"APPROVED", "REJECTED"}
Releasable(s) == s = "APPROVED"

ReadApproved(h) ==
    \/ \E o \in Offers : Releasable(offer[o].status) /\ Take(h, "release", o, "release")
    \/ /\ At(h, "read_approved")
       /\ IF Releasable(offer[call[h].offer].status) THEN Goto(h, "release") ELSE Throw(h)
       /\ UNCHANGED <<tables, history>>

PublishDraft(h) ==
    /\ At(h, "release")
    /\ \/ ~Present(call[h].offer) /\ Throw(h) /\ UNCHANGED offer
       \/ /\ Present(call[h].offer)
          /\ Update(call[h].offer, "ACTIVE")
          /\ IF Publishing(h) THEN Goto(h, "published") ELSE Return(h)
    /\ UNCHANGED <<row, business, history>>

RejectDraft(h) ==
    \/ \E o \in Offers :
          offer[o].status \in {"DRAFT", "APPROVED"} /\ Take(h, "refuse", o, "write")
    \/ /\ call[h].op = "refuse" /\ At(h, "write")
       /\ IF Present(call[h].offer) THEN Update(call[h].offer, "REJECTED") ELSE UNCHANGED offer
       /\ Return(h)
       /\ UNCHANGED <<row, business, history>>

\* createPlaceholderDraft: one transaction.
UploadDraft ==
    /\ \E b \in Businesses, o \in Offers :
         /\ business[b] = NoBusiness /\ offer[o] = NoOffer
         /\ business' = [business EXCEPT ![b].kind = "placeholder"]
         /\ offer' = [offer EXCEPT ![o] = Draft(b, FALSE, None)]
    /\ UNCHANGED <<row, call, history>>

\* updateDraft: a mobile other than its business's moves the offer.
ReadForEdit(h) ==
    \E o \in Offers, m \in Mobiles \cup {None} :
        /\ offer[o].status \in {"DRAFT", "APPROVED", "REJECTED"}
        /\ Begin(h)
        /\ call' = [call EXCEPT ![h] = [Idle EXCEPT !.op = "edit", !.at = "write", !.offer = o,
                      !.business = offer[o].business,
                      !.mobile = IF m = business[offer[o].business].mobile THEN None ELSE m]]
        /\ UNCHANGED <<tables, overlap, lost, rejected, crashes>>

\* What was approved is not what the offer says now.
Releasing(o) == \E h \in Handlers : At(h, "release") /\ call[h].offer = o
Edited(o, b, whole) ==
    [offer EXCEPT ![o].status = "DRAFT", ![o].business = b, ![o].whole = whole,
                  ![o].approved = FALSE, ![o].crossed = @ \/ Releasing(o)]

\* The business it leaves goes when no offer is left there.
MoveDraft(h, b, whole) ==
    LET old == call[h].business
        moved == Edited(call[h].offer, b, whole)
        left == \E o \in Offers : Present(o) /\ moved[o].business = old
        found == IF business[b] = NoBusiness
                 THEN [business EXCEPT ![b] = NewBusiness(call[h].mobile)] ELSE business
    IN \/ /\ old = b \/ left
          /\ offer' = moved
          /\ business' = found
       \/ /\ old # b /\ ~left /\ Exists(old)
          /\ offer' = moved
          /\ business' = [found EXCEPT ![old] = Gone]
       \/ /\ old # b /\ ~left /\ ~Exists(old)
          /\ UNCHANGED <<offer, business>>

\* One transaction; it is rolled back when the offer or business is gone.
EditDraft(h) ==
    /\ call[h].op = "edit" /\ At(h, "write")
    /\ LET m == call[h].mobile
           b == call[h].business
       IN \/ /\ ~Present(call[h].offer) \/ (m = None /\ ~Exists(b))
             /\ UNCHANGED <<offer, business>>
          \/ /\ Present(call[h].offer) /\ m = None /\ Exists(b)
             /\ \E whole \in BOOLEAN : offer' = Edited(call[h].offer, b, whole)
             /\ \E kind \in {business[b].kind, "named"} :
                  business' = [business EXCEPT ![b].kind = kind]
          \/ /\ Present(call[h].offer) /\ m # None
             /\ \E c \in Businesses, whole \in BOOLEAN :
                  /\ FoundBy(m, c) \/ (business[c] = NoBusiness /\ ~TakenElsewhere(m, None))
                  /\ MoveDraft(h, c, whole)
    /\ Return(h)
    /\ UNCHANGED <<row, history>>

\* deleteDraft: the offer, a count of what its business has left, the business.
DeleteDraft(h) ==
    \/ \E o \in Offers :
          offer[o].status \in {"DRAFT", "REJECTED"} /\ Take(h, "delete", o, "write")
    \/ /\ call[h].op = "delete" /\ At(h, "write")
       /\ IF Present(call[h].offer)
          THEN Update(call[h].offer, "gone") /\ Goto(h, "count")
          ELSE UNCHANGED offer /\ Return(h)
       /\ UNCHANGED <<row, business, history>>

CountLeft(h) ==
    /\ At(h, "count")
    /\ IF \E o \in Offers : Present(o) /\ offer[o].business = call[h].business
       THEN Return(h)
       ELSE Goto(h, "delete_business")
    /\ UNCHANGED <<tables, history>>

RemoveBusiness(h) ==
    /\ At(h, "delete_business")
    /\ IF Exists(call[h].business)
       THEN DeleteBusiness(call[h].business, offer)
       ELSE UNCHANGED <<business, offer>>
    /\ Return(h)
    /\ UNCHANGED <<row, history>>

-----------------------------------------------------------------------------

Crash ==
    /\ crashes < MaxCrashes
    /\ \E h \in Handlers : call[h] # Idle
    /\ call' = [h \in Handlers |-> Idle]
    /\ lost' = lost \cup {call[h].offer : h \in {g \in Handlers : At(g, "store_offer")}}
    /\ crashes' = crashes + 1
    /\ UNCHANGED <<tables, overlap, rejected, calls>>

QueueStep(h) ==
    \/ ReadForImport(h) \/ Upsert(h) \/ ReadForMatch(h) \/ WriteMatch(h) \/ ReadForMerchant(h)
    \/ ReadForCorrection(h) \/ WriteCorrection(h) \/ ReadForRejection(h) \/ WriteRejection(h)
    \/ SearchBusiness(h) \/ CreateBusiness(h) \/ StoreBusiness(h)

PublishStep(h) ==
    \/ Publish(h) \/ PublishSelected(h) \/ WriteReview(h) \/ ReuseOffer(h) \/ CheckDuplicate(h)
    \/ Suppress(h) \/ CreateOffer(h) \/ StoreOffer(h) \/ FillGaps(h) \/ ReadCurrent(h)
    \/ MarkReady(h) \/ MarkPublished(h) \/ MarkFailed(h)

DraftStep(h) ==
    \/ ReadDraft(h) \/ ApproveDraft(h) \/ ReadApproved(h) \/ PublishDraft(h) \/ RejectDraft(h)
    \/ ReadForEdit(h) \/ EditDraft(h) \/ DeleteDraft(h) \/ CountLeft(h) \/ RemoveBusiness(h)

Next ==
    \/ \E h \in Handlers : QueueStep(h) \/ PublishStep(h) \/ DraftStep(h)
    \/ UploadDraft
    \/ Crash

Spec == Init /\ [][Next]_vars

-----------------------------------------------------------------------------
(* Properties *)

\* One queue row makes one offer, however often it is published, fails, dies
\* and is published again (publish's reuse of created_offer_id), beside the
\* offers a crash kept from being named by their row, as long as no two calls on
\* the row overlap.
OnceUnlessOverlap ==
    \A k \in Rows \ overlap :
        Cardinality({o \in Offers \ lost : Present(o) /\ offer[o].made = k}) <= 1

\* A row that says PUBLISHED has an offer made from it that did go live,
\* whoever else edits, approves, deletes or publishes (publish's resumption).
PublishedWentLive ==
    \A k \in Rows : row[k].status = "PUBLISHED" => \E o \in Offers : offer[o].made = k /\ offer[o].live

\* A live offer was approved after its last edit, though approveDraft,
\* publishDraft and updateDraft each write by id what an earlier read allowed,
\* also from a resumed publication, unless an edit came between the two queries
\* of the release itself.
LiveWasApproved ==
    \A o \in Offers : offer[o].status = "ACTIVE" => offer[o].approved \/ offer[o].crossed

\* A rejected row is never published (publish: "Cannot publish a rejected
\* offer"), were it only that no call overlaps another on the row.
RejectedStays ==
    \A k \in Rows \ overlap : k \in rejected => row[k].status # "PUBLISHED"
=============================================================================
