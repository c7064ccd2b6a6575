----------------------- MODULE OfferPublishing_proofs -----------------------
(***************************************************************************)
(* What publishing promises, for any rows, offers, contents and number of  *)
(* calls under way.  What a publication carries from one await to the next *)
(* is never taken back: an offer keeps the row it was made from, an        *)
(* approval and a release are for good.  What it read of its row is still  *)
(* so as long as no other call is on the row.  And what the duplicate      *)
(* check it makes decides, for every row and every table of offers.        *)
(***************************************************************************)
EXTENDS OfferPublishing, Sequences, FiniteSetTheorems, WellFoundedInduction, TLAPS

CONSTANTS SiteOf, GenericSegments, Numbered, Plain, Gap \* of Duplicates

Twice == INSTANCE Duplicates

PublishOps == {"publish", "bulk"}
WriteOps == {"import", "match", "correct", "reject"}
RowOps == WriteOps \cup PublishOps \cup {"merchant"}
DraftOps == {"edit", "approve", "refuse", "release", "delete"}

MerchantAwaits == {"search", "create_business", "store_business"}
OfferAwaits == {"store_offer", "fill", "current", "read_draft", "approve", "ready",
                "read_approved", "release", "published"}
PublishAwaits == MerchantAwaits \cup OfferAwaits
                   \cup {"write", "reuse", "duplicate", "suppress", "create", "fail"}

\* Where a call of each kind can stand.
Placed(c) ==
    /\ c.op = "none" => c = Idle
    /\ c.op \in WriteOps \cup {"edit", "refuse"} => c.at = "write"
    /\ c.op = "merchant" => c.at \in MerchantAwaits
    /\ c.op \in PublishOps => c.at \in PublishAwaits
    /\ c.op = "approve" => c.at = "approve"
    /\ c.op = "release" => c.at = "release"
    /\ c.op = "delete" => c.at \in {"write", "count", "delete_business"}
    /\ c.op \in RowOps <=> c.row # None

WentLive(k) == \E o \in Offers : offer[o].made = k /\ offer[o].live

\* Approved after its last edit, or edited while its release was under way.
Vouched(o) == offer[o].approved \/ offer[o].crossed

\* What a call may rely on.
Relies(c) ==
    /\ Placed(c)
    /\ c.op \in RowOps \ {"import"} => row[c.row].status # "none" /\ c.read.content \in Contents
    /\ c.op \in RowOps =>
         /\ c.read.status = "PUBLISHED" => WentLive(c.row)
         /\ c.read.offer # None => offer[c.read.offer].made = c.row
    /\ c.op \in PublishOps /\ c.at \in OfferAwaits => c.offer # None /\ offer[c.offer].made = c.row
    /\ c.op \in DraftOps => c.offer # None /\ offer[c.offer].status # "none"
    /\ c.at = "reuse" => c.read.offer # None
    /\ c.at = "release" => Vouched(c.offer)
    /\ c.at = "published" => offer[c.offer].live
AllRely == \A h \in Handlers : Relies(call[h])

RowsTrue ==
    \A k \in Rows : /\ row[k].offer # None => offer[row[k].offer].made = k
                    /\ row[k].status = "PUBLISHED" => WentLive(k)
OffersTrue ==
    \A o \in Offers : /\ offer[o].status = "none" => offer[o] = NoOffer
                      /\ offer[o].status = "APPROVED" => offer[o].approved
                      /\ offer[o].status = "ACTIVE" => offer[o].live
                      /\ offer[o].status = "ACTIVE" => Vouched(o)

Base == TypeOK /\ AllRely /\ RowsTrue /\ OffersTrue

-----------------------------------------------------------------------------

\* The offers made from a row, but those a crash kept from its record.
Made(k) == {o \in Offers \ lost : Present(o) /\ offer[o].made = k}

\* One call at a time is on a row, or several have been.
Alone ==
    \A g, h \in Handlers :
        call[g].row = call[h].row /\ call[h].row \in Rows \ overlap => g = h

\* What a publication alone on its row knows of the offers made from it.
Knows(c) ==
    c.op \in PublishOps /\ c.row \notin overlap =>
        /\ c.at \in MerchantAwaits \cup {"reuse"} => c.read.offer = row[c.row].offer
        /\ c.at \in {"duplicate", "create"} => Made(c.row) = {}
        /\ c.at = "store_offer" => Made(c.row) \subseteq {c.offer}

Storing(h, k, o) ==
    call[h].op \in PublishOps /\ call[h].row = k /\ call[h].at = "store_offer" /\ call[h].offer = o

\* The offer made from a row is the one its row names, or is about to.
Accounted(k) ==
    \A o \in Made(k) : o = row[k].offer \/ \E h \in Handlers : Storing(h, k, o)

OnceInv ==
    /\ \A h \in Handlers : Knows(call[h])
    /\ \A k \in Rows \ overlap : Accounted(k)

IInv == Base /\ Alone /\ OnceInv
-----------------------------------------------------------------------------
(* What holds at first, and what it takes to keep it                       *)

LEMMA IdleIsACall ==
  ASSUME PublishingAssumption
  PROVE  Idle \in Call /\ Idle.row = None /\ Idle.op = "none" /\ Idle.at = "idle"
BY DEF Idle, Call, Op, Read, Remember, NoRow

LEMMA IdleRelies == ASSUME PublishingAssumption PROVE Relies(Idle) /\ Relies(Idle)' /\ Knows(Idle)
<1>1. Idle.row = None /\ Idle.op = "none" /\ Idle.at = "idle"
  BY IdleIsACall
<1>2. Placed(Idle)
  BY <1>1 DEF Placed, WriteOps, PublishOps, RowOps
<1> QED
  BY <1>1, <1>2 DEF Relies, Knows, WriteOps, PublishOps, RowOps, DraftOps

LEMMA Initially == ASSUME PublishingAssumption, Init PROVE IInv
<1>1. \A h \in Handlers : call[h] = Idle
  BY DEF Init
<1>2. TypeOK
  <2>1. NoOffer \in Offer
    BY DEF NoOffer, Offer
  <2>2. business \in [Businesses -> Business]
    <3>1. NoBusiness \in Business
            /\ \A m \in Mobiles : [kind |-> "named", owned |-> TRUE, mobile |-> m] \in Business
      BY DEF NoBusiness, Business
    <3> QED
      BY <3>1 DEF Init
  <2> QED
    BY <2>1, <2>2, IdleIsACall DEF Init, TypeOK, PublishingAssumption
<1>3. AllRely
  BY <1>1, IdleRelies DEF AllRely
<1>4. RowsTrue /\ OffersTrue
  BY DEF Init, RowsTrue, OffersTrue, NoRow, NoOffer
<1>5. Alone
  BY <1>1, IdleIsACall DEF Alone, PublishingAssumption
<1>6. OnceInv
  <2>1. \A k \in Rows : Made(k) = {}
    BY DEF Init, Made, Present, NoOffer
  <2> QED
    BY <1>1, <2>1, IdleRelies DEF OnceInv, Accounted
<1> QED
  BY <1>2, <1>3, <1>4, <1>5, <1>6 DEF IInv, Base

\* Rows and offers are never unmade, and an offer's past is not rewritten.
Grows ==
    /\ \A k \in Rows : row[k].status # "none" => row'[k].status # "none"
    /\ \A o \in Offers : offer[o].status # "none" =>
         /\ offer'[o].status # "none" /\ offer'[o].made = offer[o].made
         /\ (offer[o].live => offer'[o].live)
         /\ (Vouched(o) /\ Releasing(o) => Vouched(o)')

LEMMA MadeIsThere ==
  ASSUME PublishingAssumption, Base, NEW o \in Offers, offer[o].made \in Rows \/ offer[o].live
  PROVE  offer[o].status # "none"
BY DEF Base, OffersTrue, NoOffer, PublishingAssumption

LEMMA WentLiveStays ==
  ASSUME PublishingAssumption, Base, Grows, NEW k, WentLive(k)
  PROVE  WentLive(k)'
<1>1. PICK o \in Offers : offer[o].made = k /\ offer[o].live
  BY DEF WentLive
<1>2. offer'[o].made = k /\ offer'[o].live
  BY <1>1, MadeIsThere DEF Grows
<1> QED
  BY <1>2 DEF WentLive

LEMMA Carried ==
  ASSUME PublishingAssumption, Base, Grows, NEW c \in Call, Relies(c),
         c.at = "release" => Releasing(c.offer) \/ UNCHANGED offer
  PROVE  Relies(c)'
<1>1. Placed(c)
  BY DEF Relies
<1>2. c.op \in RowOps => c.row \in Rows
  BY <1>1 DEF Placed, Call
<1>3. c.op \in RowOps \ {"import"} => row'[c.row].status # "none" /\ c.read.content \in Contents
  BY <1>2 DEF Relies, Grows
<1>4. c.op \in RowOps => /\ c.read.status = "PUBLISHED" => WentLive(c.row)'
                         /\ c.read.offer # None => offer'[c.read.offer].made = c.row
  <2> SUFFICES ASSUME c.op \in RowOps
               PROVE  /\ c.read.status = "PUBLISHED" => WentLive(c.row)'
                      /\ c.read.offer # None => offer'[c.read.offer].made = c.row
    OBVIOUS
  <2>1. c.read.status = "PUBLISHED" => WentLive(c.row)'
    BY WentLiveStays DEF Relies
  <2>2. ASSUME c.read.offer # None PROVE offer'[c.read.offer].made = c.row
    <3>1. c.read.offer \in Offers /\ offer[c.read.offer].made = c.row
      BY <2>2 DEF Relies, Call, Read
    <3> QED
      BY <1>2, <3>1, MadeIsThere DEF Grows
  <2> QED
    BY <2>1, <2>2
<1>5. c.op \in PublishOps /\ c.at \in OfferAwaits => c.offer # None /\ offer'[c.offer].made = c.row
  <2> SUFFICES ASSUME c.op \in PublishOps, c.at \in OfferAwaits
               PROVE  c.offer # None /\ offer'[c.offer].made = c.row
    OBVIOUS
  <2>1. c.offer \in Offers /\ offer[c.offer].made = c.row /\ c.row \in Rows
    BY <1>2 DEF Relies, Call, RowOps
  <2> QED
    BY <2>1, MadeIsThere DEF Grows, PublishingAssumption
<1>6. c.op \in DraftOps => c.offer # None /\ offer'[c.offer].status # "none"
  BY DEF Relies, Call, Grows
<1>7. c.at \in {"release", "published"} => c.offer \in Offers /\ offer[c.offer].status # "none"
  <2> SUFFICES ASSUME c.at \in {"release", "published"}
               PROVE  c.offer \in Offers /\ offer[c.offer].status # "none"
    OBVIOUS
  <2>1. c.op \in PublishOps \/ c.op = "release"
    BY <1>1 DEF Placed, Idle, WriteOps, PublishOps, Call, Op, MerchantAwaits
  <2>2. CASE c.op \in PublishOps
    BY <1>2, <2>2, MadeIsThere DEF Relies, Call, RowOps, OfferAwaits
  <2>3. CASE c.op = "release"
    BY <2>3 DEF Relies, DraftOps, Call
  <2> QED
    BY <2>1, <2>2, <2>3
<1>8. /\ c.at = "release" => Vouched(c.offer)'
      /\ c.at = "published" => offer'[c.offer].live
      /\ c.at = "reuse" => c.read.offer # None
  BY <1>7 DEF Relies, Grows, Vouched
<1> QED
  BY <1>1, <1>3, <1>4, <1>5, <1>6, <1>8 DEF Relies

\* One call moves, or is over; the others rely on what they did.
LEMMA AllCarried ==
  ASSUME PublishingAssumption, Base, Grows, NEW h \in Handlers, NEW c \in Call,
         call' = [call EXCEPT ![h] = c], Relies(c)'
  PROVE  AllRely'
<1> SUFFICES ASSUME NEW g \in Handlers PROVE Relies(call[g])'
  BY DEF AllRely
<1>1. CASE g = h
  <2>1. call'[g] = c
    BY <1>1 DEF Base, TypeOK
  <2> QED
    BY <2>1 DEF Relies, Placed
<1>2. CASE g # h
  <2>1. call'[g] = call[g] /\ call[g] \in Call /\ Relies(call[g])
    BY <1>2 DEF Base, TypeOK, AllRely
  <2>2. PICK d \in Call : d = call[g]
    BY <2>1
  <2>3. Relies(d)'
    BY <2>1, <2>2, Carried DEF Releasing, At
  <2>4. call'[g] = d
    BY <2>1, <2>2
  <2> QED
    BY <2>3, <2>4 DEF Relies, Placed
<1> QED
  BY <1>1, <1>2
LEMMA BaseStep ==
  ASSUME PublishingAssumption, Base, NEW h \in Handlers, NEW c \in Call,
         call' = [call EXCEPT ![h] = c], Relies(c)',
         row' \in [Rows -> Row \cup {NoRow}], business' \in [Businesses -> Business],
         offer' \in [Offers -> Offer], overlap' \subseteq Rows, rejected' \subseteq Rows,
         lost' \subseteq Offers,
         crashes' \in 0 .. MaxCrashes, calls' \in 0 .. MaxCalls,
         Grows, RowsTrue', OffersTrue'
  PROVE  Base'
<1>1. AllRely'
  BY AllCarried
<1>2. TypeOK'
  BY DEF Base, TypeOK
<1> QED
  BY <1>1, <1>2 DEF Base

LEMMA AloneCarried ==
  ASSUME PublishingAssumption, Base, Alone, NEW h \in Handlers, NEW c \in Call,
         call' = [call EXCEPT ![h] = c], c.row \in {call[h].row, None},
         overlap \subseteq overlap'
  PROVE  Alone'
<1>1. call'[h] = c /\ \A g \in Handlers : g # h => call'[g] = call[g]
  BY DEF Base, TypeOK
<1> QED
  BY <1>1 DEF Alone, PublishingAssumption

\* A step that makes no offer from a row and records none in one.
LEMMA OnceCarried ==
  ASSUME PublishingAssumption, Base, Alone, OnceInv, NEW h \in Handlers, NEW c \in Call,
         call' = [call EXCEPT ![h] = c], c.row \in {call[h].row, None},
         call[h].at # "store_offer", Placed(c),
         Knows(c), UNCHANGED <<overlap, lost, crashes>>,
         \A k \in Rows : Made(k)' \subseteq Made(k) /\ row'[k].offer = row[k].offer
  PROVE  OnceInv'
<1> SUFFICES /\ \A g \in Handlers : Knows(call[g])'
             /\ \A k \in Rows \ overlap : Accounted(k)'
  BY DEF OnceInv
<1>1. call'[h] = c /\ \A g \in Handlers : g # h => call'[g] = call[g]
  BY DEF Base, TypeOK
<1>2. /\ \A g \in Handlers : Knows(call[g])
      /\ \A k \in Rows \ overlap : Accounted(k)
  BY DEF OnceInv
<1>3. \A g \in Handlers : Placed(call'[g])
  BY <1>1 DEF Base, AllRely, Relies
<1>4. \A g \in Handlers : call'[g].op \in PublishOps => call'[g].row \in Rows
  BY <1>1, <1>3 DEF Placed, RowOps, Call, Base, TypeOK
<1>5. \A g \in Handlers : Knows(call'[g])
  BY <1>1, <1>2
<1>6. ASSUME NEW g \in Handlers PROVE Knows(call[g])'
  <2>1. \A d : Knows(d) <=> (d.op \in PublishOps /\ d.row \notin overlap =>
          /\ d.at \in MerchantAwaits \cup {"reuse"} => d.read.offer = row[d.row].offer
          /\ d.at \in {"duplicate", "create"} => Made(d.row) = {}
          /\ d.at = "store_offer" => Made(d.row) \subseteq {d.offer})
    BY DEF Knows
  <2>2. Knows(call[g])' <=> (call'[g].op \in PublishOps /\ call'[g].row \notin overlap =>
          /\ call'[g].at \in MerchantAwaits \cup {"reuse"}
               => call'[g].read.offer = row'[call'[g].row].offer
          /\ call'[g].at \in {"duplicate", "create"} => Made(call[g].row)' = {}
          /\ call'[g].at = "store_offer" => Made(call[g].row)' \subseteq {call'[g].offer})
    BY DEF Knows
  <2>3. call'[g].op \in PublishOps =>
          /\ Made(call[g].row)' \subseteq Made(call'[g].row)
          /\ row'[call'[g].row].offer = row[call'[g].row].offer
    BY <1>4 DEF Made, Present
  <2> QED
    BY <1>5, <2>1, <2>2, <2>3
<1>7. ASSUME NEW k \in Rows \ overlap PROVE Accounted(k)'
  <2> SUFFICES ASSUME NEW o \in Made(k)', o # row'[k].offer
               PROVE  \E g \in Handlers : Storing(g, k, o)'
    BY DEF Accounted
  <2>1. o \in Made(k) /\ o # row[k].offer
    OBVIOUS
  <2>2. PICK g \in Handlers : Storing(g, k, o)
    BY <1>2, <2>1 DEF Accounted
  <2>3. g # h
    BY <2>2 DEF Storing
  <2> QED
    BY <1>1, <2>2, <2>3 DEF Storing
<1> QED
  BY <1>6, <1>7
LEMMA TableStep ==
  ASSUME PublishingAssumption, IInv, NEW h \in Handlers, NEW c \in Call,
         call' = [call EXCEPT ![h] = c], c.row \in {call[h].row, None},
         call[h].at # "store_offer", Knows(c), Relies(c)',
         row' \in [Rows -> Row \cup {NoRow}], business' \in [Businesses -> Business],
         offer' \in [Offers -> Offer], rejected' \subseteq Rows, calls' \in 0 .. MaxCalls,
         UNCHANGED <<overlap, lost, crashes>>,
         \A k \in Rows : Made(k)' \subseteq Made(k) /\ row'[k].offer = row[k].offer,
         Grows, RowsTrue', OffersTrue'
  PROVE  IInv'
<1>1. overlap' \subseteq Rows /\ lost' \subseteq Offers /\ crashes' \in 0 .. MaxCrashes
  BY DEF IInv, Base, TypeOK
<1>2. Placed(c)
  BY DEF Relies, Placed
<1>3. Base'
  BY <1>1, BaseStep DEF IInv
<1>4. Alone'
  BY AloneCarried DEF IInv
<1>5. OnceInv'
  BY <1>2, OnceCarried DEF IInv
<1> QED
  BY <1>3, <1>4, <1>5 DEF IInv

\* A call reads, or writes a business: rows and offers stay.
LEMMA Quiet ==
  ASSUME PublishingAssumption, IInv, NEW h \in Handlers, NEW c \in Call,
         call' = [call EXCEPT ![h] = c], c.row \in {call[h].row, None},
         call[h].at # "store_offer", Knows(c), Relies(c),
         business' \in [Businesses -> Business], rejected' \subseteq Rows, calls' \in 0 .. MaxCalls,
         UNCHANGED <<row, offer, overlap, lost, crashes>>
  PROVE  IInv'
<1>1. Grows /\ RowsTrue' /\ OffersTrue'
  BY DEF Grows, IInv, Base, RowsTrue, OffersTrue, WentLive, Vouched
<1>2. \A k \in Rows : Made(k)' \subseteq Made(k)
  BY DEF Made, Present
<1>3. Relies(c)'
  BY <1>1, Carried DEF IInv
<1>4. row' \in [Rows -> Row \cup {NoRow}] /\ offer' \in [Offers -> Offer]
  BY DEF IInv, Base, TypeOK
<1> QED
  BY <1>1, <1>2, <1>3, <1>4, TableStep

\* A call writes its row, all but the offer the row names.
LEMMA WritesRow ==
  ASSUME PublishingAssumption, IInv, NEW h \in Handlers, NEW c \in Call,
         call' = [call EXCEPT ![h] = c], c.row \in {call[h].row, None},
         call[h].at # "store_offer", Knows(c), Relies(c),
         NEW r \in Row, call[h].row \in Rows, row' = [row EXCEPT ![call[h].row] = r],
         r.offer = row[call[h].row].offer, r.status = "PUBLISHED" => WentLive(call[h].row),
         rejected' \subseteq Rows, UNCHANGED <<business, offer, overlap, lost, crashes, calls>>
  PROVE  IInv'
<1> DEFINE k == call[h].row
<1>1. /\ row' \in [Rows -> Row \cup {NoRow}] /\ row'[k] = r
      /\ \A j \in Rows : j # k => row'[j] = row[j]
  BY DEF IInv, Base, TypeOK
<1>2. r.status # "none"
  BY DEF Row, RowStatus, Terminal
<1>3. Grows
  BY <1>1, <1>2 DEF Grows, Vouched
<1>4. \A j : WentLive(j) => WentLive(j)'
  BY DEF WentLive
<1>5. RowsTrue'
  BY <1>1, <1>4 DEF IInv, Base, RowsTrue
<1>6. OffersTrue' /\ business' \in [Businesses -> Business] /\ offer' \in [Offers -> Offer]
        /\ calls' \in 0 .. MaxCalls
  BY DEF IInv, Base, OffersTrue, TypeOK, Vouched
<1>7. \A j \in Rows : Made(j)' \subseteq Made(j) /\ row'[j].offer = row[j].offer
  BY <1>1 DEF Made, Present
<1>8. Relies(c)'
  BY <1>3, Carried DEF IInv
<1> HIDE DEF k
<1> QED
  BY <1>1, <1>3, <1>5, <1>6, <1>7, <1>8, TableStep

\* A call writes offers: none is made from a row, none that was gone returns.
LEMMA WritesOffers ==
  ASSUME PublishingAssumption, IInv, NEW h \in Handlers, NEW c \in Call,
         call' = [call EXCEPT ![h] = c], c.row \in {call[h].row, None},
         call[h].at # "store_offer", Knows(c), Relies(c)',
         offer' \in [Offers -> Offer], business' \in [Businesses -> Business],
         Grows, OffersTrue', \A k \in Rows : Made(k)' \subseteq Made(k),
         UNCHANGED <<row, overlap, lost, crashes, rejected, calls>>
  PROVE  IInv'
<1>1. \A k \in Rows : WentLive(k) => WentLive(k)'
  BY WentLiveStays DEF IInv
<1>2. \A k \in Rows : row[k].offer # None => offer'[row[k].offer].made = k
  <2> SUFFICES ASSUME NEW k \in Rows, row[k].offer # None PROVE offer'[row[k].offer].made = k
    OBVIOUS
  <2>1. row[k].offer \in Offers
    BY DEF IInv, Base, TypeOK, Row, NoRow
  <2>2. offer[row[k].offer].made = k
    BY DEF IInv, Base, RowsTrue
  <2> QED
    BY <2>1, <2>2, MadeIsThere DEF Grows, IInv
<1>3. RowsTrue'
  BY <1>1, <1>2 DEF RowsTrue, IInv, Base
<1>4. /\ row' \in [Rows -> Row \cup {NoRow}] /\ rejected' \subseteq Rows /\ calls' \in 0 .. MaxCalls
      /\ \A k \in Rows : row'[k].offer = row[k].offer
  BY DEF IInv, Base, TypeOK
<1> QED
  BY <1>3, <1>4, TableStep
-----------------------------------------------------------------------------
(* What SetRow writes                                                      *)

Set(r, fields) == [f \in DOMAIN NoRow |-> IF f \in DOMAIN fields THEN fields[f] ELSE r[f]]

LEMMA RowSet ==
  ASSUME NEW h, NEW fields, SetRow(h, fields)
  PROVE  row' = [row EXCEPT ![call[h].row] = Set(row[call[h].row], fields)]
BY DEF SetRow, Set

LEMMA SetsStatus ==
  ASSUME NEW r \in Row, NEW s \in RowStatus
  PROVE  LET e == Set(r, [status |-> s]) IN e \in Row /\ e.status = s /\ e.offer = r.offer
<1> DEFINE e == [status |-> s, content |-> r.content, matched |-> r.matched, created |-> r.created,
                 offer |-> r.offer]
<1>1. e \in Row
  BY DEF Row
<1>2. e = Set(r, [status |-> s])
  BY DEF Set, NoRow, Row
<1> QED
  BY <1>1, <1>2

LEMMA SetsContent ==
  ASSUME NEW r \in Row \cup {NoRow}, NEW s \in RowStatus, NEW t \in Contents
  PROVE  LET e == Set(r, [status |-> s, content |-> t]) IN
         e \in Row /\ e.status = s /\ e.offer = r.offer
<1> DEFINE e == [status |-> s, content |-> t, matched |-> r.matched, created |-> r.created,
                 offer |-> r.offer]
           fields == [status |-> s, content |-> t]
<1>1. e \in Row
  BY DEF Row, NoRow
<1>2. e = Set(r, fields)
  BY DEF Set, NoRow, Row
<1> QED
  BY <1>1, <1>2

LEMMA SetsMatched ==
  ASSUME PublishingAssumption, NEW r \in Row, NEW b \in Businesses \cup {None}, NEW e,
         e = Set(r, [status |-> "MERCHANT_MATCHED", matched |-> b, created |-> None])
  PROVE  e \in Row /\ e.status = "MERCHANT_MATCHED" /\ e.offer = r.offer
<1> DEFINE d == [status |-> "MERCHANT_MATCHED", content |-> r.content, matched |-> b,
                 created |-> None, offer |-> r.offer]
           fields == [status |-> "MERCHANT_MATCHED", matched |-> b, created |-> None]
<1>1. d \in Row
  BY DEF Row, RowStatus
<1>2. d = Set(r, fields)
  BY DEF Set, NoRow, Row
<1> QED
  BY <1>1, <1>2

LEMMA SetsMerchant ==
  ASSUME PublishingAssumption, NEW r \in Row, NEW b \in Businesses \cup {None}, NEW e,
         e = Set(r, [status |-> "MERCHANT_MATCHED", created |-> b, matched |-> None])
  PROVE  e \in Row /\ e.status = "MERCHANT_MATCHED" /\ e.offer = r.offer
<1> DEFINE d == [status |-> "MERCHANT_MATCHED", content |-> r.content, matched |-> None,
                 created |-> b, offer |-> r.offer]
           fields == [status |-> "MERCHANT_MATCHED", created |-> b, matched |-> None]
<1>1. d \in Row
  BY DEF Row, RowStatus
<1>2. d = Set(r, fields)
  BY DEF Set, NoRow, Row
<1> QED
  BY <1>1, <1>2

LEMMA SetsCreated ==
  ASSUME PublishingAssumption, NEW r \in Row, NEW b \in Businesses \cup {None}, NEW e,
         e = Set(r, [status |-> "MERCHANT_MATCHED", created |-> b])
  PROVE  e \in Row /\ e.status = "MERCHANT_MATCHED" /\ e.offer = r.offer
<1> DEFINE d == [status |-> "MERCHANT_MATCHED", content |-> r.content, matched |-> r.matched,
                 created |-> b, offer |-> r.offer]
           fields == [status |-> "MERCHANT_MATCHED", created |-> b]
<1>1. d \in Row
  BY DEF Row, RowStatus
<1>2. d = Set(r, fields)
  BY DEF Set, NoRow, Row
<1> QED
  BY <1>1, <1>2

LEMMA SetsOffer ==
  ASSUME NEW r \in Row, NEW o \in Offers
  PROVE  LET e == Set(r, [offer |-> o]) IN e \in Row /\ e.status = r.status /\ e.offer = o
<1> DEFINE e == [status |-> r.status, content |-> r.content, matched |-> r.matched,
                 created |-> r.created, offer |-> o]
<1>1. e \in Row
  BY DEF Row
<1>2. e = Set(r, [offer |-> o])
  BY DEF Set, NoRow, Row
<1> QED
  BY <1>1, <1>2

\* The row of a call that is not an import has been there since it was read.
LEMMA OnItsRow ==
  ASSUME PublishingAssumption, IInv, NEW h \in Handlers, call[h].op \in RowOps
  PROVE  /\ call[h] \in Call /\ Relies(call[h]) /\ Placed(call[h])
         /\ call[h].row \in Rows /\ row[call[h].row] \in Row \cup {NoRow}
         /\ call[h].op # "import" => row[call[h].row] \in Row
<1>1. call[h] \in Call /\ Relies(call[h]) /\ Placed(call[h])
  BY DEF IInv, Base, TypeOK, AllRely, Relies
<1>2. call[h].row \in Rows
  BY <1>1 DEF Placed, Call
<1>3. row[call[h].row] \in Row \cup {NoRow}
  BY <1>2 DEF IInv, Base, TypeOK
<1> QED
  BY <1>1, <1>2, <1>3 DEF Relies, NoRow

\* A call is over.
LEMMA Over ==
  ASSUME PublishingAssumption, NEW h, Return(h)
  PROVE  /\ Idle \in Call /\ call' = [call EXCEPT ![h] = Idle] /\ Idle.row = None
         /\ Idle.at # "release" /\ Relies(Idle) /\ Relies(Idle)' /\ Knows(Idle)
BY IdleIsACall, IdleRelies DEF Return

\* A call goes on with all it has read.
LEMMA Onward ==
  ASSUME PublishingAssumption, IInv, NEW h \in Handlers, NEW where \in PublishAwaits, Goto(h, where)
  PROVE  \E c \in Call :
           /\ call' = [call EXCEPT ![h] = c]
           /\ c.at = where /\ c.op = call[h].op /\ c.row = call[h].row /\ c.read = call[h].read
           /\ c.business = call[h].business /\ c.offer = call[h].offer
<1>1. call[h] \in Call
  BY DEF IInv, Base, TypeOK
<1>2. where \in {"idle", "write", "search", "create_business", "store_business", "reuse",
         "duplicate", "suppress", "create", "store_offer", "fill", "current",
         "read_draft", "approve", "ready", "read_approved", "release", "published",
         "fail", "count", "delete_business"}
  BY DEF PublishAwaits, MerchantAwaits, OfferAwaits
<1> DEFINE c == [call[h] EXCEPT !.at = where]
<1>3. call' = [call EXCEPT ![h] = c]
  BY <1>1 DEF Goto, Call
<1>4. /\ c \in Call
      /\ c.at = where /\ c.op = call[h].op /\ c.row = call[h].row /\ c.read = call[h].read
      /\ c.business = call[h].business /\ c.offer = call[h].offer
  BY <1>1, <1>2 DEF Call
<1> HIDE DEF c
<1> QED
  BY <1>3, <1>4
-----------------------------------------------------------------------------
(* Calls begin                                                             *)

LEMMA AtRest ==
  ASSUME PublishingAssumption, IInv, NEW h \in Handlers, At(h, "idle")
  PROVE  call[h] = Idle
<1>1. Placed(call[h]) /\ call[h] \in Call
  BY DEF IInv, Base, TypeOK, AllRely, Relies
<1> QED
  BY <1>1 DEF At, Placed, Call, Op, WriteOps, PublishOps, MerchantAwaits, PublishAwaits, OfferAwaits

LEMMA Loads ==
  ASSUME PublishingAssumption, IInv, NEW h \in Handlers, NEW op \in RowOps, NEW k \in Rows, NEW where,
         NEW b \in Businesses \cup {None}, Load(h, op, k, where, b),
         op # "import" => Queued(k),
         op \in WriteOps => where = "write",
         op = "merchant" => where = "search",
         op \in PublishOps => where \in {"write", "search", "reuse", "duplicate", "fail"},
         where = "duplicate" => row[k].offer = None, where = "reuse" => row[k].offer # None
  PROVE  IInv'
<1>0. call[h] = Idle /\ Idle.row = None /\ Idle.op = "none" /\ k # None
  BY AtRest, IdleIsACall DEF Load, Begin, PublishingAssumption
<1>1. /\ call' = [call EXCEPT ![h] = [Idle EXCEPT !.op = op, !.at = where, !.row = k,
                                              !.read = Remember(row[k]), !.business = b]]
      /\ overlap' = overlap \cup {j \in {k} : \E g \in Handlers : call[g].row = k}
      /\ UNCHANGED <<row, business, offer, lost, rejected, crashes>>
      /\ calls' = calls + 1 /\ calls < MaxCalls
  BY DEF Load, Begin, tables
<1>2. row[k] \in Row \cup {NoRow}
  BY DEF IInv, Base, TypeOK
<1>3. /\ Remember(row[k]) \in Read /\ Remember(row[k]).status = row[k].status
      /\ Remember(row[k]).offer = row[k].offer /\ Remember(row[k]).content = row[k].content
  BY <1>2 DEF Remember, Read, Row, NoRow
<1>4. where \in {"write", "search", "reuse", "duplicate", "fail"} /\ op \in Op
  BY DEF RowOps, WriteOps, PublishOps, Op
<1>5. PICK c \in Call : /\ call' = [call EXCEPT ![h] = c]
                        /\ c.op = op /\ c.at = where /\ c.row = k /\ c.read = Remember(row[k])
                        /\ c.offer = None
  <2> DEFINE d == [Idle EXCEPT !.op = op, !.at = where, !.row = k, !.read = Remember(row[k]),
                               !.business = b]
  <2>1. /\ d \in Call /\ d.op = op /\ d.at = where /\ d.row = k /\ d.read = Remember(row[k])
        /\ d.offer = None
    BY <1>3, <1>4 DEF Call, Idle
  <2>2. call' = [call EXCEPT ![h] = d]
    BY <1>1
  <2> HIDE DEF d
  <2> QED
    BY <2>1, <2>2
<1>6. Placed(c)
  BY <1>0, <1>4, <1>5 DEF Placed, RowOps, WriteOps, PublishOps, PublishAwaits, MerchantAwaits
<1>7. Relies(c)
  <2>1. op # "import" => row[k].status # "none" /\ row[k].content \in Contents
    BY <1>2 DEF Queued, Row, NoRow
  <2>2. /\ row[k].status = "PUBLISHED" => WentLive(k)
        /\ row[k].offer # None => offer[row[k].offer].made = k
    BY DEF IInv, Base, RowsTrue
  <2> QED
    BY <1>3, <1>4, <1>5, <1>6, <2>1, <2>2
       DEF Relies, OfferAwaits, RowOps, WriteOps, PublishOps, DraftOps
<1>8. Grows /\ RowsTrue' /\ OffersTrue'
  BY <1>1 DEF Grows, IInv, Base, RowsTrue, OffersTrue, WentLive, Vouched
<1>9. Base'
  <2>1. Relies(c)'
    BY <1>1, <1>5, <1>7, <1>8, Carried DEF IInv
  <2>2. calls' \in 0 .. MaxCalls
    BY <1>1 DEF IInv, Base, TypeOK, PublishingAssumption
  <2> QED
    <3>1. /\ row' \in [Rows -> Row \cup {NoRow}] /\ business' \in [Businesses -> Business]
          /\ offer' \in [Offers -> Offer] /\ overlap' \subseteq Rows /\ rejected' \subseteq Rows /\ lost' \subseteq Offers
          /\ crashes' \in 0 .. MaxCrashes
      BY <1>1 DEF IInv, Base, TypeOK
    <3> QED
      BY <1>5, <1>8, <2>1, <2>2, <3>1, BaseStep DEF IInv
<1>10. call'[h] = c /\ \A g \in Handlers : g # h => call'[g] = call[g]
  BY <1>5 DEF IInv, Base, TypeOK
<1>11. /\ overlap \subseteq overlap'
       /\ k \notin overlap' => \A g \in Handlers : call[g].row # k
  BY <1>1
<1>12. Alone'
  BY <1>5, <1>10, <1>11 DEF IInv, Alone
<1>13. \A j \in Rows : Made(j)' = Made(j)
  BY <1>1 DEF Made, Present
<1>14. ASSUME k \notin overlap' PROVE \A o \in Made(k) : o = row[k].offer
  BY <1>11, <1>14 DEF IInv, OnceInv, Accounted, Storing
<1>15. OnceInv'
  <2> SUFFICES /\ \A g \in Handlers : Knows(call[g])'
               /\ \A j \in Rows \ overlap' : Accounted(j)'
    BY <1>1 DEF OnceInv
  <2>1. Knows(call[h])'
    <3>1. Knows(call[h])' <=> (call'[h].op \in PublishOps /\ call'[h].row \notin overlap' =>
            /\ call'[h].at \in MerchantAwaits \cup {"reuse"}
                 => call'[h].read.offer = row'[call'[h].row].offer
            /\ call'[h].at \in {"duplicate", "create"} => Made(call[h].row)' = {}
            /\ call'[h].at = "store_offer" => Made(call[h].row)' \subseteq {call'[h].offer})
      BY DEF Knows
    <3>2. Made(call[h].row)' = Made(k)
      BY <1>1, <1>5, <1>10 DEF Made, Present
    <3>3. k \notin overlap' /\ where = "duplicate" => Made(k) = {}
      BY <1>14 DEF Made, PublishingAssumption
    <3> QED
      BY <1>1, <1>3, <1>4, <1>5, <1>10, <3>1, <3>2, <3>3
  <2>2. ASSUME NEW g \in Handlers, g # h PROVE Knows(call[g])'
    <3>1. Knows(call[g]) /\ call'[g] = call[g]
      BY <1>10, <2>2 DEF IInv, OnceInv
    <3>2. Made(call[g].row)' = Made(call[g].row)
      BY <1>1, <3>1 DEF Made, Present
    <3> QED
      BY <1>1, <1>11, <3>1, <3>2 DEF Knows
  <2>3. ASSUME NEW j \in Rows \ overlap' PROVE Accounted(j)'
    <3>1. Accounted(j) /\ \A o : ~Storing(h, j, o)
      BY <1>0, <1>11, <2>3 DEF IInv, OnceInv, Storing, PublishOps
    <3>2. \A o : \A g \in Handlers : Storing(g, j, o) => Storing(g, j, o)'
      BY <1>10, <3>1 DEF Storing
    <3> QED
      BY <1>1, <1>13, <3>1, <3>2 DEF Accounted
  <2> QED
    BY <2>1, <2>2, <2>3
<1> QED
  BY <1>9, <1>12, <1>15 DEF IInv
LEMMA BusinessKept ==
  ASSUME IInv, UNCHANGED <<business, offer, history>>
  PROVE  /\ business' \in [Businesses -> Business] /\ offer' \in [Offers -> Offer]
         /\ rejected' \subseteq Rows /\ calls' \in 0 .. MaxCalls
         /\ UNCHANGED <<overlap, lost, crashes, rejected, calls>>
BY DEF history, IInv, Base, TypeOK

\* The calls on a queue row that one write ends.
LEMMA LoadsKeep ==
  ASSUME PublishingAssumption, IInv, NEW h \in Handlers,
         \/ ReadForImport(h) \/ ReadForMatch(h) \/ ReadForMerchant(h) \/ ReadForCorrection(h)
         \/ ReadForRejection(h) \/ Publish(h) \/ PublishSelected(h)
  PROVE  IInv'
<1>0. /\ \A op \in WriteOps : op \in RowOps /\ op # "merchant" /\ op \notin PublishOps
      /\ "merchant" \in RowOps /\ "merchant" \notin PublishOps /\ "merchant" \notin WriteOps
      /\ \A op \in PublishOps : op \in RowOps /\ op \notin WriteOps /\ op # "merchant" /\ op # "import"
  BY DEF WriteOps, PublishOps, RowOps
<1>1. CASE ReadForImport(h)
  BY <1>0, <1>1, Loads DEF ReadForImport, WriteOps
<1>2. CASE ReadForMatch(h)
  BY <1>0, <1>2, Loads DEF ReadForMatch, WriteOps, Open
<1>3. CASE ReadForMerchant(h)
  BY <1>0, <1>3, Loads DEF ReadForMerchant, Open
<1>4. CASE ReadForCorrection(h)
  BY <1>0, <1>4, Loads DEF ReadForCorrection, WriteOps, Open
<1>5. CASE ReadForRejection(h)
  BY <1>0, <1>5, Loads DEF ReadForRejection, WriteOps, Open
<1>6. CASE Publish(h) \/ PublishSelected(h)
  <2>1. PICK op \in PublishOps : Start(h, op)
    BY <1>6 DEF Publish, PublishSelected, PublishOps
  <2>2. PICK k \in Rows :
          \/ op = "bulk" /\ row[k].status \in Terminal /\ Load(h, op, k, "fail", None)
          \/ Open(k) /\ Load(h, op, k, "write", None)
          \/ /\ Open(k) /\ row[k].content.outcome = "READY"
             /\ IF Chosen(k) = None
                THEN Load(h, op, k, "search", None)
                ELSE Load(h, op, k, WithBusiness(row[k]), Chosen(k))
    BY <2>1 DEF Start
  <2>3. Chosen(k) \in Businesses \cup {None}
    BY DEF Chosen, IInv, Base, TypeOK, Row, NoRow
  <2>4. CASE row[k].status \in Terminal /\ Load(h, op, k, "fail", None)
    BY <1>0, <2>4, Loads DEF Terminal, Queued
  <2>5. CASE Open(k) /\ Load(h, op, k, "write", None)
    BY <1>0, <2>5, Loads DEF Open
  <2>6. CASE Open(k) /\ Load(h, op, k, "search", None)
    BY <1>0, <2>6, Loads DEF Open
  <2>7. CASE Open(k) /\ Load(h, op, k, WithBusiness(row[k]), Chosen(k))
    <3>1. /\ WithBusiness(row[k]) \in {"reuse", "duplicate"}
          /\ WithBusiness(row[k]) = "duplicate" <=> row[k].offer = None
      BY DEF WithBusiness
    <3> QED
      BY <1>0, <2>3, <2>7, <3>1, Loads DEF Open
  <2> QED
    BY <2>2, <2>4, <2>5, <2>6, <2>7
<1> QED
  BY <1>1, <1>2, <1>3, <1>4, <1>5, <1>6

-----------------------------------------------------------------------------
(* Calls write their row                                                   *)

LEMMA Finishes ==
  ASSUME PublishingAssumption, IInv, NEW h \in Handlers, call[h].op \in RowOps,
         call[h].at # "store_offer", Return(h),
         NEW r \in Row, row' = [row EXCEPT ![call[h].row] = r],
         r.offer = row[call[h].row].offer, r.status = "PUBLISHED" => WentLive(call[h].row),
         rejected' \subseteq Rows, UNCHANGED <<business, offer, overlap, lost, crashes, calls>>
  PROVE  IInv'
<1>1. Idle \in Call /\ call' = [call EXCEPT ![h] = Idle] /\ Idle.row = None /\ Relies(Idle) /\ Knows(Idle)
  BY Over
<1>2. call[h].row \in Rows
  BY OnItsRow
<1> QED
  BY <1>1, <1>2, WritesRow

LEMMA WritesKeep ==
  ASSUME PublishingAssumption, IInv, NEW h \in Handlers,
         Upsert(h) \/ WriteMatch(h) \/ WriteCorrection(h) \/ WriteRejection(h)
  PROVE  IInv'
<1> DEFINE k == call[h].row
<1>0. /\ call[h].op \in RowOps /\ call[h].at # "store_offer" /\ Return(h)
      /\ UNCHANGED <<business, offer, overlap, lost, crashes, calls>>
  BY DEF Upsert, WriteMatch, WriteCorrection, WriteRejection, At, RowOps, WriteOps, history
<1>1. /\ call[h] \in Call /\ Relies(call[h]) /\ k \in Rows /\ row[k] \in Row \cup {NoRow}
      /\ call[h].op # "import" => row[k] \in Row
  BY <1>0, OnItsRow
<1>2. rejected' \subseteq Rows
  BY <1>1 DEF Upsert, WriteMatch, WriteCorrection, WriteRejection, history, IInv, Base, TypeOK
<1>3. CASE Upsert(h)
  <2>1. PICK t \in Contents : SetRow(h, [status |-> NextStatus(call[h].read), content |-> t])
    BY <1>3 DEF Upsert
  <2>2. /\ NextStatus(call[h].read) \in RowStatus
        /\ NextStatus(call[h].read) = "PUBLISHED" => WentLive(k)
    BY <1>0, <1>1 DEF NextStatus, RowStatus, Call, Read, Relies
  <2> DEFINE r == Set(row[k], [status |-> NextStatus(call[h].read), content |-> t])
  <2>3. r \in Row /\ r.status = NextStatus(call[h].read) /\ r.offer = row[k].offer
    BY <1>1, <2>2, SetsContent
  <2>4. row' = [row EXCEPT ![k] = r]
    BY <2>1, RowSet
  <2> HIDE DEF r
  <2> QED
    BY <1>0, <1>2, <2>2, <2>3, <2>4, Finishes
<1>4. CASE WriteMatch(h)
  <2> DEFINE b == call[h].business
             r == Set(row[k], [status |-> "MERCHANT_MATCHED", matched |-> b, created |-> None])
  <2>1. r \in Row /\ r.status = "MERCHANT_MATCHED" /\ r.offer = row[k].offer
    <3>1. b \in Businesses \cup {None} /\ row[k] \in Row
      BY <1>1, <1>4 DEF Call, WriteMatch
    <3>2. PICK q \in Row, t \in Businesses \cup {None} : q = row[k] /\ t = b
      BY <3>1
    <3>3. r = Set(q, [status |-> "MERCHANT_MATCHED", matched |-> t, created |-> None])
      BY <3>2
    <3>4. r \in Row /\ r.status = "MERCHANT_MATCHED" /\ r.offer = q.offer
      <4> HIDE DEF r
      <4> QED
        BY <3>3, SetsMatched
    <3> HIDE DEF r
    <3> QED
      BY <3>2, <3>4
  <2>2. row' = [row EXCEPT ![k] = r]
    BY <1>4, RowSet DEF WriteMatch
  <2> HIDE DEF r
  <2> QED
    BY <1>0, <1>2, <2>1, <2>2, Finishes
<1>5. CASE WriteCorrection(h)
  <2>1. PICK t \in Contents, s \in RowStatus :
          Corrected(h, t, s) /\ SetRow(h, [status |-> s, content |-> t])
    BY <1>5 DEF WriteCorrection
  <2> DEFINE r == Set(row[k], [status |-> s, content |-> t])
  <2>2. r \in Row /\ r.status = s /\ r.offer = row[k].offer
    BY <1>1, SetsContent
  <2>3. s = "PUBLISHED" => WentLive(k)
    BY <1>0, <1>1, <2>1 DEF Corrected, Relies
  <2>4. row' = [row EXCEPT ![k] = r]
    BY <2>1, RowSet
  <2> HIDE DEF r
  <2> QED
    BY <1>0, <1>2, <2>2, <2>3, <2>4, Finishes
<1>6. CASE WriteRejection(h)
  <2> DEFINE r == Set(row[k], [status |-> "REJECTED"])
  <2>1. r \in Row /\ r.status = "REJECTED" /\ r.offer = row[k].offer
    BY <1>1, <1>6, SetsStatus DEF RowStatus, Terminal, WriteRejection
  <2>2. row' = [row EXCEPT ![k] = r]
    BY <1>6, RowSet DEF WriteRejection, SetStatus
  <2> HIDE DEF r
  <2> QED
    BY <1>0, <1>2, <2>1, <2>2, Finishes
<1> QED
  BY <1>3, <1>4, <1>5, <1>6
-----------------------------------------------------------------------------
(* Calls go on to their next await, or throw                               *)

LEMMA WhoIsThere ==
  ASSUME PublishingAssumption, IInv, NEW h \in Handlers
  PROVE  /\ call[h] \in Call /\ Relies(call[h]) /\ Placed(call[h])
         /\ call[h].at \in {"search", "create_business", "store_business"}
              => call[h].op \in PublishOps \cup {"merchant"}
         /\ call[h].at \in {"reuse", "duplicate", "suppress", "create", "fail"} \cup
                             (OfferAwaits \ {"approve", "release"})
              => call[h].op \in PublishOps
         /\ call[h].at = "approve" => call[h].op \in PublishOps \cup {"approve"}
         /\ call[h].at = "release" => call[h].op \in PublishOps \cup {"release"}
         /\ call[h].at \in {"count", "delete_business"} => call[h].op = "delete"
<1>1. call[h] \in Call /\ Relies(call[h]) /\ Placed(call[h])
  BY DEF IInv, Base, TypeOK, AllRely, Relies
<1>2. call[h].op = "none" => call[h].at = "idle"
  BY <1>1, IdleIsACall DEF Placed
<1>3. call[h].op \in {"none", "merchant", "edit", "refuse", "approve", "release", "delete"}
                      \cup WriteOps \cup PublishOps
  BY <1>1 DEF Call, Op, WriteOps, PublishOps
<1> QED
  BY <1>1, <1>2, <1>3 DEF Placed, WriteOps, PublishOps, MerchantAwaits, OfferAwaits, PublishAwaits

\* What lets a call rely on what it has read when it stands at its next await.
LEMMA Relied ==
  ASSUME PublishingAssumption, IInv, NEW h \in Handlers, NEW c \in Call,
         c.op = call[h].op, c.row = call[h].row, c.read = call[h].read, c.at \in PublishAwaits,
         c.op \in PublishOps \/ (c.op = "merchant" /\ c.at \in MerchantAwaits),
         c.at \in OfferAwaits => c.offer # None /\ offer[c.offer].made = c.row,
         c.at = "reuse" => c.read.offer # None,
         c.at = "release" => Vouched(c.offer),
         c.at = "published" => offer[c.offer].live,
         c.at # "store_offer",
         c.at \in MerchantAwaits \cup {"reuse"} => call[h].at \in MerchantAwaits,
         c.at \in {"duplicate", "create"} /\ c.row \notin overlap => Made(c.row) = {}
  PROVE  Relies(c) /\ Knows(c)
<1>2. Relies(call[h]) /\ Placed(call[h])
  BY WhoIsThere
<1>3. c.op \in PublishOps \cup {"merchant"} /\ c.op \in RowOps
  BY DEF RowOps
<1>4. Placed(c)
  BY <1>2, <1>3 DEF Placed, WriteOps, PublishOps, RowOps
<1>5. Relies(c)
  <2>1. /\ c.op \in RowOps \ {"import"} => row[c.row].status # "none" /\ c.read.content \in Contents
        /\ c.op \in RowOps => /\ c.read.status = "PUBLISHED" => WentLive(c.row)
                              /\ c.read.offer # None => offer[c.read.offer].made = c.row
    BY <1>2 DEF Relies
  <2>2. c.op \notin DraftOps
    BY <1>3 DEF DraftOps, PublishOps
  <2> QED
    BY <1>4, <2>1, <2>2 DEF Relies
<1>6. Knows(c)
  <2> SUFFICES ASSUME c.op \in PublishOps, c.row \notin overlap
               PROVE  /\ c.at \in MerchantAwaits \cup {"reuse"} => c.read.offer = row[c.row].offer
                      /\ c.at \in {"duplicate", "create"} => Made(c.row) = {}
                      /\ c.at = "store_offer" => Made(c.row) \subseteq {c.offer}
    BY DEF Knows
  <2>1. Knows(call[h])
    BY DEF IInv, OnceInv
  <2> QED
    BY <2>1 DEF Knows
<1> QED
  BY <1>5, <1>6

LEMMA Goes ==
  ASSUME PublishingAssumption, IInv, NEW h \in Handlers, NEW where \in PublishAwaits, Goto(h, where),
         call[h].op \in PublishOps \/ (call[h].op = "merchant" /\ where \in MerchantAwaits),
         where \in OfferAwaits => call[h].at \in OfferAwaits,
         where = "release" => Vouched(call[h].offer),
         where = "published" => offer[call[h].offer].live,
         where # "store_offer", where = "reuse" => call[h].read.offer # None,
         where \in MerchantAwaits \cup {"reuse"} => call[h].at \in MerchantAwaits,
         where \in {"duplicate", "create"} /\ call[h].row \notin overlap
           => Made(call[h].row) = {}
  PROVE  \E c \in Call : /\ call' = [call EXCEPT ![h] = c] /\ c.row = call[h].row
                         /\ c.at = where /\ Relies(c) /\ Knows(c)
<1>1. PICK c \in Call :
           /\ call' = [call EXCEPT ![h] = c]
           /\ c.at = where /\ c.op = call[h].op /\ c.row = call[h].row /\ c.read = call[h].read
           /\ c.business = call[h].business /\ c.offer = call[h].offer
  BY Onward
<1>2. Relies(call[h]) /\ Placed(call[h])
  BY WhoIsThere
<1>3. c.at \in OfferAwaits => c.offer # None /\ offer[c.offer].made = c.row
  BY <1>1, <1>2 DEF Relies, MerchantAwaits, OfferAwaits
<1>4. Relies(c) /\ Knows(c)
  BY <1>1, <1>3, Relied
<1> QED
  BY <1>1, <1>4

\* The search goes on with the business it found or created.
LEMMA Found ==
  ASSUME PublishingAssumption, IInv, NEW h \in Handlers, NEW b \in Businesses,
         At(h, "search") \/ At(h, "create_business"),
         call' = [call EXCEPT ![h].at = "store_business", ![h].business = b]
  PROVE  \E c \in Call : /\ call' = [call EXCEPT ![h] = c] /\ c.row = call[h].row
                         /\ Relies(c) /\ Knows(c)
<1>1. PICK c \in Call :
           /\ call' = [call EXCEPT ![h] = c] /\ c.at = "store_business"
           /\ c.op = call[h].op /\ c.row = call[h].row /\ c.read = call[h].read
  <2> DEFINE d == [call[h] EXCEPT !.at = "store_business", !.business = b]
  <2>1. call[h] \in Call
    BY WhoIsThere
  <2>2. /\ d.at = "store_business" /\ d.op = call[h].op /\ d.row = call[h].row
        /\ d.read = call[h].read
    BY <2>1 DEF Call
  <2>3. d \in Call
    BY <2>1 DEF Call
  <2>4. call' = [call EXCEPT ![h] = d]
    OBVIOUS
  <2> HIDE DEF d
  <2> QED
    BY <2>2, <2>3, <2>4
<1>2. call[h].op \in PublishOps \cup {"merchant"} /\ call[h].at \in MerchantAwaits
  BY WhoIsThere DEF At, MerchantAwaits
<1>3. /\ "store_business" \in PublishAwaits /\ "store_business" \in MerchantAwaits
      /\ "store_business" \notin OfferAwaits
  BY DEF PublishAwaits, MerchantAwaits, OfferAwaits
<1>4. Relies(c) /\ Knows(c)
  BY <1>1, <1>2, <1>3, Relied
<1> QED
  BY <1>1, <1>4

LEMMA Throws ==
  ASSUME PublishingAssumption, IInv, NEW h \in Handlers, Throw(h)
  PROVE  \E c \in Call : /\ call' = [call EXCEPT ![h] = c] /\ c.row \in {call[h].row, None}
                         /\ c.at # "release" /\ Relies(c) /\ Knows(c)
<1>1. CASE call[h].op = "bulk"
  <2>1. /\ Goto(h, "fail") /\ call[h].op \in PublishOps
        /\ "fail" \in PublishAwaits /\ "fail" \notin OfferAwaits /\ "fail" \notin MerchantAwaits
    BY <1>1 DEF Throw, PublishOps, PublishAwaits, OfferAwaits, MerchantAwaits
  <2> QED
    BY <2>1, Goes
<1>2. CASE call[h].op # "bulk"
  BY <1>2, Over DEF Throw
<1> QED
  BY <1>1, <1>2

LEMMA TablesKept ==
  ASSUME IInv, UNCHANGED <<tables, history>>
  PROVE  /\ business' \in [Businesses -> Business] /\ offer' \in [Offers -> Offer]
         /\ rejected' \subseteq Rows /\ calls' \in 0 .. MaxCalls
         /\ UNCHANGED <<row, business, offer, overlap, lost, crashes, rejected, calls>>
BY DEF tables, history, IInv, Base, TypeOK
LEMMA BusinessStepsKeep ==
  ASSUME PublishingAssumption, IInv, NEW h \in Handlers, SearchBusiness(h) \/ CreateBusiness(h)
  PROVE  IInv'
<1>0. UNCHANGED <<row, offer, overlap, lost, crashes, rejected, calls>>
  BY DEF SearchBusiness, CreateBusiness, tables, history
<1>1. rejected' \subseteq Rows /\ calls' \in 0 .. MaxCalls /\ call[h].at # "store_offer"
  BY <1>0 DEF IInv, Base, TypeOK, SearchBusiness, CreateBusiness, At
<1>2. \E c \in Call : /\ call' = [call EXCEPT ![h] = c] /\ c.row \in {call[h].row, None}
                      /\ Relies(c) /\ Knows(c)
  <2>1. CASE SearchBusiness(h)
    <3>1. CASE Goto(h, "create_business")
      <4>1. call[h].op \in PublishOps \cup {"merchant"} /\ call[h].at \in MerchantAwaits
        BY <2>1, WhoIsThere DEF SearchBusiness, At, MerchantAwaits
      <4>2. /\ "create_business" \in PublishAwaits /\ "create_business" \in MerchantAwaits
            /\ "create_business" \notin OfferAwaits
        BY DEF PublishAwaits, MerchantAwaits, OfferAwaits
      <4> QED
        BY <3>1, <4>1, <4>2, Goes
    <3>2. CASE \E b \in Businesses :
                 call' = [call EXCEPT ![h].at = "store_business", ![h].business = b]
      BY <2>1, <3>2, Found DEF SearchBusiness
    <3> QED
      BY <2>1, <3>1, <3>2 DEF SearchBusiness
  <2>2. CASE CreateBusiness(h)
    <3>1. CASE Throw(h)
      BY <3>1, Throws
    <3>2. CASE \E b \in Businesses :
                 call' = [call EXCEPT ![h].at = "store_business", ![h].business = b]
      BY <2>2, <3>2, Found DEF CreateBusiness
    <3> QED
      BY <2>2, <3>1, <3>2 DEF CreateBusiness
  <2> QED
    BY <2>1, <2>2
<1>3. business' \in [Businesses -> Business]
  <2>1. business \in [Businesses -> Business]
    BY DEF IInv, Base, TypeOK
  <2>2. CASE UNCHANGED business
    BY <2>1, <2>2
  <2>3. CASE CreateBusiness(h)
    <3>1. call[h].op \in PublishOps \cup {"merchant"} /\ call[h] \in Call
      BY <2>3, WhoIsThere DEF CreateBusiness, At
    <3>2. call[h].read.content \in Contents
      BY <3>1, WhoIsThere DEF Relies, RowOps, PublishOps
    <3>3. NewBusiness(call[h].read.content.mobile) \in Business
      BY <3>2 DEF NewBusiness, Business, PublishingAssumption, Content
    <3> QED
      BY <2>1, <2>3, <3>3 DEF CreateBusiness
  <2> QED
    BY <2>2, <2>3 DEF SearchBusiness, tables
<1> QED
  BY <1>0, <1>1, <1>2, <1>3, Quiet

\* Alone on a row that names no offer, a publication knows none is made.
LEMMA NoneMade ==
  ASSUME PublishingAssumption, IInv, NEW h \in Handlers, call[h].op \in PublishOps,
         call[h].row \notin overlap, call[h].at # "store_offer",
         row[call[h].row].offer = None \/ ~Present(row[call[h].row].offer)
  PROVE  Made(call[h].row) = {}
<1>1. call[h].row \in Rows
  BY OnItsRow DEF RowOps
<1>2. Accounted(call[h].row)
  BY <1>1 DEF IInv, OnceInv
<1>3. \A o \in Made(call[h].row) : o # row[call[h].row].offer
  BY DEF Made, PublishingAssumption
<1>4. \A o \in Made(call[h].row) : \E g \in Handlers : Storing(g, call[h].row, o)
  BY <1>2, <1>3 DEF Accounted
<1>5. \A g \in Handlers : call[g].row = call[h].row => g = h
  BY <1>1 DEF IInv, Alone
<1> QED
  BY <1>4, <1>5 DEF Storing

LEMMA StoreBusinessKeeps ==
  ASSUME PublishingAssumption, IInv, NEW h \in Handlers, StoreBusiness(h)
  PROVE  IInv'
<1> DEFINE k == call[h].row
           b == call[h].business
<1>1. call[h].op \in PublishOps \cup {"merchant"} /\ call[h].at = "store_business"
  BY WhoIsThere DEF StoreBusiness, At
<1>2. /\ call[h].op \in RowOps /\ call[h].at # "store_offer"
      /\ UNCHANGED <<business, offer, overlap, lost, crashes, calls>> /\ rejected' \subseteq Rows
  BY <1>1 DEF StoreBusiness, RowOps, history, IInv, Base, TypeOK
<1>3. k \in Rows /\ row[k] \in Row /\ b \in Businesses \cup {None}
  BY <1>1, <1>2, OnItsRow DEF Call, PublishOps
<1>4. PICK q \in Row, t \in Businesses \cup {None} : q = row[k] /\ t = b
  BY <1>3
<1>5. CASE /\ call[h].op = "merchant" /\ Return(h)
           /\ SetRow(h, [status |-> "MERCHANT_MATCHED", created |-> b, matched |-> None])
  <2> DEFINE r == Set(q, [status |-> "MERCHANT_MATCHED", created |-> t, matched |-> None])
  <2>1. row' = [row EXCEPT ![k] = r]
    BY <1>4, <1>5, RowSet
  <2>2. r \in Row /\ r.status = "MERCHANT_MATCHED" /\ r.offer = q.offer
    <3>1. r = Set(q, [status |-> "MERCHANT_MATCHED", created |-> t, matched |-> None])
      OBVIOUS
    <3> HIDE DEF r
    <3> QED
      BY <3>1, SetsMerchant
  <2> HIDE DEF r
  <2> QED
    BY <1>2, <1>4, <1>5, <2>1, <2>2, Finishes
<1>6. CASE /\ Publishing(h) /\ Goto(h, WithBusiness(call[h].read))
           /\ SetRow(h, [status |-> "MERCHANT_MATCHED", created |-> b])
  <2> DEFINE r == Set(q, [status |-> "MERCHANT_MATCHED", created |-> t])
  <2>1. row' = [row EXCEPT ![k] = r]
    BY <1>4, <1>6, RowSet
  <2>2. r \in Row /\ r.status = "MERCHANT_MATCHED" /\ r.offer = q.offer
    <3>1. r = Set(q, [status |-> "MERCHANT_MATCHED", created |-> t])
      OBVIOUS
    <3> HIDE DEF r
    <3> QED
      BY <3>1, SetsCreated
  <2>3. PICK where \in {"duplicate", "reuse"} :
          /\ Goto(h, where)
          /\ where = "duplicate" <=> call[h].read.offer = None
    BY <1>6 DEF WithBusiness
  <2>4. call[h].op \in PublishOps
    BY <1>6 DEF Publishing, PublishOps
  <2>5. k \notin overlap => call[h].read.offer = row[k].offer
    BY <1>1, <2>4 DEF IInv, OnceInv, Knows, MerchantAwaits
  <2>6. where = "duplicate" /\ k \notin overlap => Made(k) = {}
    BY <1>2, <2>3, <2>4, <2>5, NoneMade
  <2>7. /\ where \in PublishAwaits /\ where \notin OfferAwaits \cup MerchantAwaits \cup {"create"}
        /\ call[h].at \in MerchantAwaits
    BY <1>1 DEF PublishAwaits, OfferAwaits, MerchantAwaits
  <2>8. \E c \in Call : /\ call' = [call EXCEPT ![h] = c] /\ c.row = call[h].row
                        /\ Relies(c) /\ Knows(c)
    BY <2>3, <2>4, <2>6, <2>7, Goes DEF OfferAwaits
  <2> HIDE DEF r
  <2> QED
    BY <1>2, <1>3, <1>4, <2>1, <2>2, <2>8, WritesRow
<1> QED
  BY <1>5, <1>6 DEF StoreBusiness
LEMMA StatusesKeep ==
  ASSUME PublishingAssumption, IInv, NEW h \in Handlers,
         \/ WriteReview(h) \/ Suppress(h) \/ MarkReady(h) \/ MarkPublished(h) \/ MarkFailed(h)
  PROVE  IInv'
<1> DEFINE k == call[h].row
<1>1. call[h].op \in PublishOps /\ call[h].at # "store_offer"
  BY WhoIsThere DEF WriteReview, Suppress, MarkReady, MarkPublished, MarkFailed, At, Publishing,
                    PublishOps, OfferAwaits
<1>2. /\ call[h].op \in RowOps
      /\ UNCHANGED <<business, offer, overlap, lost, crashes, calls>> /\ rejected' \subseteq Rows
  BY <1>1 DEF WriteReview, Suppress, MarkReady, MarkPublished, MarkFailed, RowOps, history,
              IInv, Base, TypeOK
<1>3. /\ k \in Rows /\ row[k] \in Row /\ call[h] \in Call /\ Relies(call[h])
      /\ call[h].read.content \in Contents
  BY <1>1, <1>2, OnItsRow DEF PublishOps, Relies
<1>4. ASSUME NEW s \in RowStatus, SetStatus(h, s)
      PROVE  \E r \in Row : /\ row' = [row EXCEPT ![k] = r]
                            /\ r.status = s /\ r.offer = row[k].offer
  <2> DEFINE r == Set(row[k], [status |-> s])
  <2>1. row' = [row EXCEPT ![k] = r]
    BY <1>4, RowSet DEF SetStatus
  <2>2. r \in Row /\ r.status = s /\ r.offer = row[k].offer
    BY <1>3, SetsStatus
  <2> HIDE DEF r
  <2> QED
    BY <2>1, <2>2
<1>5. CASE WriteReview(h)
  <2>1. PICK s \in {"EXPIRED", "CATEGORY_REQUIRED"} : SetStatus(h, s)
    BY <1>3, <1>5 DEF WriteReview, PublishingAssumption, Content
  <2>2. PICK r \in Row : row' = [row EXCEPT ![k] = r] /\ r.status = s /\ r.offer = row[k].offer
    BY <1>4, <2>1 DEF RowStatus
  <2>3. Return(h) /\ r.status # "PUBLISHED"
    BY <1>5, <2>1, <2>2 DEF WriteReview
  <2> QED
    BY <1>1, <1>2, <2>2, <2>3, Finishes
<1>6. CASE Suppress(h) \/ MarkFailed(h)
  <2>1. PICK s \in {"DUPLICATE_SUPPRESSED", "FAILED"} : SetStatus(h, s) /\ Return(h)
    BY <1>6 DEF Suppress, MarkFailed
  <2>2. PICK r \in Row : row' = [row EXCEPT ![k] = r] /\ r.status = s /\ r.offer = row[k].offer
    BY <1>4, <2>1 DEF RowStatus
  <2> QED
    BY <1>1, <1>2, <2>1, <2>2, Finishes
<1>7. CASE MarkPublished(h)
  <2>1. SetStatus(h, "PUBLISHED") /\ Return(h) /\ call[h].at = "published"
    BY <1>7 DEF MarkPublished, At
  <2>2. PICK r \in Row : row' = [row EXCEPT ![k] = r] /\ r.status = "PUBLISHED" /\ r.offer = row[k].offer
    BY <1>4, <2>1 DEF RowStatus, Terminal
  <2>3. call[h].offer \in Offers /\ offer[call[h].offer].made = k /\ offer[call[h].offer].live
    BY <1>1, <1>3, <2>1 DEF Relies, OfferAwaits, Call
  <2>4. WentLive(k)
    BY <2>3 DEF WentLive
  <2> QED
    BY <1>1, <1>2, <2>1, <2>2, <2>4, Finishes
<1>8. CASE MarkReady(h)
  <2>1. SetStatus(h, "READY_TO_PUBLISH") /\ Goto(h, "read_approved") /\ call[h].at \in OfferAwaits
    BY <1>8 DEF MarkReady, At, OfferAwaits
  <2>2. PICK r \in Row : /\ row' = [row EXCEPT ![k] = r]
                         /\ r.status = "READY_TO_PUBLISH" /\ r.offer = row[k].offer
    BY <1>4, <2>1 DEF RowStatus
  <2>3. "read_approved" \in PublishAwaits /\ "read_approved" \notin MerchantAwaits
    BY DEF PublishAwaits, OfferAwaits, MerchantAwaits
  <2>4. \E c \in Call : /\ call' = [call EXCEPT ![h] = c] /\ c.row = call[h].row
                        /\ Relies(c) /\ Knows(c)
    BY <1>1, <2>1, <2>3, Goes
  <2> QED
    BY <1>1, <1>2, <1>3, <2>2, <2>4, WritesRow
<1> QED
  BY <1>5, <1>6, <1>7, <1>8

LEMMA ReuseKeeps ==
  ASSUME PublishingAssumption, IInv, NEW h \in Handlers, ReuseOffer(h)
  PROVE  IInv'
<1> DEFINE k == call[h].row
           o == call[h].read.offer
<1>1. call[h].op \in PublishOps /\ call[h].at = "reuse" /\ call[h].op \in RowOps
  BY WhoIsThere DEF ReuseOffer, At, RowOps
<1>2. k \in Rows /\ call[h] \in Call /\ Relies(call[h])
  BY <1>1, OnItsRow
<1>3. \E c \in Call : /\ call' = [call EXCEPT ![h] = c] /\ c.row = k
                      /\ Relies(c) /\ Knows(c)
  <2>1. CASE Present(o) /\ call' = [call EXCEPT ![h].at = "fill", ![h].offer = o]
    <3>1. PICK c \in Call : /\ call' = [call EXCEPT ![h] = c] /\ c.at = "fill" /\ c.op = call[h].op
                            /\ c.row = k /\ c.read = call[h].read /\ c.offer = o
      <4> DEFINE d == [call[h] EXCEPT !.at = "fill", !.offer = o]
      <4>1. o \in Offers \cup {None}
        BY <1>2 DEF Call, Read
      <4>2. /\ call' = [call EXCEPT ![h] = d] /\ d \in Call /\ d.at = "fill" /\ d.op = call[h].op
            /\ d.row = k /\ d.read = call[h].read /\ d.offer = o
        BY <1>2, <2>1, <4>1, ZenonT(40) DEF Call
      <4> HIDE DEF d
      <4> QED
        BY <4>2
    <3>2. o # None /\ offer[o].made = k
      BY <1>1, <1>2 DEF Relies
    <3>3. "fill" \in PublishAwaits /\ "fill" \notin MerchantAwaits
      BY DEF PublishAwaits, OfferAwaits, MerchantAwaits
    <3>4. Relies(c) /\ Knows(c)
      BY <1>1, <3>1, <3>2, <3>3, Relied
    <3> QED
      BY <3>1, <3>4
  <2>2. CASE ~Present(o) /\ Goto(h, "duplicate")
    <3>1. k \notin overlap => Made(k) = {}
      <4>1. k \notin overlap => o = row[k].offer
        BY <1>1 DEF IInv, OnceInv, Knows
      <4> QED
        BY <1>1, <2>2, <4>1, NoneMade
    <3>2. "duplicate" \in PublishAwaits /\ "duplicate" \notin MerchantAwaits \cup OfferAwaits
      BY DEF PublishAwaits, OfferAwaits, MerchantAwaits
    <3> QED
      BY <1>1, <2>2, <3>1, <3>2, Goes
  <2> QED
    BY <2>1, <2>2 DEF ReuseOffer
<1>4. /\ business' \in [Businesses -> Business] /\ offer' \in [Offers -> Offer]
      /\ rejected' \subseteq Rows /\ calls' \in 0 .. MaxCalls
      /\ UNCHANGED <<row, business, offer, overlap, lost, crashes, rejected, calls>>
  BY TablesKept DEF ReuseOffer
<1> QED
  BY <1>1, <1>3, <1>4, Quiet

LEMMA ChecksKeep ==
  ASSUME PublishingAssumption, IInv, NEW h \in Handlers,
         CheckDuplicate(h) \/ ReadCurrent(h) \/ FillGaps(h)
  PROVE  IInv'
<1>1. call[h].op \in PublishOps /\ call[h].at \in {"duplicate", "current", "fill"}
  BY WhoIsThere DEF CheckDuplicate, ReadCurrent, FillGaps, At, OfferAwaits
<1>2. /\ {"suppress", "create", "current", "read_draft", "read_approved", "published"} \subseteq PublishAwaits
      /\ {"current", "fill"} \subseteq OfferAwaits
      /\ {"current", "read_draft", "read_approved", "published"} \cap (MerchantAwaits \cup {"reuse", "create"}) = {}
      /\ {"suppress", "create"} \cap (MerchantAwaits \cup OfferAwaits) = {}
  BY DEF PublishAwaits, OfferAwaits, MerchantAwaits
<1>3. call[h] \in Call /\ Relies(call[h]) /\ call[h].op \in RowOps
  BY <1>1, WhoIsThere DEF RowOps
<1>4. \E c \in Call : /\ call' = [call EXCEPT ![h] = c] /\ c.row \in {call[h].row, None}
                      /\ Relies(c) /\ Knows(c)
  <2>1. CASE CheckDuplicate(h)
    <3>1. call[h].at = "duplicate" /\ (Goto(h, "suppress") \/ Goto(h, "create"))
      BY <2>1 DEF CheckDuplicate, At
    <3>2. call[h].row \notin overlap => Made(call[h].row) = {}
      BY <1>1, <3>1 DEF IInv, OnceInv, Knows
    <3> QED
      BY <1>1, <1>2, <3>1, <3>2, Goes
  <2>2. CASE FillGaps(h)
    <3>1. call[h].at = "fill" /\ Goto(h, "current")
      BY <2>2 DEF FillGaps, At
    <3> QED
      BY <1>1, <1>2, <3>1, Goes
  <2>3. CASE ReadCurrent(h)
    <3>1. call[h].at = "current"
      BY <2>3 DEF ReadCurrent, At
    <3>2. CASE Throw(h)
      BY <3>2, Throws
    <3>3. CASE Goto(h, "read_draft") \/ Goto(h, "read_approved")
      BY <1>1, <1>2, <3>1, <3>3, Goes
    <3>4. CASE offer[call[h].offer].status = "ACTIVE" /\ Goto(h, "published")
      <4>1. call[h].offer \in Offers
        BY <1>1, <1>2, <1>3, <3>1 DEF Relies, Call
      <4>2. offer[call[h].offer].live
        BY <3>4, <4>1 DEF IInv, Base, OffersTrue
      <4> QED
        BY <1>1, <1>2, <3>1, <3>4, <4>2, Goes
    <3> QED
      BY <2>3, <3>2, <3>3, <3>4 DEF ReadCurrent, AlreadyLive
  <2> QED
    BY <2>1, <2>2, <2>3
<1>5. /\ UNCHANGED <<row, offer, overlap, lost, crashes, rejected, calls>>
      /\ rejected' \subseteq Rows /\ calls' \in 0 .. MaxCalls /\ call[h].at # "store_offer"
  BY <1>1 DEF CheckDuplicate, ReadCurrent, FillGaps, tables, history, IInv, Base, TypeOK
<1>6. business' \in [Businesses -> Business]
  <2>1. business \in [Businesses -> Business]
    BY DEF IInv, Base, TypeOK
  <2>2. call[h].read.content \in Contents
    BY <1>1, <1>3 DEF Relies, PublishOps
  <2>3. call[h].read.content.mobile \in Mobiles \cup {None}
    BY <2>2 DEF PublishingAssumption, Content
  <2>4. \/ UNCHANGED business
        \/ business' = [business EXCEPT ![call[h].business].mobile = call[h].read.content.mobile]
    BY DEF CheckDuplicate, ReadCurrent, FillGaps, tables
  <2> QED
    BY <2>1, <2>3, <2>4 DEF Business
<1> QED
  BY <1>4, <1>5, <1>6, Quiet
-----------------------------------------------------------------------------
(* The offer is made, and its row names it: two queries                    *)

\* Nobody else knows anything of a row a call is alone on.
LEMMA OthersKnow ==
  ASSUME PublishingAssumption, IInv, NEW h \in Handlers, NEW c \in Call, NEW k \in Rows,
         call' = [call EXCEPT ![h] = c], call[h].row = k, Knows(c)',
         UNCHANGED <<overlap, lost>>,
         \A j \in Rows \ {k} : Made(j)' = Made(j) /\ row'[j].offer = row[j].offer
  PROVE  \A g \in Handlers : Knows(call[g])'
<1> SUFFICES ASSUME NEW g \in Handlers PROVE Knows(call[g])'
  OBVIOUS
<1>1. call'[h] = c /\ \A f \in Handlers : f # h => call'[f] = call[f]
  BY DEF IInv, Base, TypeOK
<1>2. CASE g = h
  <2>1. call'[g] = c
    BY <1>1, <1>2
  <2> QED
    BY <2>1 DEF Knows, Made
<1>3. CASE g # h
  <2>1. call'[g] = call[g] /\ call[g] \in Call /\ Placed(call[g]) /\ Knows(call[g])
    BY <1>1, <1>3 DEF IInv, Base, TypeOK, AllRely, Relies, OnceInv
  <2>2. PICK d \in Call : d = call[g]
    BY <2>1
  <2>3. Knows(d)'
    <3> SUFFICES ASSUME d.op \in PublishOps, d.row \notin overlap
                 PROVE  /\ d.at \in MerchantAwaits \cup {"reuse"} => d.read.offer = row'[d.row].offer
                        /\ d.at \in {"duplicate", "create"} => Made(d.row)' = {}
                        /\ d.at = "store_offer" => Made(d.row)' \subseteq {d.offer}
      BY DEF Knows
    <3>1. d.row \in Rows
      BY <2>1, <2>2 DEF Placed, Call, RowOps
    <3>2. d.row # k
      BY <1>3, <2>2, <3>1 DEF IInv, Alone
    <3> QED
      BY <2>1, <2>2, <3>1, <3>2 DEF Knows
  <2>4. call'[g] = d
    BY <2>1, <2>2
  <2> QED
    BY <2>3, <2>4 DEF Knows, Made
<1> QED
  BY <1>2, <1>3

LEMMA CreateKeeps ==
  ASSUME PublishingAssumption, IInv, NEW h \in Handlers, CreateOffer(h)
  PROVE  IInv'
<1>1. call[h].op \in PublishOps /\ call[h].at = "create" /\ call[h].op \in RowOps
  BY WhoIsThere DEF CreateOffer, At, RowOps
<1>2. /\ call[h] \in Call /\ Relies(call[h]) /\ Placed(call[h]) /\ call[h].row \in Rows
      /\ call[h].read.content \in Contents
  BY <1>1, OnItsRow DEF Relies, PublishOps
<1>3. UNCHANGED <<row, business, overlap, lost, rejected, crashes, calls>>
  BY DEF CreateOffer, history
<1>4. /\ row' \in [Rows -> Row \cup {NoRow}] /\ business' \in [Businesses -> Business]
      /\ overlap' \subseteq Rows /\ rejected' \subseteq Rows /\ lost' \subseteq Offers
      /\ crashes' \in 0 .. MaxCrashes /\ calls' \in 0 .. MaxCalls
  BY <1>3 DEF IInv, Base, TypeOK
<1>5. CASE Throw(h) /\ UNCHANGED offer
  <2>1. \E c \in Call : /\ call' = [call EXCEPT ![h] = c] /\ c.row \in {call[h].row, None}
                        /\ Relies(c) /\ Knows(c)
    BY <1>5, Throws
  <2> QED
    BY <1>1, <1>3, <1>4, <1>5, <2>1, Quiet
<1>6. ASSUME NEW o \in Offers, offer[o] = NoOffer,
             offer' = [offer EXCEPT ![o] = Draft(call[h].business, call[h].read.content.whole,
                                                 call[h].row)],
             call' = [call EXCEPT ![h].at = "store_offer", ![h].offer = o]
      PROVE  IInv'
  <2>1. PICK k \in Rows : k = call[h].row
    BY <1>2
  <2>2. PICK c \in Call : /\ call' = [call EXCEPT ![h] = c] /\ c.at = "store_offer"
                          /\ c.op = call[h].op /\ c.row = k /\ c.read = call[h].read /\ c.offer = o
    <3> DEFINE d == [call[h] EXCEPT !.at = "store_offer", !.offer = o]
    <3>1. /\ call' = [call EXCEPT ![h] = d] /\ d \in Call /\ d.at = "store_offer"
          /\ d.op = call[h].op /\ d.row = k /\ d.read = call[h].read /\ d.offer = o
      BY <1>2, <1>6, <2>1 DEF Call
    <3> HIDE DEF d
    <3> QED
      BY <3>1
  <2>3. PICK e \in Offer : /\ offer' = [offer EXCEPT ![o] = e] /\ e.status = "DRAFT"
                           /\ e.made = k /\ ~e.approved /\ ~e.live
    <3> DEFINE e == Draft(call[h].business, call[h].read.content.whole, call[h].row)
    <3>1. call[h].business \in Businesses \cup {None} /\ call[h].read.content.whole \in BOOLEAN
      BY <1>2 DEF Call, PublishingAssumption, Content
    <3>2. e \in Offer /\ e.status = "DRAFT" /\ e.made = k /\ ~e.approved /\ ~e.live
      BY <2>1, <3>1 DEF Draft, NoOffer, Offer
    <3>3. offer' = [offer EXCEPT ![o] = e]
      BY <1>6
    <3> HIDE DEF e
    <3> QED
      BY <3>2, <3>3
  <2>4. /\ offer' \in [Offers -> Offer] /\ offer'[o] = e
        /\ \A p \in Offers : p # o => offer'[p] = offer[p]
        /\ offer[o].status = "none" /\ offer[o].made = None /\ ~offer[o].live
    BY <1>6, <2>3 DEF IInv, Base, TypeOK, NoOffer
  <2>5. Grows
    BY <1>3, <2>4 DEF Grows, Vouched
  <2>6. Base'
    <3>1. RowsTrue'
      <4>1. \A j \in Rows : WentLive(j) => WentLive(j)'
        BY <2>5, WentLiveStays DEF IInv
      <4>2. ASSUME NEW j \in Rows, row[j].offer # None PROVE offer'[row[j].offer].made = j
        <5>1. row[j].offer \in Offers /\ offer[row[j].offer].made = j
          BY <4>2 DEF IInv, Base, RowsTrue, TypeOK, Row, NoRow
        <5> QED
          BY <2>4, <5>1 DEF PublishingAssumption
      <4> QED
        BY <1>3, <4>1, <4>2 DEF RowsTrue, IInv, Base
    <3>2. OffersTrue'
      BY <2>3, <2>4 DEF OffersTrue, IInv, Base, Vouched
    <3>3. Relies(c)'
      <4>1. Placed(c)
        BY <1>1, <1>2, <2>1, <2>2 DEF Placed, PublishAwaits, OfferAwaits, PublishOps, RowOps, WriteOps
      <4>2. /\ row'[c.row].status # "none" /\ c.read.content \in Contents
            /\ c.read.status = "PUBLISHED" => WentLive(c.row)'
        BY <1>1, <1>2, <1>3, <2>1, <2>2, <2>5, WentLiveStays DEF Relies, IInv, PublishOps
      <4>3. ASSUME c.read.offer # None PROVE offer'[c.read.offer].made = c.row
        <5>1. c.read.offer \in Offers /\ offer[c.read.offer].made = k
          BY <1>1, <1>2, <2>1, <2>2, <4>3 DEF Relies, Call, Read
        <5> QED
          BY <2>2, <2>4, <5>1 DEF PublishingAssumption
      <4>4. c.offer # None /\ offer'[c.offer].made = c.row
        BY <2>2, <2>3, <2>4 DEF PublishingAssumption
      <4>5. c.op \notin DraftOps
        BY <1>1, <2>2 DEF PublishOps, DraftOps
      <4> QED
        BY <2>2, <4>1, <4>2, <4>3, <4>4, <4>5 DEF Relies
    <3> QED
      BY <1>4, <2>2, <2>4, <2>5, <3>1, <3>2, <3>3, BaseStep DEF IInv
  <2>7. Alone'
    BY <1>3, <2>1, <2>2, AloneCarried DEF IInv
  <2>8. OnceInv'
    <3> SUFFICES /\ \A g \in Handlers : Knows(call[g])'
                 /\ \A j \in Rows \ overlap : Accounted(j)'
      BY <1>3 DEF OnceInv
    <3>1. \A j \in Rows \ {k} : Made(j)' = Made(j) /\ row'[j].offer = row[j].offer
      BY <1>3, <2>3, <2>4 DEF Made, Present, PublishingAssumption
    <3>2. k \notin overlap => Made(k) = {}
      BY <1>1, <2>1 DEF IInv, OnceInv, Knows
    <3>3. Made(k)' \subseteq Made(k) \cup {o}
      BY <1>3, <2>4 DEF Made, Present
    <3>4. Knows(c)'
      BY <1>3, <2>2, <3>2, <3>3 DEF Knows, MerchantAwaits
    <3>5. \A g \in Handlers : Knows(call[g])'
      BY <1>3, <2>1, <2>2, <3>1, <3>4, OthersKnow
    <3>6. ASSUME NEW j \in Rows \ overlap PROVE Accounted(j)'
      <4>1. call'[h] = c /\ \A g \in Handlers : g # h => call'[g] = call[g]
        BY <2>2 DEF IInv, Base, TypeOK
      <4>2. CASE j = k
        <5>1. Storing(h, k, o)'
          BY <1>1, <2>2, <4>1 DEF Storing
        <5> QED
          BY <3>2, <3>3, <3>6, <4>2, <5>1 DEF Accounted
      <4>3. CASE j # k
        <5>1. Accounted(j)
          BY <3>6 DEF IInv, OnceInv
        <5>2. \A p : \A g \in Handlers : Storing(g, j, p) => Storing(g, j, p)'
          BY <1>1, <4>1 DEF Storing
        <5> QED
          BY <1>3, <3>1, <4>3, <5>1, <5>2 DEF Accounted
      <4> QED
        BY <4>2, <4>3
    <3> QED
      BY <3>5, <3>6
  <2> QED
    BY <2>6, <2>7, <2>8 DEF IInv
<1> QED
  BY <1>5, <1>6 DEF CreateOffer

LEMMA StoreOfferKeeps ==
  ASSUME PublishingAssumption, IInv, NEW h \in Handlers, StoreOffer(h)
  PROVE  IInv'
<1>1. call[h].op \in PublishOps /\ call[h].at = "store_offer" /\ call[h].op \in RowOps
  BY WhoIsThere DEF StoreOffer, At, RowOps, OfferAwaits
<1>2. /\ call[h] \in Call /\ Relies(call[h]) /\ Placed(call[h]) /\ call[h].row \in Rows
      /\ row[call[h].row] \in Row
  BY <1>1, OnItsRow DEF PublishOps
<1>3. UNCHANGED <<business, offer, overlap, lost, rejected, crashes, calls>>
  BY DEF StoreOffer, history
<1>4. /\ offer' \in [Offers -> Offer] /\ business' \in [Businesses -> Business]
      /\ overlap' \subseteq Rows /\ rejected' \subseteq Rows /\ lost' \subseteq Offers
      /\ crashes' \in 0 .. MaxCrashes /\ calls' \in 0 .. MaxCalls
  BY <1>3 DEF IInv, Base, TypeOK
<1>5. PICK k \in Rows, o \in Offers : k = call[h].row /\ o = call[h].offer /\ offer[o].made = k
  BY <1>1, <1>2 DEF Relies, OfferAwaits, Call
<1>6. PICK r \in Row : row' = [row EXCEPT ![k] = r] /\ r.status = row[k].status /\ r.offer = o
  <2> DEFINE r == Set(row[k], [offer |-> o])
  <2>1. row' = [row EXCEPT ![k] = r]
    BY <1>5, RowSet DEF StoreOffer, RecordOffer
  <2>2. r \in Row /\ r.status = row[k].status /\ r.offer = o
    BY <1>2, <1>5, SetsOffer
  <2> HIDE DEF r
  <2> QED
    BY <2>1, <2>2
<1>7. /\ row' \in [Rows -> Row \cup {NoRow}] /\ row'[k] = r
      /\ \A j \in Rows : j # k => row'[j] = row[j]
  BY <1>6 DEF IInv, Base, TypeOK
<1>8. PICK c \in Call : /\ call' = [call EXCEPT ![h] = c]
                        /\ c.at = "fill" /\ c.op = call[h].op /\ c.row = call[h].row
                        /\ c.read = call[h].read /\ c.offer = o
  BY <1>5, Onward DEF StoreOffer, PublishAwaits, OfferAwaits
<1>9. Relies(c)
  <2>1. "fill" \in PublishAwaits /\ "fill" \notin MerchantAwaits
    BY DEF PublishAwaits, OfferAwaits, MerchantAwaits
  <2>2. c.offer # None /\ offer[c.offer].made = c.row
    BY <1>5, <1>8 DEF PublishingAssumption
  <2> QED
    BY <1>1, <1>8, <2>1, <2>2, Relied
<1>10. Grows
  BY <1>3, <1>6, <1>7 DEF Grows, Vouched
<1>11. Base'
  <2>1. Relies(c)'
    BY <1>3, <1>9, <1>10, Carried DEF IInv
  <2>2. RowsTrue'
    <3>1. \A j : WentLive(j) => WentLive(j)'
      BY <1>3 DEF WentLive
    <3> QED
      BY <1>3, <1>5, <1>6, <1>7, <3>1 DEF IInv, Base, RowsTrue
  <2>3. OffersTrue'
    BY <1>3 DEF IInv, Base, OffersTrue, Vouched
  <2> QED
    BY <1>4, <1>7, <1>8, <1>10, <2>1, <2>2, <2>3, BaseStep DEF IInv
<1>12. Alone'
  BY <1>3, <1>8, AloneCarried DEF IInv
<1>13. OnceInv'
  <2> SUFFICES /\ \A g \in Handlers : Knows(call[g])'
               /\ \A j \in Rows \ overlap : Accounted(j)'
    BY <1>3 DEF OnceInv
  <2>1. \A j \in Rows : Made(j)' = Made(j)
    BY <1>3 DEF Made, Present
  <2>2. Knows(c)'
    BY <1>8 DEF Knows, MerchantAwaits
  <2>3. \A g \in Handlers : Knows(call[g])'
    <3>1. \A j \in Rows \ {k} : Made(j)' = Made(j) /\ row'[j].offer = row[j].offer
      BY <1>7, <2>1
    <3> QED
      BY <1>3, <1>5, <1>8, <2>2, <3>1, OthersKnow
  <2>4. ASSUME NEW j \in Rows \ overlap PROVE Accounted(j)'
    <3>1. call'[h] = c /\ \A g \in Handlers : g # h => call'[g] = call[g]
      BY <1>8 DEF IInv, Base, TypeOK
    <3>2. CASE j = k
      <4>1. Made(k) \subseteq {o}
        BY <1>1, <1>5, <2>4, <3>2 DEF IInv, OnceInv, Knows
      <4> QED
        BY <1>6, <1>7, <2>1, <3>2, <4>1 DEF Accounted
    <3>3. CASE j # k
      <4>1. Accounted(j)
        BY <2>4 DEF IInv, OnceInv
      <4>2. \A p : \A g \in Handlers : Storing(g, j, p) => Storing(g, j, p)'
        BY <1>5, <3>1, <3>3 DEF Storing
      <4> QED
        BY <1>7, <2>1, <3>3, <4>1, <4>2 DEF Accounted
    <3> QED
      BY <3>2, <3>3
  <2> QED
    BY <2>3, <2>4
<1> QED
  BY <1>11, <1>12, <1>13 DEF IInv
-----------------------------------------------------------------------------
(* The Offer Publisher                                                     *)

\* A call on a draft begins.
LEMMA Begins ==
  ASSUME PublishingAssumption, IInv, NEW h \in Handlers, NEW c \in Call, Begin(h),
         call' = [call EXCEPT ![h] = c], c.row = None, c.op \in DraftOps, Relies(c),
         UNCHANGED <<tables, overlap, lost, rejected, crashes>>
  PROVE  IInv'
<1>1. /\ business' \in [Businesses -> Business] /\ rejected' \subseteq Rows
      /\ UNCHANGED <<row, offer, overlap, lost, crashes>> /\ call[h].at # "store_offer"
  BY DEF tables, Begin, At, IInv, Base, TypeOK
<1>2. calls' \in 0 .. MaxCalls
  BY DEF Begin, IInv, Base, TypeOK, PublishingAssumption
<1>3. Knows(c)
  BY DEF Knows, DraftOps, PublishOps
<1> QED
  BY <1>1, <1>2, <1>3, Quiet

LEMMA Takes ==
  ASSUME PublishingAssumption, IInv, NEW h \in Handlers, NEW o \in Offers,
         NEW op \in {"approve", "refuse", "release", "delete"}, NEW where, Take(h, op, o, where),
         where = (IF op \in {"approve", "release"} THEN op ELSE "write"),
         offer[o].status # "none", op = "release" => Vouched(o)
  PROVE  IInv'
<1>1. offer[o].business \in Businesses \cup {None}
  BY DEF IInv, Base, TypeOK, Offer
<1>2. PICK c \in Call : /\ call' = [call EXCEPT ![h] = c]
                        /\ c.op = op /\ c.at = where /\ c.offer = o /\ c.row = None
  <2> DEFINE d == [Idle EXCEPT !.op = op, !.at = where, !.offer = o, !.business = offer[o].business]
  <2>1. d \in Call /\ d.op = op /\ d.at = where /\ d.offer = o /\ d.row = None
    BY <1>1, IdleIsACall DEF Idle, Call, Op
  <2>2. call' = [call EXCEPT ![h] = d]
    BY DEF Take
  <2> HIDE DEF d
  <2> QED
    BY <2>1, <2>2
<1>3. Placed(c)
  BY <1>2 DEF Placed, WriteOps, PublishOps, RowOps
<1>4. Relies(c) /\ c.op \in DraftOps
  BY <1>2, <1>3 DEF Relies, RowOps, WriteOps, PublishOps, DraftOps, PublishingAssumption
<1> QED
  BY <1>2, <1>4, Begins DEF Take

LEMMA EditBegins ==
  ASSUME PublishingAssumption, IInv, NEW h \in Handlers, ReadForEdit(h)
  PROVE  IInv'
<1>1. PICK o \in Offers, m \in Mobiles \cup {None} :
        /\ offer[o].status \in {"DRAFT", "APPROVED", "REJECTED"}
        /\ call' = [call EXCEPT ![h] = [Idle EXCEPT !.op = "edit", !.at = "write", !.offer = o,
                      !.business = offer[o].business,
                      !.mobile = IF m = business[offer[o].business].mobile THEN None ELSE m]]
  BY DEF ReadForEdit
<1>2. offer[o].business \in Businesses \cup {None}
  BY DEF IInv, Base, TypeOK, Offer
<1>3. PICK c \in Call : /\ call' = [call EXCEPT ![h] = c]
                        /\ c.op = "edit" /\ c.at = "write" /\ c.offer = o /\ c.row = None
  <2> DEFINE n == IF m = business[offer[o].business].mobile THEN None ELSE m
             d == [Idle EXCEPT !.op = "edit", !.at = "write", !.offer = o,
                               !.business = offer[o].business, !.mobile = n]
  <2>1. n \in Mobiles \cup {None}
    OBVIOUS
  <2>2. call' = [call EXCEPT ![h] = d]
    BY <1>1
  <2>3. d \in Call /\ d.op = "edit" /\ d.at = "write" /\ d.offer = o /\ d.row = None
    <3> HIDE DEF n
    <3> QED
      BY <1>2, <2>1, IdleIsACall DEF Idle, Call, Op
  <2> HIDE DEF d
  <2> QED
    BY <2>2, <2>3
<1>4. Placed(c)
  BY <1>3 DEF Placed, WriteOps, PublishOps, RowOps
<1>5. Relies(c) /\ c.op \in DraftOps
  BY <1>1, <1>3, <1>4 DEF Relies, RowOps, WriteOps, PublishOps, DraftOps, PublishingAssumption
<1> QED
  BY <1>3, <1>5, Begins DEF ReadForEdit

\* The offers are written: what they came from and have been stays true.
Rewritten ==
    /\ offer' \in [Offers -> Offer]
    /\ \A o \in Offers :
         /\ offer'[o].made = offer[o].made
         /\ offer'[o].status = "none" => offer'[o] = offer[o]
         /\ offer[o].status = "gone" => offer'[o].status = "gone"
         /\ (Vouched(o) /\ Releasing(o) => Vouched(o)') /\ (offer[o].live => offer'[o].live)
         /\ (offer[o].status = "none" => offer'[o].status \in {"none", "gone"})
         /\ (offer'[o].status = "APPROVED" => offer'[o].approved)
         /\ (offer'[o].status = "ACTIVE" => offer'[o].live)
         /\ (offer'[o].status = "ACTIVE" => Vouched(o)')

LEMMA RewritesKeep ==
  ASSUME PublishingAssumption, IInv, NEW h \in Handlers, NEW c \in Call,
         call' = [call EXCEPT ![h] = c], c.row \in {call[h].row, None},
         call[h].at # "store_offer", Knows(c),
         Rewritten, Grows => Relies(c)', business' \in [Businesses -> Business],
         UNCHANGED <<row, history>>
  PROVE  IInv'
<1>1. UNCHANGED <<overlap, lost, crashes, rejected, calls>>
  BY DEF history
<1>2. Grows
  <2>1. \A o \in Offers : offer'[o].status = "none" => offer[o].status = "none"
    BY DEF Rewritten
  <2> QED
    BY <2>1 DEF Grows, Rewritten
<1>3. OffersTrue'
  BY DEF OffersTrue, Rewritten, IInv, Base
<1>4. \A k \in Rows : Made(k)' \subseteq Made(k)
  BY <1>1 DEF Made, Present, Rewritten
<1>5. offer' \in [Offers -> Offer]
  BY DEF Rewritten
<1> QED
  BY <1>1, <1>2, <1>3, <1>4, <1>5, WritesOffers

LEMMA Updates ==
  ASSUME PublishingAssumption, IInv, NEW o \in Offers, Present(o),
         NEW s \in {"APPROVED", "REJECTED", "ACTIVE", "gone"}, Update(o, s),
         s = "ACTIVE" => Vouched(o)
  PROVE  /\ Rewritten /\ (s = "ACTIVE" => offer'[o].live)
<1>1. offer \in [Offers -> Offer] /\ OffersTrue
  BY DEF IInv, Base, TypeOK
<1>2. PICK e \in Offer : /\ offer' = [offer EXCEPT ![o] = e] /\ e.status = s
                         /\ e.made = offer[o].made
                         /\ e.approved = (offer[o].approved \/ s = "APPROVED")
                         /\ e.crossed = offer[o].crossed
                         /\ e.live = (offer[o].live \/ s = "ACTIVE")
  <2> DEFINE e == [offer[o] EXCEPT !.status = s, !.approved = @ \/ s = "APPROVED",
                                   !.live = @ \/ s = "ACTIVE"]
  <2>1. /\ e \in Offer /\ e.status = s /\ e.made = offer[o].made
        /\ e.approved = (offer[o].approved \/ s = "APPROVED") /\ e.crossed = offer[o].crossed
        /\ e.live = (offer[o].live \/ s = "ACTIVE")
    BY <1>1, ZenonT(40) DEF Offer
  <2>2. offer' = [offer EXCEPT ![o] = e]
    BY <1>1 DEF Update, Offer
  <2> HIDE DEF e
  <2> QED
    BY <2>1, <2>2
<1>3. offer' \in [Offers -> Offer] /\ offer'[o] = e /\ \A p \in Offers : p # o => offer'[p] = offer[p]
  BY <1>1, <1>2
<1>4. offer[o].status = "ACTIVE" => Vouched(o)
  BY <1>1 DEF OffersTrue
<1> QED
  BY <1>1, <1>2, <1>3, <1>4 DEF Rewritten, OffersTrue, Present, Vouched
LEMMA ReadsKeep ==
  ASSUME PublishingAssumption, IInv, NEW h \in Handlers, ReadDraft(h) \/ ReadApproved(h)
  PROVE  IInv'
<1>1. ASSUME NEW o \in Offers,
             \/ Approvable(o) /\ Take(h, "approve", o, "approve")
             \/ Releasable(offer[o].status) /\ Take(h, "release", o, "release")
      PROVE  IInv'
  <2>1. CASE Approvable(o) /\ Take(h, "approve", o, "approve")
    BY <2>1, Takes DEF Approvable
  <2>2. CASE Releasable(offer[o].status) /\ Take(h, "release", o, "release")
    <3>1. Vouched(o) /\ offer[o].status # "none"
      BY <2>2 DEF Releasable, IInv, Base, OffersTrue, Vouched
    <3> QED
      BY <2>2, <3>1, Takes
  <2> QED
    BY <1>1, <2>1, <2>2
<1>2. CASE /\ At(h, "read_draft") \/ At(h, "read_approved")
           /\ UNCHANGED <<tables, history>>
           /\ \/ Throw(h)
              \/ At(h, "read_draft") /\ Goto(h, "approve")
              \/ Releasable(offer[call[h].offer].status) /\ Goto(h, "release")
  <2>1. call[h].op \in PublishOps /\ call[h].at \in OfferAwaits /\ call[h].at # "store_offer"
    BY <1>2, WhoIsThere DEF At, OfferAwaits
  <2>2. /\ {"approve", "release"} \subseteq PublishAwaits
        /\ {"approve", "release"} \cap (MerchantAwaits \cup {"reuse", "duplicate", "create"}) = {}
    BY DEF PublishAwaits, OfferAwaits, MerchantAwaits
  <2>3. \E c \in Call : /\ call' = [call EXCEPT ![h] = c] /\ c.row \in {call[h].row, None}
                        /\ Relies(c) /\ Knows(c)
    <3>1. CASE Throw(h)
      BY <3>1, Throws
    <3>2. CASE Goto(h, "approve")
      BY <2>1, <2>2, <3>2, Goes
    <3>3. CASE Releasable(offer[call[h].offer].status) /\ Goto(h, "release")
      <4>1. call[h].offer \in Offers
        BY <2>1, WhoIsThere DEF Relies, Call
      <4>2. Vouched(call[h].offer)
        BY <3>3, <4>1 DEF Releasable, IInv, Base, OffersTrue, Vouched
      <4> QED
        BY <2>1, <2>2, <3>3, <4>2, Goes
    <3> QED
      BY <1>2, <3>1, <3>2, <3>3
  <2>4. /\ business' \in [Businesses -> Business] /\ rejected' \subseteq Rows
        /\ calls' \in 0 .. MaxCalls /\ UNCHANGED <<row, offer, overlap, lost, crashes>>
    BY <1>2, TablesKept
  <2> QED
    BY <2>1, <2>3, <2>4, Quiet
<1>3. CASE \E o \in Offers :
             \/ Approvable(o) /\ Take(h, "approve", o, "approve")
             \/ Releasable(offer[o].status) /\ Take(h, "release", o, "release")
  BY <1>1, <1>3
<1> QED
  BY <1>2, <1>3 DEF ReadDraft, ReadApproved

LEMMA ApproveKeeps ==
  ASSUME PublishingAssumption, IInv, NEW h \in Handlers, ApproveDraft(h)
  PROVE  IInv'
<1>1. /\ call[h].op \in PublishOps \cup {"approve"} /\ call[h].at = "approve"
      /\ call[h] \in Call /\ Relies(call[h])
  BY WhoIsThere DEF ApproveDraft, At
<1>2. call[h].offer \in Offers
  BY <1>1 DEF Relies, Call, OfferAwaits, DraftOps
<1>3. /\ business' \in [Businesses -> Business] /\ UNCHANGED <<row, history>>
      /\ call[h].at # "store_offer"
  BY <1>1 DEF ApproveDraft, IInv, Base, TypeOK
<1>4. Rewritten
  <2>1. CASE UNCHANGED offer
    BY <2>1 DEF Rewritten, IInv, Base, TypeOK, OffersTrue, Vouched
  <2>2. CASE Present(call[h].offer) /\ Update(call[h].offer, "APPROVED")
    BY <1>2, <2>2, Updates
  <2> QED
    BY <2>1, <2>2 DEF ApproveDraft
<1>5. PICK c \in Call : /\ call' = [call EXCEPT ![h] = c] /\ c.row \in {call[h].row, None}
                        /\ c.at # "release" /\ Relies(c) /\ Knows(c)
  <2>1. CASE Throw(h)
    BY <2>1, Throws
  <2>2. CASE Return(h)
    BY <2>2, Over
  <2>3. CASE Publishing(h) /\ Goto(h, "ready")
    <3>1. /\ "ready" \in PublishAwaits /\ "ready" \notin MerchantAwaits /\ "approve" \in OfferAwaits
      BY DEF PublishAwaits, OfferAwaits, MerchantAwaits
    <3>2. call[h].op \in PublishOps
      BY <2>3 DEF Publishing, PublishOps
    <3> QED
      BY <1>1, <2>3, <3>1, <3>2, Goes
  <2> QED
    BY <2>1, <2>2, <2>3 DEF ApproveDraft
<1>6. Grows => Relies(c)'
  BY <1>5, Carried DEF IInv
<1> QED
  BY <1>3, <1>4, <1>5, <1>6, RewritesKeep

LEMMA ReleaseKeeps ==
  ASSUME PublishingAssumption, IInv, NEW h \in Handlers, PublishDraft(h)
  PROVE  IInv'
<1>1. /\ call[h].op \in PublishOps \cup {"release"} /\ call[h].at = "release"
      /\ call[h] \in Call /\ Relies(call[h])
  BY WhoIsThere DEF PublishDraft, At
<1>2. call[h].offer \in Offers /\ Vouched(call[h].offer)
  BY <1>1 DEF Relies, Call, OfferAwaits, DraftOps
<1>3. /\ business' \in [Businesses -> Business] /\ UNCHANGED <<row, history>>
      /\ call[h].at # "store_offer"
  BY <1>1 DEF PublishDraft, IInv, Base, TypeOK
<1>4. Rewritten /\ (Present(call[h].offer) => offer'[call[h].offer].live)
  <2>1. CASE ~Present(call[h].offer) /\ UNCHANGED offer
    BY <2>1 DEF Rewritten, IInv, Base, TypeOK, OffersTrue, Vouched
  <2>2. CASE Present(call[h].offer) /\ Update(call[h].offer, "ACTIVE")
    BY <1>2, <2>2, Updates
  <2> QED
    BY <2>1, <2>2 DEF PublishDraft
<1>5. CASE Throw(h) \/ Return(h)
  <2>1. PICK c \in Call : /\ call' = [call EXCEPT ![h] = c] /\ c.row \in {call[h].row, None}
                          /\ c.at # "release" /\ Relies(c) /\ Knows(c)
    BY <1>5, Throws, Over
  <2>2. Grows => Relies(c)'
    BY <2>1, Carried DEF IInv
  <2> QED
    BY <1>3, <1>4, <2>1, <2>2, RewritesKeep
<1>6. CASE Publishing(h) /\ Present(call[h].offer) /\ Goto(h, "published")
  <2>1. call[h].op \in PublishOps
    BY <1>6 DEF Publishing, PublishOps
  <2>2. /\ "published" \in PublishAwaits /\ "published" \in OfferAwaits /\ "release" \in OfferAwaits
        /\ "published" \notin MerchantAwaits
    BY DEF PublishAwaits, OfferAwaits, MerchantAwaits
  <2>3. PICK c \in Call :
           /\ call' = [call EXCEPT ![h] = c] /\ c.at = "published"
           /\ c.op = call[h].op /\ c.row = call[h].row /\ c.read = call[h].read
           /\ c.business = call[h].business /\ c.offer = call[h].offer
    BY <1>6, <2>2, Onward
  <2>4. PICK d \in Call : d = call[h]
    BY <1>1
  <2>5. Grows => Relies(d)'
    BY <1>1, <2>4, Carried DEF IInv, Releasing, At
  <2>6. Grows => Relies(c)'
    <3>1. /\ c.op = d.op /\ c.row = d.row /\ c.read = d.read /\ c.offer = d.offer
          /\ d.at = "release" /\ c.at = "published" /\ offer'[c.offer].live /\ c.op \in PublishOps
      BY <1>1, <1>4, <1>6, <2>1, <2>3, <2>4
    <3>2. Placed(d) => Placed(c)
      BY <2>2, <3>1 DEF Placed, PublishOps, WriteOps
    <3>3. ASSUME Relies(d)' PROVE Relies(c)'
      <4>1. Placed(d)
        BY <3>3 DEF Relies, Placed
      <4> QED
        BY <2>2, <3>1, <3>2, <3>3, <4>1 DEF Relies, Placed, DraftOps, PublishOps
    <3> QED
      BY <2>5, <3>3
  <2>7. Knows(c)
    BY <2>2, <2>3 DEF Knows
  <2> QED
    BY <1>3, <1>4, <2>3, <2>6, <2>7, RewritesKeep
<1> QED
  BY <1>5, <1>6 DEF PublishDraft
\* A call that ends has nothing left to rely on.
LEMMA RewriteEnds ==
  ASSUME PublishingAssumption, IInv, NEW h \in Handlers, call[h].at # "store_offer", Return(h),
         Rewritten, business' \in [Businesses -> Business], UNCHANGED <<row, history>>
  PROVE  IInv'
<1>1. Idle \in Call /\ call' = [call EXCEPT ![h] = Idle] /\ Idle.row = None /\ Relies(Idle)' /\ Knows(Idle)
  BY Over
<1> QED
  BY <1>1, RewritesKeep

LEMMA Unwritten ==
  ASSUME IInv, UNCHANGED offer
  PROVE  Rewritten
BY DEF Rewritten, IInv, Base, TypeOK, OffersTrue, Vouched

LEMMA RejectKeeps ==
  ASSUME PublishingAssumption, IInv, NEW h \in Handlers, RejectDraft(h)
  PROVE  IInv'
<1>1. CASE \E o \in Offers :
             offer[o].status \in {"DRAFT", "APPROVED"} /\ Take(h, "refuse", o, "write")
  BY <1>1, Takes
<1>2. CASE /\ call[h].op = "refuse" /\ At(h, "write")
           /\ IF Present(call[h].offer) THEN Update(call[h].offer, "REJECTED") ELSE UNCHANGED offer
           /\ Return(h)
           /\ UNCHANGED <<row, business, history>>
  <2>1. call[h].offer \in Offers
    BY <1>2, WhoIsThere DEF Relies, Call, DraftOps
  <2>2. Rewritten
    BY <1>2, <2>1, Updates, Unwritten
  <2>3. business' \in [Businesses -> Business] /\ call[h].at # "store_offer"
    BY <1>2 DEF At, IInv, Base, TypeOK
  <2> QED
    BY <1>2, <2>2, <2>3, RewriteEnds
<1> QED
  BY <1>1, <1>2 DEF RejectDraft

LEMMA EditedRewrites ==
  ASSUME PublishingAssumption, IInv, NEW o \in Offers, Present(o),
         NEW b \in Businesses \cup {None}, NEW whole \in BOOLEAN, offer' = Edited(o, b, whole)
  PROVE  Rewritten
<1>1. offer \in [Offers -> Offer] /\ OffersTrue
  BY DEF IInv, Base, TypeOK
<1>2. PICK e \in Offer : /\ offer' = [offer EXCEPT ![o] = e] /\ e.status = "DRAFT"
                         /\ e.made = offer[o].made /\ e.live = offer[o].live
                         /\ e.crossed = (offer[o].crossed \/ Releasing(o))
  <2> DEFINE e == [offer[o] EXCEPT !.status = "DRAFT", !.business = b, !.whole = whole,
                                   !.approved = FALSE, !.crossed = @ \/ Releasing(o)]
  <2>1. /\ e \in Offer /\ e.status = "DRAFT" /\ e.made = offer[o].made
        /\ e.live = offer[o].live /\ e.crossed = (offer[o].crossed \/ Releasing(o))
    BY <1>1, ZenonT(40) DEF Offer
  <2>2. offer' = [offer EXCEPT ![o] = e]
    BY <1>1 DEF Edited, Offer
  <2> HIDE DEF e
  <2> QED
    BY <2>1, <2>2
<1>3. offer' \in [Offers -> Offer] /\ offer'[o] = e /\ \A p \in Offers : p # o => offer'[p] = offer[p]
  BY <1>1, <1>2
<1> QED
  BY <1>1, <1>2, <1>3 DEF Rewritten, OffersTrue, Present, Vouched

LEMMA EditKeeps ==
  ASSUME PublishingAssumption, IInv, NEW h \in Handlers, EditDraft(h)
  PROVE  IInv'
<1>1. /\ call[h].op = "edit" /\ call[h].at # "store_offer" /\ Return(h)
      /\ UNCHANGED <<row, history>>
  BY DEF EditDraft, At
<1>2. PICK o \in Offers, b \in Businesses \cup {None}, m \in Mobiles \cup {None} :
        o = call[h].offer /\ b = call[h].business /\ m = call[h].mobile
  BY <1>1, WhoIsThere DEF Relies, Call, DraftOps
<1>3. business \in [Businesses -> Business] /\ Gone \in Business /\ NewBusiness(m) \in Business
  BY DEF IInv, Base, TypeOK, Gone, NewBusiness, Business
<1>4. CASE UNCHANGED <<offer, business>>
  BY <1>1, <1>3, <1>4, Unwritten, RewriteEnds
<1>5. CASE /\ Present(o)
           /\ \E whole \in BOOLEAN : offer' = Edited(o, b, whole)
           /\ \E kind \in {business[b].kind, "named"} : business' = [business EXCEPT ![b].kind = kind]
  <2>1. Rewritten
    BY <1>5, EditedRewrites
  <2>2. business' \in [Businesses -> Business]
    <3>1. PICK kind \in {business[b].kind, "named"} : business' = [business EXCEPT ![b].kind = kind]
      BY <1>5
    <3>2. CASE b \in Businesses
      <4>1. [business[b] EXCEPT !.kind = kind] \in Business
        BY <1>3, <3>2 DEF Business
      <4> QED
        BY <1>3, <3>1, <4>1
    <3>3. CASE b \notin Businesses
      BY <1>3, <3>1, <3>3
    <3> QED
      BY <3>2, <3>3
  <2> QED
    BY <1>1, <2>1, <2>2, RewriteEnds
<1>6. ASSUME Present(o), NEW c \in Businesses, NEW whole \in BOOLEAN, MoveDraft(h, c, whole)
      PROVE  IInv'
  <2>1. PICK found \in [Businesses -> Business] :
          \/ UNCHANGED <<offer, business>>
          \/ offer' = Edited(o, c, whole) /\ business' = found
          \/ offer' = Edited(o, c, whole) /\ business' = [found EXCEPT ![b] = Gone]
    <3> DEFINE found == IF business[c] = NoBusiness
                        THEN [business EXCEPT ![c] = NewBusiness(m)] ELSE business
    <3>1. found \in [Businesses -> Business]
      BY <1>3
    <3>2. \/ UNCHANGED <<offer, business>>
          \/ offer' = Edited(o, c, whole) /\ business' = found
          \/ offer' = Edited(o, c, whole) /\ business' = [found EXCEPT ![b] = Gone]
      BY <1>2, <1>6 DEF MoveDraft
    <3> HIDE DEF found
    <3> QED
      BY <3>1, <3>2
  <2>2. CASE UNCHANGED <<offer, business>>
    BY <1>4, <2>2
  <2>3. CASE offer' = Edited(o, c, whole) /\ business' \in [Businesses -> Business]
    <3>1. Rewritten
      BY <1>6, <2>3, EditedRewrites
    <3> QED
      BY <1>1, <2>3, <3>1, RewriteEnds
  <2>4. [found EXCEPT ![b] = Gone] \in [Businesses -> Business]
    BY <1>3
  <2> QED
    BY <2>1, <2>2, <2>3, <2>4
<1> QED
  BY <1>2, <1>4, <1>5, <1>6 DEF EditDraft

\* deleteDraft goes on to its next query.
LEMMA DeletionGoes ==
  ASSUME PublishingAssumption, IInv, NEW h \in Handlers, call[h].op = "delete",
         NEW where \in {"count", "delete_business"}, Goto(h, where)
  PROVE  \E c \in Call : /\ call' = [call EXCEPT ![h] = c] /\ c.row = call[h].row
                         /\ c.at # "release" /\ Relies(c) /\ Knows(c)
<1>1. call[h] \in Call /\ Relies(call[h]) /\ Placed(call[h])
  BY WhoIsThere
<1>2. PICK c \in Call : /\ call' = [call EXCEPT ![h] = c] /\ c.at = where /\ c.op = "delete"
                        /\ c.row = call[h].row /\ c.offer = call[h].offer
  <2> DEFINE d == [call[h] EXCEPT !.at = where]
  <2>1. /\ call' = [call EXCEPT ![h] = d] /\ d \in Call /\ d.at = where /\ d.op = "delete"
        /\ d.row = call[h].row /\ d.offer = call[h].offer
    BY <1>1 DEF Goto, Call
  <2> HIDE DEF d
  <2> QED
    BY <2>1
<1>3. Placed(c)
  BY <1>1, <1>2 DEF Placed, WriteOps, PublishOps, RowOps
<1>4. Relies(c)
  BY <1>1, <1>2, <1>3 DEF Relies, RowOps, WriteOps, PublishOps, DraftOps
<1> QED
  BY <1>2, <1>4 DEF Knows, PublishOps

LEMMA DeleteKeeps ==
  ASSUME PublishingAssumption, IInv, NEW h \in Handlers, DeleteDraft(h)
  PROVE  IInv'
<1>1. CASE \E o \in Offers :
             offer[o].status \in {"DRAFT", "REJECTED"} /\ Take(h, "delete", o, "write")
  BY <1>1, Takes
<1>2. CASE /\ call[h].op = "delete" /\ At(h, "write")
           /\ IF Present(call[h].offer)
              THEN Update(call[h].offer, "gone") /\ Goto(h, "count")
              ELSE UNCHANGED offer /\ Return(h)
           /\ UNCHANGED <<row, business, history>>
  <2>1. call[h].offer \in Offers
    BY <1>2, WhoIsThere DEF Relies, Call, DraftOps
  <2>2. business' \in [Businesses -> Business] /\ call[h].at # "store_offer"
    BY <1>2 DEF At, IInv, Base, TypeOK
  <2>3. CASE UNCHANGED offer /\ Return(h)
    BY <1>2, <2>2, <2>3, Unwritten, RewriteEnds
  <2>4. CASE Present(call[h].offer) /\ Update(call[h].offer, "gone") /\ Goto(h, "count")
    <3>1. Rewritten
      BY <2>1, <2>4, Updates
    <3>2. PICK c \in Call : /\ call' = [call EXCEPT ![h] = c] /\ c.row = call[h].row
                            /\ c.at # "release" /\ Relies(c) /\ Knows(c)
      BY <1>2, <2>4, DeletionGoes
    <3>3. Grows => Relies(c)'
      BY <3>2, Carried DEF IInv
    <3> QED
      BY <1>2, <2>2, <3>1, <3>2, <3>3, RewritesKeep
  <2> QED
    BY <1>2, <2>3, <2>4
<1> QED
  BY <1>1, <1>2 DEF DeleteDraft

LEMMA RemovalKeeps ==
  ASSUME PublishingAssumption, IInv, NEW h \in Handlers, CountLeft(h) \/ RemoveBusiness(h)
  PROVE  IInv'
<1>1. call[h].op = "delete" /\ call[h].at # "store_offer"
  BY WhoIsThere DEF CountLeft, RemoveBusiness, At
<1>2. CASE CountLeft(h)
  <2>1. \E c \in Call : /\ call' = [call EXCEPT ![h] = c] /\ c.row \in {call[h].row, None}
                        /\ Relies(c) /\ Knows(c)
    <3>1. CASE Return(h)
      BY <3>1, Over
    <3>2. CASE Goto(h, "delete_business")
      BY <1>1, <3>2, DeletionGoes
    <3> QED
      BY <1>2, <3>1, <3>2 DEF CountLeft
  <2>2. /\ business' \in [Businesses -> Business] /\ rejected' \subseteq Rows
        /\ calls' \in 0 .. MaxCalls /\ UNCHANGED <<row, offer, overlap, lost, crashes>>
    BY <1>2, TablesKept DEF CountLeft
  <2> QED
    BY <1>1, <2>1, <2>2, Quiet
<1>3. CASE RemoveBusiness(h)
  <2>1. business' \in [Businesses -> Business] /\ Rewritten
    <3>1. business \in [Businesses -> Business] /\ offer \in [Offers -> Offer] /\ OffersTrue
      BY DEF IInv, Base, TypeOK
    <3>2. CASE UNCHANGED <<business, offer>>
      BY <3>1, <3>2, Unwritten
    <3>3. CASE DeleteBusiness(call[h].business, offer)
      <4>1. Gone \in Business
        BY DEF Gone, Business
      <4>2. business' \in [Businesses -> Business]
        BY <3>1, <3>3, <4>1 DEF DeleteBusiness
      <4>3. offer' = [o \in Offers |->
                       IF offer[o].business = call[h].business
                       THEN [offer[o] EXCEPT !.status = "gone"] ELSE offer[o]]
        BY <3>3 DEF DeleteBusiness
      <4>4. ASSUME NEW o \in Offers
            PROVE  /\ offer'[o] \in Offer /\ offer'[o].made = offer[o].made
                   /\ offer'[o].approved = offer[o].approved /\ offer'[o].live = offer[o].live
                   /\ offer'[o].crossed = offer[o].crossed
                   /\ offer'[o] = offer[o] \/ offer'[o].status = "gone"
        BY <3>1, <4>3 DEF Offer
      <4>5. offer' \in [Offers -> Offer]
        BY <4>3, <4>4
      <4> QED
        BY <3>1, <4>2, <4>4, <4>5 DEF Rewritten, OffersTrue, Vouched
    <3> QED
      BY <1>3, <3>2, <3>3 DEF RemoveBusiness
  <2>2. Return(h) /\ UNCHANGED <<row, history>>
    BY <1>3 DEF RemoveBusiness
  <2> QED
    BY <1>1, <2>1, <2>2, RewriteEnds
<1> QED
  BY <1>2, <1>3
LEMMA UploadKeeps == ASSUME PublishingAssumption, IInv, UploadDraft PROVE IInv'
<1>1. PICK b \in Businesses, o \in Offers :
         /\ offer[o] = NoOffer
         /\ business' = [business EXCEPT ![b].kind = "placeholder"]
         /\ offer' = [offer EXCEPT ![o] = Draft(b, FALSE, None)]
  BY DEF UploadDraft
<1>2. UNCHANGED <<row, call, overlap, lost, rejected, crashes, calls>>
  BY DEF UploadDraft, history
<1>3. PICK e \in Offer : /\ offer' = [offer EXCEPT ![o] = e] /\ e.status = "DRAFT"
                         /\ e.made = None /\ ~e.approved /\ ~e.live
  <2> DEFINE e == Draft(b, FALSE, None)
  <2>1. e \in Offer /\ e.status = "DRAFT" /\ e.made = None /\ ~e.approved /\ ~e.live
    BY DEF Draft, NoOffer, Offer
  <2>2. offer' = [offer EXCEPT ![o] = e]
    BY <1>1
  <2> HIDE DEF e
  <2> QED
    BY <2>1, <2>2
<1>4. /\ offer' \in [Offers -> Offer] /\ offer'[o] = e
      /\ \A p \in Offers : p # o => offer'[p] = offer[p]
      /\ offer[o].status = "none" /\ offer[o].made = None /\ ~offer[o].live
  <2>1. offer[o].status = "none" /\ offer[o].made = None /\ ~offer[o].live
    BY <1>1 DEF NoOffer
  <2>2. offer \in [Offers -> Offer]
    BY DEF IInv, Base, TypeOK
  <2> QED
    BY <1>3, <2>1, <2>2
<1>5. Grows
  BY <1>2, <1>4 DEF Grows, Vouched
<1>6. TypeOK'
  <2>1. [business[b] EXCEPT !.kind = "placeholder"] \in Business
    BY DEF IInv, Base, TypeOK, Business
  <2>2. business' \in [Businesses -> Business]
    BY <1>1, <2>1 DEF IInv, Base, TypeOK
  <2> QED
    BY <1>2, <1>4, <2>2 DEF IInv, Base, TypeOK
<1>7. AllRely'
  <2> SUFFICES ASSUME NEW g \in Handlers PROVE Relies(call[g])'
    BY DEF AllRely
  <2>1. PICK d \in Call : d = call[g] /\ d = call'[g] /\ Relies(d)
    BY <1>2 DEF IInv, Base, TypeOK, AllRely
  <2>2. Relies(d)'
    BY <1>5, <2>1, Carried DEF IInv, Releasing, At
  <2> QED
    BY <2>1, <2>2 DEF Relies, Placed
<1>8. RowsTrue'
  <2>1. \A j \in Rows : WentLive(j) => WentLive(j)'
    BY <1>5, WentLiveStays DEF IInv
  <2>2. ASSUME NEW j \in Rows, row[j].offer # None PROVE offer'[row[j].offer].made = j
    <3>1. row[j].offer \in Offers /\ offer[row[j].offer].made = j
      BY <2>2 DEF IInv, Base, RowsTrue, TypeOK, Row, NoRow
    <3> QED
      BY <1>4, <3>1 DEF PublishingAssumption
  <2> QED
    BY <1>2, <2>1, <2>2 DEF RowsTrue, IInv, Base
<1>9. OffersTrue'
  BY <1>3, <1>4 DEF OffersTrue, IInv, Base, Vouched
<1>10. Alone'
  BY <1>2 DEF IInv, Alone
<1>11. OnceInv'
  <2> SUFFICES /\ \A g \in Handlers : Knows(call[g])'
               /\ \A j \in Rows \ overlap : Accounted(j)'
    BY <1>2 DEF OnceInv
  <2>1. \A j \in Rows : Made(j)' = Made(j)
    BY <1>2, <1>3, <1>4 DEF Made, Present, PublishingAssumption
  <2>2. ASSUME NEW g \in Handlers PROVE Knows(call[g])'
    <3>1. Knows(call[g]) /\ Placed(call[g]) /\ call[g] \in Call /\ call'[g] = call[g]
      BY <1>2 DEF IInv, OnceInv, Base, AllRely, Relies, TypeOK
    <3>2. call[g].op \in PublishOps => call[g].row \in Rows
      BY <3>1 DEF Placed, Call, RowOps
    <3>3. call[g].op \in PublishOps => Made(call[g].row)' = Made(call[g].row)
      BY <1>2, <2>1, <3>2 DEF Made, Present
    <3> QED
      BY <1>2, <3>1, <3>3 DEF Knows
  <2>3. ASSUME NEW j \in Rows \ overlap PROVE Accounted(j)'
    <3>1. Accounted(j)
      BY <2>3 DEF IInv, OnceInv
    <3> QED
      BY <1>2, <2>1, <3>1 DEF Accounted, Storing
  <2> QED
    BY <2>2, <2>3
<1> QED
  BY <1>6, <1>7, <1>8, <1>9, <1>10, <1>11 DEF IInv, Base

LEMMA CrashKeeps == ASSUME PublishingAssumption, IInv, Crash PROVE IInv'
<1>1. /\ call' = [h \in Handlers |-> Idle] /\ crashes' = crashes + 1 /\ crashes < MaxCrashes
      /\ UNCHANGED <<row, business, offer, overlap, rejected, calls>>
      /\ lost' = lost \cup {call[h].offer : h \in {g \in Handlers : At(g, "store_offer")}}
  BY DEF Crash, tables
<1>2. \A h \in Handlers : call'[h] = Idle
  BY <1>1
<1>3. Idle \in Call /\ Idle.row = None /\ Relies(Idle)'
  BY IdleIsACall, IdleRelies
<1>4. crashes \in Nat /\ crashes' \in 0 .. MaxCrashes /\ crashes' # 0
  BY <1>1 DEF IInv, Base, TypeOK, PublishingAssumption
<1>5. TypeOK'
  <2>1. \A h \in Handlers : At(h, "store_offer") => call[h].offer \in Offers
    BY WhoIsThere DEF Relies, OfferAwaits, At, Call
  <2>2. lost' \subseteq Offers
    BY <1>1, <2>1 DEF IInv, Base, TypeOK
  <2> QED
    BY <1>1, <1>3, <1>4, <2>2 DEF IInv, Base, TypeOK
<1>6. AllRely'
  <2> SUFFICES ASSUME NEW h \in Handlers PROVE Relies(call[h])'
    BY DEF AllRely
  <2>1. call'[h] = Idle
    BY <1>2
  <2> QED
    BY <1>3, <2>1 DEF Relies, Placed
<1>7. RowsTrue' /\ OffersTrue'
  BY <1>1 DEF IInv, Base, RowsTrue, OffersTrue, WentLive, Vouched
<1>8. Alone'
  BY <1>2, <1>3 DEF Alone, PublishingAssumption
<1>9. OnceInv'
  <2>1. \A h \in Handlers : Knows(call[h])'
    BY <1>2, IdleIsACall DEF Knows, PublishOps
  <2>2. ASSUME NEW k \in Rows \ overlap PROVE Accounted(k)'
    <3> SUFFICES ASSUME NEW o \in Made(k)' PROVE o = row'[k].offer
      BY DEF Accounted
    <3>1. o \in Made(k) /\ o \notin lost'
      BY <1>1 DEF Made, Present
    <3>2. \A h \in Handlers : ~Storing(h, k, o)
      BY <1>1, <3>1 DEF Storing, At
    <3> QED
      BY <1>1, <2>2, <3>1, <3>2 DEF IInv, OnceInv, Accounted
  <2> QED
    BY <1>1, <2>1, <2>2 DEF OnceInv
<1> QED
  BY <1>5, <1>6, <1>7, <1>8, <1>9 DEF IInv, Base

-----------------------------------------------------------------------------

LEMMA Stepwise == ASSUME PublishingAssumption, IInv, [Next]_vars PROVE IInv'
<1>1. ASSUME NEW h \in Handlers, QueueStep(h) PROVE IInv'
  BY <1>1, LoadsKeep, WritesKeep, BusinessStepsKeep, StoreBusinessKeeps DEF QueueStep
<1>2. ASSUME NEW h \in Handlers, PublishStep(h) PROVE IInv'
  BY <1>2, LoadsKeep, StatusesKeep, ReuseKeeps, ChecksKeep, CreateKeeps, StoreOfferKeeps
     DEF PublishStep
<1>3. ASSUME NEW h \in Handlers, DraftStep(h) PROVE IInv'
  BY <1>3, ReadsKeep, ApproveKeeps, ReleaseKeeps, RejectKeeps, EditBegins, EditKeeps, DeleteKeeps,
     RemovalKeeps DEF DraftStep
<1>4. CASE UNCHANGED vars
  <2>1. UNCHANGED <<row, business, offer, call, overlap, lost, rejected, crashes, calls>>
    BY <1>4 DEF vars, tables, history
  <2>2. Base'
    BY <2>1 DEF IInv, Base, TypeOK, AllRely, Relies, Placed, WentLive, RowsTrue, OffersTrue, Vouched
  <2>3. Alone' /\ OnceInv'
    BY <2>1 DEF IInv, Alone, OnceInv, Knows, Accounted, Made, Present, Storing
  <2> QED
    BY <2>2, <2>3 DEF IInv
<1> QED
  BY <1>1, <1>2, <1>3, <1>4, UploadKeeps, CrashKeeps DEF Next

LEMMA Invariance == Spec => []IInv
<1>1. Init => IInv
  BY Initially, PublishingAssumption
<1>2. IInv /\ [Next]_vars => IInv'
  BY Stepwise, PublishingAssumption
<1> QED
  BY <1>1, <1>2, PTL DEF Spec

\* The queue, the businesses, the offers and the calls under way hold what
\* the tables and the services of src/ai-offers-from-online can.
THEOREM TypeCorrect == Spec => []TypeOK
<1>1. IInv => TypeOK
  BY DEF IInv, Base
<1> QED
  BY <1>1, Invariance, PTL

\* A row says PUBLISHED only when an offer made from it did go live, whatever
\* other publications, matches, corrections, edits, deletions and crashes come
\* in between the awaits of publish.
THEOREM PublishedAlwaysWentLive == Spec => []PublishedWentLive
<1>1. IInv => PublishedWentLive
  BY DEF IInv, Base, RowsTrue, WentLive, PublishedWentLive
<1> QED
  BY <1>1, Invariance, PTL

\* publishDraft releases only what approveDraft approved after its last edit,
\* though it reads the status and writes it in two queries and publish calls it
\* after others, unless an edit came between those two.
THEOREM LiveAlwaysApproved == Spec => []LiveWasApproved
<1>1. IInv => LiveWasApproved
  BY DEF IInv, Base, OffersTrue, LiveWasApproved, Vouched
<1> QED
  BY <1>1, Invariance, PTL

\* However often publish fails or dies on a row and is called again, the row
\* makes at most one offer beside those a crash kept from its record: it resumes
\* with created_offer_id, unless two calls on the row overlap.
THEOREM OnceAlways == Spec => []OnceUnlessOverlap
<1>1. ASSUME IInv, NEW k \in Rows \ overlap
      PROVE  \E o : Made(k) \subseteq {o}
  <2>1. Accounted(k)
    BY <1>1 DEF IInv, OnceInv
  <2>2. CASE \E h \in Handlers : \E o : Storing(h, k, o)
    <3>1. PICK h \in Handlers : \E o : Storing(h, k, o)
      BY <2>2
    <3>2. PICK o : Storing(h, k, o)
      BY <3>1
    <3>3. Knows(call[h])
      BY <1>1 DEF IInv, OnceInv
    <3> QED
      BY <1>1, <3>2, <3>3 DEF Knows, Storing
  <2>3. CASE ~\E h \in Handlers : \E o : Storing(h, k, o)
    BY <2>1, <2>3 DEF Accounted
  <2> QED
    BY <2>2, <2>3
<1>2. ASSUME NEW S, NEW o, S \subseteq {o} PROVE Cardinality(S) <= 1
  <2>1. IsFiniteSet({o}) /\ Cardinality({o}) = 1
    BY FS_Singleton
  <2>2. Cardinality(S) <= Cardinality({o}) /\ Cardinality(S) \in Nat
    BY <1>2, <2>1, FS_Subset, FS_CardinalityType
  <2> QED
    BY <2>1, <2>2
<1>3. IInv => OnceUnlessOverlap
  BY <1>1, <1>2 DEF OnceUnlessOverlap, Made
<1> QED
  BY <1>3, Invariance, PTL
-----------------------------------------------------------------------------
(* The duplicate check, for every row and every table of offers            *)

\* What Duplicates counts is what is counted here.
LEMMA SameCount == ASSUME NEW S PROVE Twice!Cardinality(S) = Cardinality(S)
BY DEF Cardinality, Twice!Cardinality

\* Two titles have no more words in common than they have together.
LEMMA JaccardBounds ==
    ASSUME NEW a, NEW b, IsFiniteSet(a), IsFiniteSet(b)
    PROVE  LET j == Twice!TitleJaccard(a, b) IN
           j.common \in Nat /\ j.all \in Nat /\ j.common <= j.all
<1>1. IsFiniteSet(a \cup b) BY FS_Union
<1>2. a \cap b \subseteq a \cup b OBVIOUS
<1>3. IsFiniteSet(a \cap b) BY <1>1, <1>2, FS_Subset
<1>4. Cardinality(a \cap b) <= Cardinality(a \cup b) BY <1>1, <1>2, FS_Subset
<1>5. Cardinality(a \cap b) \in Nat /\ Cardinality(a \cup b) \in Nat
  BY <1>1, <1>3, FS_CardinalityType
<1>6. Twice!TitleJaccard(a, b) = [common |-> Cardinality(a \cap b), all |-> Cardinality(a \cup b)]
  BY SameCount DEF Twice!TitleJaccard
<1> QED BY <1>4, <1>5, <1>6

\* A HIGH candidate outscores every MEDIUM one: 0.85 and more against 0.7
\* and less, since a MEDIUM one with the same promotion has less than half
\* of the words.
LEMMA HighBeatsMedium ==
    ASSUME NEW m \in BOOLEAN, NEW n \in BOOLEAN,
           NEW c \in Nat, NEW u \in Nat, c <= u,
           NEW d \in Nat, NEW w \in Nat, d <= w,
           Twice!Confidence(m, [common |-> c, all |-> u]) = "HIGH",
           Twice!Confidence(n, [common |-> d, all |-> w]) = "MEDIUM"
    PROVE  Twice!Points("HIGH", [common |-> c, all |-> u]) * w
             > Twice!Points("MEDIUM", [common |-> d, all |-> w]) * u
<1> DEFINE p == 7 * u + 3 * c
           q == 4 * w + 3 * d
<1>1. c > 0 /\ 2 * c >= u BY SMT DEF Twice!Confidence, Twice!AtLeast
<1>2. d > 0 BY SMT DEF Twice!Confidence, Twice!AtLeast
<1>3. u > 0 /\ w > 0 BY <1>1, <1>2
<1>4. p \in Nat /\ q \in Nat /\ p > 7 * u /\ q <= 7 * w BY <1>1
<1>5. p * w > 7 * u * w
  <2>1. p - 7 * u \in Nat /\ p - 7 * u > 0 BY <1>4
  <2>2. (p - 7 * u) * w > 0 BY <2>1, <1>3, SMT
  <2>3. (p - 7 * u) * w = p * w - 7 * u * w BY <1>4, SMT
  <2>4. p * w \in Int /\ 7 * u * w \in Int BY <1>4
  <2> QED BY <2>2, <2>3, <2>4
<1>6. q * u <= 7 * u * w
  <2>1. 7 * w - q \in Nat BY <1>4
  <2>2. (7 * w - q) * u >= 0 BY <2>1, SMT
  <2>3. (7 * w - q) * u = 7 * u * w - q * u BY <1>4, SMT
  <2>4. q * u \in Int /\ 7 * u * w \in Int BY <1>4
  <2> QED BY <2>2, <2>3, <2>4
<1>7. p * w \in Int /\ q * u \in Int /\ 7 * u * w \in Int BY <1>4
<1>8. p * w > q * u BY <1>5, <1>6, <1>7
<1> QED BY <1>8 DEF Twice!Points

\* The rows and offers a check is asked about: titles are finite sets of
\* words, and there is a price or there is none.
WellFormed(found, offers) ==
    /\ IsFiniteSet(found.title)
    /\ \A i \in DOMAIN offers : IsFiniteSet(offers[i].title)

\* checkTier2SameBusiness suppresses an offer whenever any offer of the
\* business calls for it: the best score is never that of a MEDIUM candidate
\* while there is a HIGH one, so a duplicate cannot hide behind a more alike
\* title.
THEOREM HighWins ==
    ASSUME NEW found, NEW offers, WellFormed(found, offers),
           NEW i, Twice!IsBest(i, found, offers),
           NEW k \in Twice!SameBusiness(found, offers),
           Twice!Verdict(found, offers[k]).confidence = "HIGH"
    PROVE  Twice!Verdict(found, offers[i]).confidence = "HIGH"
<1> DEFINE Match(o) == Twice!MechanicsEqual(Twice!ClassifyMechanic(found.text, found.original, found.price),
                                      Twice!ClassifyMechanic(o.text, Twice!Price(o.original), Twice!Price(o.price)))
           J(o) == Twice!TitleJaccard(found.title, o.title)
           V(o) == Twice!Verdict(found, o)
<1>1. i \in DOMAIN offers /\ k \in DOMAIN offers BY DEF Twice!IsBest, Twice!SameBusiness
<1>2. SUFFICES ASSUME V(offers[i]).confidence # "HIGH" PROVE FALSE OBVIOUS
<1>3. V(offers[i]).confidence = "MEDIUM"
  <2>1. V(offers[i]).confidence # "LOW" BY DEF Twice!IsBest, Twice!SameBusiness
  <2> QED BY <2>1, <1>2 DEF Twice!Verdict, Twice!Confidence
<1>4. \A o : /\ V(o).confidence = Twice!Confidence(Match(o), J(o))
             /\ V(o).all = J(o).all
             /\ V(o).points = Twice!Points(V(o).confidence, J(o))
  BY DEF Twice!Verdict
<1>5. \A o : Match(o) \in BOOLEAN /\ J(o) = [common |-> J(o).common, all |-> J(o).all]
  BY DEF Twice!MechanicsEqual, Twice!TitleJaccard
<1>6. \A x \in {i, k} : /\ J(offers[x]).common \in Nat /\ J(offers[x]).all \in Nat
                        /\ J(offers[x]).common <= J(offers[x]).all
  BY <1>1, JaccardBounds DEF WellFormed
<1>7. Twice!Beats(V(offers[k]), V(offers[i]))
  <2> HIDE DEF Match, J, V
  <2>1. V(offers[k]).confidence = "HIGH" BY DEF V
  <2>2. Twice!Points("HIGH", J(offers[k])) * J(offers[i]).all
          > Twice!Points("MEDIUM", J(offers[i])) * J(offers[k]).all
    BY <2>1, <1>3, <1>4, <1>5, <1>6, HighBeatsMedium
  <2> QED BY <2>1, <2>2, <1>3, <1>4 DEF Twice!Beats
<1> QED BY <1>7 DEF Twice!IsBest

\* The rules are symmetric: it does not matter which of two offers was there
\* first (mechanicsEqual).
THEOREM MechanicsSymmetric ==
    ASSUME NEW a, NEW b, a.price \in Nat, b.price \in Nat, a.original \in Nat, b.original \in Nat,
           a.percent \in Nat, b.percent \in Nat
    PROVE  Twice!MechanicsEqual(a, b) <=> Twice!MechanicsEqual(b, a)
BY DEF Twice!MechanicsEqual, Twice!Close, Twice!AbsDiff, Twice!Max2

\* What check promises a row that was found a second time: when a live offer of
\* the business has its title, text and prices, and the promotion is one the
\* rules recognise, whatever candidate the loop ends with is HIGH, so that
\* publish suppresses the row.
THEOREM RediscoveredIsHigh ==
    ASSUME NEW found, NEW offers, WellFormed(found, offers),
           NEW i, Twice!IsBest(i, found, offers),
           NEW k \in DOMAIN offers,
           offers[k].business = found.business, offers[k].status \in Twice!LiveStatuses,
           offers[k].title = found.title, found.title # {}, offers[k].text = found.text,
           Twice!Price(offers[k].original) = found.original, Twice!Price(offers[k].price) = found.price,
           found.original \in Nat \cup {None}, found.price \in Nat \cup {None},
           found.text.percent \in Nat,
           Twice!ClassifyMechanic(found.text, found.original, found.price).type # "OTHER"
    PROVE  Twice!Verdict(found, offers[i]).confidence = "HIGH"
<1> DEFINE mech == Twice!ClassifyMechanic(found.text, found.original, found.price)
           j == Twice!TitleJaccard(found.title, found.title)
<1>1. /\ mech.percent \in Nat /\ mech.type # "OTHER"
      /\ mech.type = "FLAT_PRICE" => mech.price \in Nat /\ mech.original \in Nat
  BY DEF Twice!ClassifyMechanic, Twice!Mechanic
<1>2. Twice!MechanicsEqual(mech, mech)
  <2> HIDE DEF mech
  <2> QED BY <1>1 DEF Twice!MechanicsEqual, Twice!Close, Twice!AbsDiff, Twice!Max2
<1>3. j.common \in Nat /\ j.common > 0 /\ j.all = j.common
  <2>1. found.title \cap found.title = found.title /\ found.title \cup found.title = found.title OBVIOUS
  <2>2. Cardinality(found.title) \in Nat /\ Cardinality(found.title) # 0
    BY FS_CardinalityType, FS_EmptySet DEF WellFormed
  <2>3. j = [common |-> Cardinality(found.title), all |-> Cardinality(found.title)]
    BY <2>1, SameCount DEF Twice!TitleJaccard
  <2> QED BY <2>2, <2>3
<1>4. Twice!Verdict(found, offers[k]).confidence = Twice!Confidence(Twice!MechanicsEqual(mech, mech), j)
  BY DEF Twice!Verdict
<1>5. Twice!Confidence(TRUE, j) = "HIGH"
  <2> HIDE DEF j
  <2> QED BY <1>3 DEF Twice!Confidence, Twice!AtLeast
<1>6. Twice!Verdict(found, offers[k]).confidence = "HIGH"
  <2>1. Twice!MechanicsEqual(mech, mech) = TRUE BY <1>2 DEF Twice!MechanicsEqual
  <2> QED BY <2>1, <1>4, <1>5
<1>7. k \in Twice!SameBusiness(found, offers) BY <1>6 DEF Twice!SameBusiness
<1> QED BY <1>6, <1>7, HighWins, SMTT(30)

\* Of the entries of a sequence, the last that is not empty: the least place
\* after which all are.
LEMMA LastFilled ==
    ASSUME NEW p, NEW len \in Nat, NEW Empty
    PROVE  \E n \in 0 .. len : /\ n > 0 => p[n] # Empty
                               /\ \A i \in n + 1 .. len : p[i] = Empty
<1> DEFINE S == {n \in 0 .. len : \A i \in n + 1 .. len : p[i] = Empty}
<1>1. len \in S OBVIOUS
<1>2. S \subseteq Nat OBVIOUS
<1>3. PICK n \in S : \A m \in S : ~(m < n)
  <2>1. IsWellFoundedOn(OpToRel(<, Nat), Nat) BY NatLessThanWellFounded
  <2> HIDE DEF S
  <2>2. PICK n \in S : \A m \in S : <<m, n>> \notin OpToRel(<, Nat)
    BY <1>1, <1>2, <2>1, WFMin
  <2> QED BY <1>2, <2>2 DEF OpToRel
<1>4. n \in 0 .. len /\ \A i \in n + 1 .. len : p[i] = Empty
  BY <1>3
<1>5. ASSUME n > 0, p[n] = Empty PROVE FALSE
  <2>1. n - 1 \in 0 .. len BY <1>4, <1>5
  <2>2. \A i \in n .. len : p[i] = Empty
    <3> TAKE i \in n .. len
    <3>1. CASE i = n BY <3>1, <1>5
    <3>2. CASE i # n BY <3>2, <1>4
    <3> QED BY <3>1, <3>2
  <2>3. n - 1 \in S BY <2>1, <2>2
  <2> QED BY <1>3, <1>4, <2>3
<1> QED BY <1>4, <1>5

\* normalizeUrl cuts the slashes a path ends in, and nothing else.
LEMMA AllButSlashes ==
    ASSUME NEW u, NEW Parts, u.path \in Seq(Parts)
    PROVE  \E n \in 0 .. Len(u.path) :
             /\ Twice!NormalizeUrl(u) = <<Plain[u.host], [i \in 1 .. n |-> Plain[u.path[i]]]>>
             /\ \A i \in n + 1 .. Len(u.path) : u.path[i] = Gap
<1>1. PICK p : p = u.path OBVIOUS
<1>2. PICK len : len = Len(p) OBVIOUS
<1>3. len \in Nat BY <1>1, <1>2
<1> DEFINE Last(n) == /\ n > 0 => p[n] # Gap
                      /\ \A i \in n + 1 .. len : p[i] = Gap
           n == CHOOSE m \in 0 .. len : Last(m)
<1>4. \E m \in 0 .. len : Last(m) BY <1>3, LastFilled
<1>5. n \in 0 .. len /\ Last(n)
  <2> HIDE DEF Last
  <2> QED BY <1>4
<1>6. Twice!NormalizeUrl(u) = <<Plain[u.host], [i \in 1 .. n |-> Plain[p[i]]]>>
  BY <1>1, <1>2, Zenon DEF Twice!NormalizeUrl
<1> HIDE DEF n
<1> QED BY <1>1, <1>2, <1>5, <1>6

\* Two sequences that agree, capitals aside, up to where both are used up have
\* the same filled places, with the same words there.
LEMMA SameFilled ==
    ASSUME NEW p, NEW q, NEW lp \in Nat, NEW lq \in Nat, NEW k \in Nat, k <= lp, k <= lq,
           \A i \in k + 1 .. lp : p[i] = Gap, \A i \in k + 1 .. lq : q[i] = Gap,
           \A i \in 1 .. k : Plain[p[i]] = Plain[q[i]],
           \A i \in 1 .. k : p[i] = Gap <=> q[i] = Gap
    PROVE  [i \in {j \in 1 .. lp : p[j] # Gap} |-> Plain[p[i]]]
             = [i \in {j \in 1 .. lq : q[j] # Gap} |-> Plain[q[i]]]
<1>1. \A i \in 1 .. lp : i \in 1 .. k \/ i \in k + 1 .. lp OBVIOUS
<1>2. \A i \in 1 .. lq : i \in 1 .. k \/ i \in k + 1 .. lq OBVIOUS
<1>3. \A i \in 1 .. k : i \in 1 .. lp /\ i \in 1 .. lq OBVIOUS
<1> DEFINE Filled == {j \in 1 .. lp : p[j] # Gap}
<1>4. \A j \in Filled : j \in 1 .. k BY <1>1
<1>5. {j \in 1 .. lq : q[j] # Gap} = Filled
  <2>1. \A j \in 1 .. lq : q[j] # Gap => j \in Filled BY <1>2, <1>3
  <2>2. \A j \in Filled : j \in 1 .. lq /\ q[j] # Gap BY <1>3, <1>4
  <2> QED BY <2>1, <2>2
<1>6. \A i \in Filled : Plain[p[i]] = Plain[q[i]] BY <1>4
<1> HIDE DEF Filled
<1>7. [i \in Filled |-> Plain[p[i]]] = [i \in Filled |-> Plain[q[i]]] BY <1>6
<1> QED BY <1>5, <1>7 DEF Filled

\* Functions over the first m and the first n numbers are equal only if m = n.
LEMMA SameLength ==
    ASSUME NEW p, NEW q, NEW P, NEW m \in Nat, NEW n \in Nat,
           [i \in 1 .. m |-> P[p[i]]] = [i \in 1 .. n |-> P[q[i]]]
    PROVE  m = n /\ \A i \in 1 .. m : P[p[i]] = P[q[i]]
<1> DEFINE f == [i \in 1 .. m |-> P[p[i]]]
           g == [i \in 1 .. n |-> P[q[i]]]
<1>1. DOMAIN f = 1 .. m /\ DOMAIN g = 1 .. n OBVIOUS
<1>2. 1 .. m = 1 .. n
  <2> HIDE DEF f, g
  <2>1. f = g BY DEF f, g
  <2> QED BY <1>1, <2>1
<1>3. m = n
  <2>1. m > 0 => m \in 1 .. n BY <1>2
  <2>2. n > 0 => n \in 1 .. m BY <1>2
  <2> QED BY <2>1, <2>2
<1>4. ASSUME NEW i \in 1 .. m PROVE P[p[i]] = P[q[i]]
  <2>1. f[i] = P[p[i]] OBVIOUS
  <2>2. g[i] = P[q[i]] BY <1>3
  <2> QED BY <2>1, <2>2
<1> QED BY <1>3, <1>4

\* The address normalizeUrl makes has the segments the other check looks at: what
\* it drops, no segment stands in.
LEMMA SegmentsNormalized ==
    ASSUME NEW u, NEW v, NEW Parts, u.path \in Seq(Parts), v.path \in Seq(Parts),
           \A s \in Parts : Plain[s] = Gap <=> s = Gap,
           Twice!NormalizeUrl(u) = Twice!NormalizeUrl(v)
    PROVE  Plain[u.host] = Plain[v.host] /\ Twice!LowerSegments(u) = Twice!LowerSegments(v)
<1>1. PICK p : p = u.path OBVIOUS
<1>2. PICK q : q = v.path OBVIOUS
<1>3. PICK lp \in Nat : lp = Len(p) BY <1>1
<1>4. PICK lq \in Nat : lq = Len(q) BY <1>2
<1>5. PICK m \in 0 .. lp :
        /\ Twice!NormalizeUrl(u) = <<Plain[u.host], [i \in 1 .. m |-> Plain[p[i]]]>>
        /\ \A i \in m + 1 .. lp : p[i] = Gap
  BY <1>1, <1>3, AllButSlashes
<1>6. PICK n \in 0 .. lq :
        /\ Twice!NormalizeUrl(v) = <<Plain[v.host], [i \in 1 .. n |-> Plain[q[i]]]>>
        /\ \A i \in n + 1 .. lq : q[i] = Gap
  BY <1>2, <1>4, AllButSlashes
<1>7. /\ Plain[u.host] = Plain[v.host]
      /\ [i \in 1 .. m |-> Plain[p[i]]] = [i \in 1 .. n |-> Plain[q[i]]]
  <2> DEFINE f == [i \in 1 .. m |-> Plain[p[i]]]
             g == [i \in 1 .. n |-> Plain[q[i]]]
  <2>1. Twice!NormalizeUrl(u) = <<Plain[u.host], f>> BY <1>5
  <2>2. Twice!NormalizeUrl(v) = <<Plain[v.host], g>> BY <1>6
  <2> HIDE DEF f, g
  <2>3. <<Plain[u.host], f>> = <<Plain[v.host], g>> BY <2>1, <2>2
  <2>4. Plain[u.host] = Plain[v.host] /\ f = g BY <2>3
  <2> QED BY <2>4 DEF f, g
<1>8. m = n /\ \A i \in 1 .. m : Plain[p[i]] = Plain[q[i]]
  <2>1. m \in Nat /\ n \in Nat OBVIOUS
  <2> QED BY <1>7, <2>1, SameLength
<1>9. \A i \in 1 .. m : p[i] \in Parts /\ q[i] \in Parts
  <2>1. p \in Seq(Parts) /\ q \in Seq(Parts) BY <1>1, <1>2
  <2>2. \A i \in 1 .. m : i \in 1 .. Len(p) /\ i \in 1 .. Len(q) BY <1>3, <1>4, <1>8
  <2> QED BY <2>1, <2>2
<1>10. \A i \in 1 .. m : p[i] = Gap <=> q[i] = Gap BY <1>8, <1>9
<1>11. [i \in {j \in 1 .. lp : p[j] # Gap} |-> Plain[p[i]]]
         = [i \in {j \in 1 .. lq : q[j] # Gap} |-> Plain[q[i]]]
  <2>1. m \in Nat /\ m <= lp /\ m <= lq BY <1>8
  <2>2. \A i \in m + 1 .. lp : p[i] = Gap BY <1>5
  <2>3. \A i \in m + 1 .. lq : q[i] = Gap BY <1>6, <1>8
  <2>4. \A i \in 1 .. m : Plain[p[i]] = Plain[q[i]] BY <1>8
  <2> QED BY <1>10, <2>1, <2>2, <2>3, <2>4, SameFilled, SMTT(30)
<1>12. Twice!LowerSegments(u) = Twice!LowerSegments(v)
  BY <1>1, <1>2, <1>3, <1>4, <1>11, Zenon DEF Twice!LowerSegments
<1> QED BY <1>7, <1>12

\* Two spellings of an address are the same page: what normalizeUrl takes for the
\* same, whatever the case of its letters and the slashes at its end, are both
\* pages of one offer, or neither is.  Facebook, whose posts may be named in the
\* query and in lower case only, is the exception.
THEOREM SameAddressSameKind ==
    ASSUME NEW u, NEW v, NEW Parts, u.path \in Seq(Parts), v.path \in Seq(Parts),
           \A s \in Parts : Plain[s] = Gap <=> s = Gap,
           Twice!NormalizeUrl(u) = Twice!NormalizeUrl(v), SiteOf[Plain[u.host]] # "facebook"
    PROVE  Twice!IsLikelyOfferSpecificUrl(u) <=> Twice!IsLikelyOfferSpecificUrl(v)
<1>1. Plain[u.host] = Plain[v.host] /\ Twice!LowerSegments(u) = Twice!LowerSegments(v)
  BY SegmentsNormalized
<1> QED BY <1>1 DEF Twice!IsLikelyOfferSpecificUrl
=============================================================================
