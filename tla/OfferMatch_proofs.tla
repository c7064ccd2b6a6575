-------------------------- MODULE OfferMatch_proofs --------------------------
(***************************************************************************)
(* What an offer's writers and the customers who join it promise, for any  *)
(* number of edits, requests and customers and any forms the controllers   *)
(* accept.  The first part is about the offer's own writers, alone         *)
(* (LifeSpec) and beside the customers (Spec), the second about the pool,  *)
(* the last about what the pages of src/offer show of offers and leads.    *)
(***************************************************************************)
EXTENDS OfferMatch, FiniteSetTheorems, TLAPS

CONSTANTS Km, None \* of OfferVisibility

Shown == INSTANCE OfferVisibility

Awaits == {"count", "snapshot", "update", "delete"}

\* Where a writer can stand and what it has with it there.
Standing ==
    /\ \A w \in Writers : wpc[w] \in Awaits => read[w] \in Offer
    /\ \A e \in Edits : /\ wpc[e] \in Awaits => form[e] \in Forms
                        /\ wpc[e] \in {"count", "snapshot"} => form[e].kind \in Versioned
    /\ wpc[Creator] \in {"new", "snapshot", "done", "failed", "lost"}
    /\ counted[Creator] = 0 /\ began[Creator] = 0
    /\ wpc[Sweep] \in {"new", "count", "snapshot", "update"}

\* Before createOffer there is nothing to write.
Unborn ==
    wpc[Creator] = "new" =>
        offer = Absent /\ versions = <<>> /\ \A w \in Writers : wpc[w] \notin Awaits

\* What a writer counts is no less than what it began with, and no more
\* than there is.
Counting ==
    offer # Absent => \A w \in Writers :
        /\ wpc[w] = "count" => began[w] <= Len(versions)
        /\ wpc[w] = "snapshot" => began[w] <= counted[w] /\ counted[w] <= Len(versions)

\* The history row of what the sweep is about to expire.
OnRecord ==
    \E i \in DOMAIN versions :
        /\ versions[i].kind = "SYSTEM_EXPIRED"
        /\ versions[i].snapshot.status \in {"ACTIVE", "PAUSED"}
        /\ versions[i].snapshot.end < day

\* An edit of the merchant is in the history before it is in the row.
EditOnRecord == \E i \in DOMAIN versions : versions[i].kind = "MERCHANT_EDIT"

Recorded ==
    /\ wpc[Sweep] \in Awaits => Overdue(read[Sweep])
    /\ wpc[Sweep] = "update" /\ offer # Absent => OnRecord
    /\ \A e \in Edits :
         wpc[e] = "update" /\ form[e].kind = "MERCHANT_EDIT" /\ offer # Absent => EditOnRecord

LifeInv == LifeTypeOK /\ Standing /\ Unborn /\ Counting /\ VersionNumbers /\ Recorded /\ ExpiryOnRecord

-----------------------------------------------------------------------------

\* What the row is about to be: the columns nobody has changed.
Untouched == \A e \in Edits : wpc[e] = "new"
AsAsked ==
    offer # Absent =>
        /\ offer.required \in Targets
        /\ ~EditOnRecord => offer.required = NewRequired
        /\ Untouched => /\ offer.required = NewRequired /\ offer.end = NewEnd
                        /\ wpc[Sweep] \in Awaits => read[Sweep].end = NewEnd

\* Where a request can stand.
Walking ==
    /\ \A r \in Requests :
         /\ pc[r] \in {"customer", "lead", "join"} => kind[r] = "lead"
         /\ pc[r] \in {"ready", "close"} => kind[r] = "interest"
         /\ kind[r] = "lead" /\ pc[r] \in {"find", "create", "count", "update"} => caller[r] \in leads
    /\ wpc[Creator] = "new" => UnderWay = {} /\ Pool = {} /\ leads = {}

\* As many have joined as the offer asked for at some time.
Reached == \E t \in Targets : Cardinality(EverJoined) >= t

Closing == \E r \in Requests : pc[r] = "close"
Readying == \E r \in Requests : pc[r] = "ready"

Early ==
    offer # Absent =>
        /\ offer.joined <= Cardinality(EverJoined)
        /\ \A r \in Requests : pc[r] = "update" => tally[r] <= Cardinality(EverJoined)
        /\ (offer.status = "CLOSED" /\ ~ClosedByHand) \/ Readying \/ Closing => Reached

\* A request that will find the pool full, or has.
Filling(r) ==
    kind[r] = "interest" /\ (pc[r] \in {"count", "ready"} \/ (pc[r] = "update" /\ tally[r] >= NewRequired))

Together ==
    NothingLost /\ offer # Absent /\ ~EditOnRecord /\ ~ClosedByHand /\ "INTERESTED" \notin InterestUpdates =>
        /\ offer.status = "CLOSED" \/ Readying \/ Closing => Cardinality(Pool) >= NewRequired
        /\ offer.status = "CLOSED" \/ Closing =>
             \A c \in Pool : interests[c] = "INTERESTED" =>
                 c \in leads \/ \E r \in Requests : Filling(r)

Full ==
    /\ NothingLost /\ Untouched /\ offer # Absent /\ NewEnd >= day
    /\ leads = {} /\ Pool # {} /\ Cardinality(Pool) >= NewRequired
    => offer.status = "CLOSED" \/ Closing \/ \E r \in Requests : Filling(r)

IInv == LifeInv /\ TypeOK /\ AsAsked /\ Walking /\ Early /\ LeadInPool /\ Together /\ Full
-----------------------------------------------------------------------------
(* The offer's writers                                                     *)

\* One writer moves; the others stand where they stood.
OnlyMoves(w) ==
    /\ wpc' \in [Writers -> {"new", "done", "failed", "lost"} \cup Awaits]
    /\ read' \in [Writers -> Offer \cup {Absent}]
    /\ counted' \in [Writers -> Nat] /\ began' \in [Writers -> Nat]
    /\ form' \in [Edits -> Forms \cup {NoForm}]
    /\ \A v \in Writers \ {w} :
         /\ wpc'[v] = wpc[v] /\ read'[v] = read[v]
         /\ counted'[v] = counted[v] /\ began'[v] = began[v]
    /\ \A e \in Edits \ {w} : form'[e] = form[e]

LEMMA WritersAre ==
  ASSUME LifecycleAssumption
  PROVE  /\ Creator \in Writers /\ Sweep \in Writers /\ Creator # Sweep
         /\ Creator \notin Edits /\ Sweep \notin Edits
         /\ \A w \in Writers : w \in Edits \/ w = Creator \/ w = Sweep
         /\ \A e \in Edits : e \in Writers /\ e # Creator /\ e # Sweep
BY DEF LifecycleAssumption, Writers

LEMMA LifeTypes ==
  ASSUME LifeInv
  PROVE  /\ wpc \in [Writers -> {"new", "done", "failed", "lost"} \cup Awaits]
         /\ read \in [Writers -> Offer \cup {Absent}] /\ counted \in [Writers -> Nat]
         /\ began \in [Writers -> Nat]
         /\ form \in [Edits -> Forms \cup {NoForm}]
         /\ day \in 1 .. MaxDay /\ offer \in Offer \cup {Absent} /\ versions \in Seq(Version)
         /\ crashes \in 0 .. MaxCrashes
BY DEF LifeInv, LifeTypeOK, Awaits

LEMMA TypesOfLife ==
  ASSUME NEW w, OnlyMoves(w), day' \in 1 .. MaxDay, offer' \in Offer \cup {Absent},
         versions' \in Seq(Version), crashes' \in 0 .. MaxCrashes
  PROVE  LifeTypeOK'
BY DEF OnlyMoves, LifeTypeOK, Awaits

\* Where the one that moves may stand.
LEMMA StandingMoved ==
  ASSUME LifecycleAssumption, LifeInv, NEW w \in Writers, OnlyMoves(w),
         wpc'[w] \in Awaits => read'[w] \in Offer,
         w \in Edits => /\ wpc'[w] \in Awaits => form'[w] \in Forms
                        /\ wpc'[w] \in {"count", "snapshot"} => form'[w].kind \in Versioned,
         w = Creator => /\ wpc'[w] \in {"new", "snapshot", "done", "failed", "lost"}
                        /\ counted'[w] = 0 /\ began'[w] = 0,
         w = Sweep => wpc'[w] \in {"new", "count", "snapshot", "update"}
  PROVE  Standing'
<1>1. /\ \A v \in Writers : v # w =>
           /\ wpc'[v] = wpc[v] /\ read'[v] = read[v]
         /\ counted'[v] = counted[v] /\ began'[v] = began[v]
      /\ \A e \in Edits : e # w => form'[e] = form[e]
  BY DEF OnlyMoves
<1>2. \A v \in Writers : wpc'[v] \in Awaits => read'[v] \in Offer
  BY <1>1 DEF LifeInv, Standing
<1>3. \A e \in Edits : /\ wpc'[e] \in Awaits => form'[e] \in Forms
                       /\ wpc'[e] \in {"count", "snapshot"} => form'[e].kind \in Versioned
  BY <1>1, WritersAre DEF LifeInv, Standing
<1>4. /\ wpc'[Creator] \in {"new", "snapshot", "done", "failed", "lost"}
      /\ counted'[Creator] = 0 /\ began'[Creator] = 0
      /\ wpc'[Sweep] \in {"new", "count", "snapshot", "update"}
  BY <1>1, WritersAre DEF LifeInv, Standing
<1> QED
  BY <1>2, <1>3, <1>4 DEF Standing

LEMMA GoesOnly ==
  ASSUME LifeInv, NEW w \in Writers, NEW where \in Awaits, WGoto(w, where),
         UNCHANGED <<read, began, counted, form>>
  PROVE  OnlyMoves(w) /\ wpc'[w] = where
BY LifeTypes DEF OnlyMoves, WGoto

LEMMA FinishesOnly ==
  ASSUME LifecycleAssumption, LifeInv, NEW w \in Writers, NEW outcome \in {"done", "failed"},
         WFinish(w, outcome)
  PROVE  /\ OnlyMoves(w) /\ wpc'[w] = (IF w = Sweep THEN "new" ELSE outcome)
         /\ wpc'[w] \notin Awaits /\ counted'[w] = 0 /\ began'[w] = 0
<1>1. /\ wpc' = [wpc EXCEPT ![w] = IF w = Sweep THEN "new" ELSE outcome]
      /\ read' = [read EXCEPT ![w] = Absent]
      /\ began' = [began EXCEPT ![w] = 0]
      /\ counted' = [counted EXCEPT ![w] = 0]
      /\ form' = [e \in Edits |-> IF e = w THEN NoForm ELSE form[e]]
  BY DEF WFinish, WGoto
<1> QED
  BY <1>1, LifeTypes DEF OnlyMoves, Awaits

LEMMA FinishStands ==
  ASSUME LifecycleAssumption, LifeInv, NEW w \in Writers, NEW outcome \in {"done", "failed"},
         WFinish(w, outcome)
  PROVE  /\ Standing' /\ \A v \in Writers : wpc'[v] \in Awaits => wpc'[v] = wpc[v] /\ v # w
         /\ wpc'[Creator] = "new" => wpc[Creator] = "new"
<1>1. /\ OnlyMoves(w) /\ wpc'[w] = (IF w = Sweep THEN "new" ELSE outcome)
      /\ wpc'[w] \notin Awaits /\ counted'[w] = 0 /\ began'[w] = 0
  BY FinishesOnly
<1>2. Standing'
  BY <1>1, StandingMoved, WritersAre DEF Awaits
<1> QED
  BY <1>1, <1>2, WritersAre DEF OnlyMoves

\* A writer returns or throws, and the history stays.
LEMMA FinishKeeps ==
  ASSUME LifecycleAssumption, LifeInv, NEW w \in Writers, NEW outcome \in {"done", "failed"},
         WFinish(w, outcome), UNCHANGED <<day, versions, crashes>>,
         offer' \in Offer \cup {Absent}, offer = Absent => offer' = Absent, ExpiryOnRecord'
  PROVE  LifeInv'
<1>1. /\ OnlyMoves(w) /\ wpc'[w] \notin Awaits
      /\ Standing' /\ \A v \in Writers : wpc'[v] \in Awaits => wpc'[v] = wpc[v] /\ v # w
      /\ wpc'[Creator] = "new" => wpc[Creator] = "new"
  BY FinishesOnly, FinishStands
<1>2. LifeTypeOK'
  BY <1>1, LifeTypes, TypesOfLife
<1>3. Unborn'
  BY <1>1 DEF Unborn, LifeInv
<1>4. Counting'
  <2> SUFFICES ASSUME offer' # Absent, NEW v \in Writers, wpc'[v] \in {"count", "snapshot"}
               PROVE  /\ wpc'[v] = "count" => began'[v] <= Len(versions)
                      /\ wpc'[v] = "snapshot" => /\ began'[v] <= counted'[v]
                                                 /\ counted'[v] <= Len(versions)
    BY DEF Counting
  <2>1. v # w /\ wpc'[v] = wpc[v] /\ counted'[v] = counted[v] /\ began'[v] = began[v]
    BY <1>1 DEF OnlyMoves, Awaits
  <2> QED
    BY <2>1 DEF Counting, LifeInv
<1>5. VersionNumbers'
  BY DEF VersionNumbers, LifeInv
<1>6. Recorded'
  <2>1. ASSUME wpc'[Sweep] \in Awaits
        PROVE  wpc'[Sweep] = wpc[Sweep] /\ read'[Sweep] = read[Sweep]
    BY <1>1, <2>1, WritersAre DEF OnlyMoves
  <2>2. ASSUME NEW e \in Edits, wpc'[e] = "update"
        PROVE  wpc[e] = "update" /\ form'[e] = form[e]
    BY <1>1, <2>2, WritersAre DEF OnlyMoves, Awaits
  <2>3. OnRecord' = OnRecord /\ EditOnRecord' = EditOnRecord
    BY DEF OnRecord, EditOnRecord
  <2>4. /\ wpc'[Sweep] \in Awaits => Overdue(read[Sweep])
        /\ wpc'[Sweep] = "update" /\ offer' # Absent => OnRecord
    BY <2>1 DEF Recorded, LifeInv, Awaits
  <2>5. ASSUME NEW e \in Edits, wpc'[e] = "update", form'[e].kind = "MERCHANT_EDIT", offer' # Absent
        PROVE  EditOnRecord
    BY <2>2, <2>5 DEF Recorded, LifeInv
  <2> QED
    BY <2>1, <2>3, <2>4, <2>5 DEF Recorded, Overdue
<1> QED
  BY <1>1, <1>2, <1>3, <1>4, <1>5, <1>6 DEF LifeInv
\* The history keeps what it has.
HistoryKept ==
    /\ versions' \in Seq(Version) /\ Len(versions) <= Len(versions')
    /\ \A i \in DOMAIN versions : i \in DOMAIN versions' /\ versions'[i] = versions[i]

LEMMA MoveKeeps ==
  ASSUME LifecycleAssumption, LifeInv, NEW w \in Writers, OnlyMoves(w), Standing',
         wpc[Creator] # "new", wpc'[Creator] # "new",
         UNCHANGED <<day, offer, crashes>>, HistoryKept, VersionNumbers',
         offer # Absent /\ wpc'[w] = "count" => began'[w] <= Len(versions'),
         offer # Absent /\ wpc'[w] = "snapshot" => began'[w] <= counted'[w] /\ counted'[w] <= Len(versions'),
         w = Sweep /\ wpc'[w] \in Awaits => Overdue(read'[w]),
         w = Sweep /\ wpc'[w] = "update" => OnRecord',
         w \in Edits /\ wpc'[w] = "update" /\ form'[w].kind = "MERCHANT_EDIT" => EditOnRecord'
  PROVE  LifeInv'
<1>1. \A v \in Writers : v # w =>
        /\ wpc'[v] = wpc[v] /\ read'[v] = read[v]
         /\ counted'[v] = counted[v] /\ began'[v] = began[v]
  BY DEF OnlyMoves
<1>2. \A e \in Edits : e # w => form'[e] = form[e]
  BY DEF OnlyMoves
<1>3. LifeTypeOK'
  BY LifeTypes, TypesOfLife DEF HistoryKept
<1>4. Unborn'
  BY DEF Unborn
<1>5. Counting'
  <2> SUFFICES ASSUME offer # Absent, NEW v \in Writers
               PROVE  /\ wpc'[v] = "count" => began'[v] <= Len(versions')
                      /\ wpc'[v] = "snapshot" => /\ began'[v] <= counted'[v]
                                                 /\ counted'[v] <= Len(versions')
    BY DEF Counting
  <2>1. CASE v # w
    <3>1. /\ wpc[v] = "count" => began[v] <= Len(versions)
          /\ wpc[v] = "snapshot" => began[v] <= counted[v] /\ counted[v] <= Len(versions)
      BY DEF Counting, LifeInv
    <3>2. /\ counted[v] \in Nat /\ began[v] \in Nat
          /\ Len(versions) \in Nat /\ Len(versions') \in Nat /\ Len(versions) <= Len(versions')
      BY LifeTypes DEF HistoryKept
    <3> QED
      BY <1>1, <2>1, <3>1, <3>2
  <2> QED
    BY <2>1
<1>6. Recorded'
  <2>1. (OnRecord => OnRecord') /\ (EditOnRecord => EditOnRecord')
    BY DEF OnRecord, EditOnRecord, HistoryKept
  <2>2. wpc'[Sweep] \in Awaits => Overdue(read'[Sweep])
    BY <1>1, WritersAre DEF LifeInv, Recorded, Overdue
  <2>3. wpc'[Sweep] = "update" /\ offer # Absent => OnRecord'
    BY <1>1, <2>1, WritersAre DEF LifeInv, Recorded
  <2>4. ASSUME NEW e \in Edits, wpc'[e] = "update", form'[e].kind = "MERCHANT_EDIT", offer # Absent
        PROVE  EditOnRecord'
    BY <1>1, <1>2, <2>1, <2>4, WritersAre DEF LifeInv, Recorded
  <2>5. \A x : Overdue(x)' <=> Overdue(x)
    BY DEF Overdue
  <2>6. (wpc[Sweep] \in Awaits => Overdue(read[Sweep]))'
    BY <2>2 DEF Overdue
  <2> QED
    BY <2>3, <2>4, <2>6 DEF Recorded
<1>7. ExpiryOnRecord'
  BY DEF ExpiryOnRecord, HistoryKept, LifeInv
<1> QED
  BY <1>3, <1>4, <1>5, <1>6, <1>7 DEF LifeInv

LEMMA HistoryStays ==
  ASSUME LifeInv, UNCHANGED versions
  PROVE  HistoryKept /\ VersionNumbers'
BY LifeTypes DEF HistoryKept, LifeInv, VersionNumbers

LEMMA BornOnce ==
  ASSUME LifecycleAssumption, LifeInv, offer # Absent \/ \E w \in Writers : wpc[w] \in Awaits
  PROVE  wpc[Creator] # "new"
BY DEF LifeInv, Unborn

\* Steps of Write, one by one.
LEMMA CreationKeeps == ASSUME LifecycleAssumption, LifeInv, CreateOffer PROVE LifeInv'
<1>1. /\ wpc[Creator] = "new" /\ offer' = NewOffer /\ wpc' = [wpc EXCEPT ![Creator] = "snapshot"]
      /\ read' = [read EXCEPT ![Creator] = NewOffer]
      /\ UNCHANGED <<day, versions, form, began, counted, crashes>>
  BY DEF CreateOffer, WGoto
<1>2. offer = Absent /\ versions = <<>> /\ \A w \in Writers : wpc[w] \notin Awaits
  BY <1>1 DEF LifeInv, Unborn
<1>3. NewOffer \in Offer /\ NewOffer.status = "ACTIVE"
  BY DEF NewOffer, Offer, Status, LifecycleAssumption
<1>4. OnlyMoves(Creator) /\ wpc'[Creator] = "snapshot" /\ read'[Creator] = NewOffer
  BY <1>1, <1>3, LifeTypes, WritersAre DEF OnlyMoves, Awaits
<1>5. LifeTypeOK'
  BY <1>1, <1>3, <1>4, LifeTypes, TypesOfLife
<1>6. Standing'
  <2>1. counted'[Creator] = 0 /\ began'[Creator] = 0
    BY <1>1 DEF LifeInv, Standing
  <2> QED
    BY <1>3, <1>4, <2>1, StandingMoved, WritersAre
<1>7. Unborn'
  BY <1>4 DEF Unborn
<1>8. VersionNumbers'
  BY <1>1, <1>2 DEF VersionNumbers
<1>9. \A w \in Writers : wpc'[w] \in Awaits => w = Creator
  BY <1>2, <1>4 DEF OnlyMoves
<1>10. Counting'
  <2>1. Len(versions) = 0 /\ DOMAIN versions = {} /\ counted[Creator] = 0 /\ began[Creator] = 0
    BY <1>2 DEF LifeInv, Standing
  <2> QED
    BY <1>1, <1>9, <2>1 DEF Counting, Awaits
<1>11. Recorded'
  BY <1>9, WritersAre DEF Recorded, Awaits
<1>12. ExpiryOnRecord'
  BY <1>1, <1>3 DEF ExpiryOnRecord
<1> QED
  BY <1>5, <1>6, <1>7, <1>8, <1>10, <1>11, <1>12 DEF LifeInv

LEMMA ReadKeeps ==
  ASSUME LifecycleAssumption, LifeInv, NEW e \in Edits, ReadOffer(e)
  PROVE  LifeInv'
<1>0. wpc[e] = "new" /\ UNCHANGED <<day, offer, versions, crashes>> /\ e \in Writers
      /\ e # Creator /\ e # Sweep
  BY WritersAre DEF ReadOffer
<1>1. CASE WFinish(e, "failed")
  <2>1. ExpiryOnRecord' /\ offer' \in Offer \cup {Absent}
    BY <1>0, LifeTypes DEF LifeInv, ExpiryOnRecord
  <2> QED
    BY <1>0, <1>1, <2>1, FinishKeeps
<1>2. ASSUME NEW f \in Forms, offer # Absent, WGoto(e, AfterRead(f.kind)),
             read' = [read EXCEPT ![e] = offer], form' = [form EXCEPT ![e] = f],
             began' = [began EXCEPT ![e] = Len(versions)], UNCHANGED counted
      PROVE  LifeInv'
  <2>1. /\ f.kind \in Versioned => AfterRead(f.kind) = "count"
        /\ AfterRead(f.kind) \in {"count", "update", "delete"}
        /\ AfterRead(f.kind) = "count" => f.kind \in Versioned
        /\ AfterRead(f.kind) = "update" => f.kind # "MERCHANT_EDIT"
    <3>1. f.kind \in Versioned \cup Unversioned
      BY DEF LifecycleAssumption
    <3> QED
      BY <3>1 DEF AfterRead, Versioned, Unversioned
  <2>2. PICK p \in {"count", "update", "delete"} : p = AfterRead(f.kind)
    BY <2>1
  <2>3. wpc' = [wpc EXCEPT ![e] = p]
    BY <1>2, <2>2 DEF WGoto
  <2>0. Len(versions) \in Nat
    BY LifeTypes
  <2>4. OnlyMoves(e) /\ wpc'[e] = p /\ read'[e] = offer /\ form'[e] = f
        /\ began'[e] = Len(versions')
    BY <1>0, <1>2, <2>3, <2>0, LifeTypes DEF OnlyMoves, Awaits
  <2>5. offer \in Offer
    BY <1>2, LifeTypes
  <2>6. Standing'
    BY <1>0, <2>1, <2>2, <2>4, <2>5, StandingMoved
  <2>7. wpc[Creator] # "new" /\ wpc'[Creator] = wpc[Creator]
    BY <1>0, <1>2, <2>4, BornOnce, WritersAre DEF OnlyMoves
  <2> QED
    BY <1>0, <2>1, <2>2, <2>4, <2>6, <2>7, <2>0, HistoryStays, MoveKeeps
<1> QED
  BY <1>1, <1>2 DEF ReadOffer

LEMMA FindKeeps == ASSUME LifecycleAssumption, LifeInv, FindExpiring PROVE LifeInv'
<1>1. /\ offer # Absent /\ Overdue(offer) /\ wpc' = [wpc EXCEPT ![Sweep] = "count"]
      /\ read' = [read EXCEPT ![Sweep] = offer]
      /\ began' = [began EXCEPT ![Sweep] = Len(versions)]
      /\ UNCHANGED <<day, offer, versions, form, counted, crashes>>
  BY DEF FindExpiring, WGoto
<1>0. Len(versions) \in Nat
  BY LifeTypes
<1>2. OnlyMoves(Sweep) /\ wpc'[Sweep] = "count" /\ read'[Sweep] = offer
      /\ began'[Sweep] = Len(versions')
  BY <1>1, <1>0, LifeTypes, WritersAre DEF OnlyMoves, Awaits
<1>3. Standing'
  BY <1>1, <1>2, LifeTypes, StandingMoved, WritersAre
<1>4. wpc[Creator] # "new" /\ wpc'[Creator] = wpc[Creator]
  BY <1>1, <1>2, BornOnce, WritersAre DEF OnlyMoves
<1>5. Overdue(read'[Sweep])
  BY <1>1, <1>2
<1> QED
  BY <1>1, <1>2, <1>3, <1>4, <1>5, <1>0, HistoryStays, MoveKeeps, WritersAre

LEMMA CountKeeps ==
  ASSUME LifecycleAssumption, LifeInv, NEW w \in Writers, w # Creator, CountVersions(w)
  PROVE  LifeInv'
<1>1. /\ wpc[w] = "count" /\ wpc' = [wpc EXCEPT ![w] = "snapshot"]
      /\ counted' = [counted EXCEPT ![w] = Len(versions)]
      /\ UNCHANGED <<day, offer, versions, form, read, began, crashes>>
  BY DEF CountVersions, WGoto
<1>2. Len(versions) \in Nat /\ DOMAIN versions = 1 .. Len(versions)
  BY LifeTypes
<1>3. OnlyMoves(w) /\ wpc'[w] = "snapshot" /\ counted'[w] = Len(versions) /\ began'[w] = began[w]
  BY <1>1, <1>2, LifeTypes DEF OnlyMoves, Awaits
<1>4. Standing'
  <2>1. read'[w] \in Offer /\ (w \in Edits => form'[w] \in Forms /\ form'[w].kind \in Versioned)
    BY <1>1, WritersAre DEF LifeInv, Standing, Awaits
  <2> QED
    BY <1>3, <2>1, StandingMoved
<1>5. wpc[Creator] # "new" /\ wpc'[Creator] = wpc[Creator]
  BY <1>1, <1>3, BornOnce, WritersAre DEF OnlyMoves, Awaits
<1>6. offer # Absent => began[w] <= Len(versions)
  BY <1>1 DEF LifeInv, Counting
<1>7. w = Sweep => Overdue(read'[w])
  BY <1>1 DEF LifeInv, Recorded, Awaits
<1>8. offer # Absent => began'[w] <= counted'[w] /\ counted'[w] <= Len(versions')
  BY <1>1, <1>2, <1>3, <1>6
<1>9. HistoryKept /\ VersionNumbers'
  BY <1>1, HistoryStays
<1> QED
  BY <1>1, <1>3, <1>4, <1>5, <1>6, <1>7, <1>8, <1>9, MoveKeeps
LEMMA WriteKeepsHistory ==
  ASSUME LifecycleAssumption, LifeInv, NEW w \in Writers, WriteVersion(w)
  PROVE  LifeInv'
<1>1. wpc[w] = "snapshot" /\ UNCHANGED <<day, offer, crashes>>
  BY DEF WriteVersion
<1>2. CASE offer = Absent /\ WFinish(w, "failed") /\ UNCHANGED versions
  <2>1. ExpiryOnRecord' /\ offer' \in Offer \cup {Absent}
    BY <1>1, <1>2, LifeTypes DEF ExpiryOnRecord
  <2> QED
    BY <1>1, <1>2, <2>1, FinishKeeps
<1>3. ASSUME offer # Absent,
             versions' = Append(versions, [no |-> NextNumber(w), since |-> began[w],
                                           kind |-> Asked(w).kind, snapshot |-> read[w]]),
             IF w = Creator THEN WFinish(w, "done")
                            ELSE WGoto(w, "update") /\ UNCHANGED <<read, began, counted, form>>
      PROVE  LifeInv'
  <2> DEFINE v == [no |-> NextNumber(w), since |-> began[w], kind |-> Asked(w).kind, snapshot |-> read[w]]
             n == Len(versions)
  <2>1. /\ counted[w] \in Nat /\ counted[w] <= n
        /\ began[w] \in Nat /\ began[w] <= counted[w]
    BY <1>1, <1>3, LifeTypes DEF LifeInv, Counting
  <2>2. v \in Version
    <3>1. read[w] \in Offer
      BY <1>1 DEF LifeInv, Standing, Awaits
    <3>2. Asked(w).kind \in {"CREATED", "SYSTEM_EXPIRED"} \cup Versioned
      <4>1. CASE w \in Edits
        BY <1>1, <4>1, WritersAre DEF LifeInv, Standing, Asked
      <4>2. CASE w \in {Creator, Sweep}
        BY <4>2 DEF Asked, SweepForm, CreateForm
      <4> QED
        BY <4>1, <4>2, WritersAre
    <3> QED
      BY <2>1, <3>1, <3>2 DEF Version, NextNumber
  <2>3. /\ versions \in Seq(Version) /\ n \in Nat /\ DOMAIN versions = 1 .. n
    BY LifeTypes
  <2>4. /\ versions' \in Seq(Version) /\ Len(versions') = n + 1 /\ DOMAIN versions' = 1 .. n + 1
        /\ \A i \in 1 .. n : versions'[i] = versions[i]
        /\ versions'[n + 1] = v
    <3>1. versions' = Append(versions, v)
      BY <1>3
    <3> HIDE DEF v
    <3> QED
      BY <2>2, <2>3, <3>1
  <2>5. v.since = began[w] /\ v.no = counted[w] + 1 /\ v.kind = Asked(w).kind /\ v.snapshot = read[w]
    BY DEF NextNumber
  <2> HIDE DEF v, n
  <2>6. HistoryKept
    BY <2>3, <2>4, <2>5 DEF HistoryKept, n
  <2>7. VersionNumbers'
    <3> SUFFICES ASSUME NEW j \in DOMAIN versions'
                 PROVE  /\ versions'[j].no \in 1 .. j
                        /\ \A i \in 1 .. j - 1 : i <= versions'[j].since
                                                   => versions'[i].no < versions'[j].no
      BY DEF VersionNumbers
    <3>1. CASE j \in 1 .. n
      <4>1. \A i \in 1 .. j - 1 : i \in 1 .. n
        BY <2>3, <3>1
      <4> QED
        BY <2>3, <2>4, <3>1, <4>1 DEF LifeInv, VersionNumbers
    <3>2. CASE j = n + 1
      <4>1. versions'[j].no \in 1 .. j
        BY <2>1, <2>3, <2>4, <2>5, <3>2 DEF n
      <4>2. ASSUME NEW i \in 1 .. j - 1, i <= versions'[j].since
            PROVE  versions'[i].no < versions'[j].no
        <5>1. i \in DOMAIN versions /\ versions'[i] = versions[i] /\ i <= began[w]
          BY <2>3, <2>4, <2>5, <3>2, <4>2
        <5>2. versions[i].no \in 1 .. i
          BY <5>1 DEF LifeInv, VersionNumbers
        <5>3. versions'[j].no = counted[w] + 1
          BY <2>4, <2>5, <3>2
        <5> QED
          BY <2>1, <2>3, <5>1, <5>2, <5>3
      <4> QED
        BY <4>1, <4>2
    <3> QED
      BY <2>3, <2>4, <3>1, <3>2
  <2>8. /\ OnlyMoves(w) /\ Standing' /\ wpc'[w] \notin {"count", "snapshot", "delete"}
        /\ wpc'[w] = "update" => /\ w # Creator /\ read'[w] = read[w]
                                 /\ w \in Edits => form'[w] = form[w]
        /\ wpc'[w] # "new"
    <3>1. CASE w = Creator
      <4>1. WFinish(w, "done")
        BY <1>3, <3>1
      <4> QED
        BY <3>1, <4>1, FinishesOnly, FinishStands, WritersAre DEF Awaits
    <3>2. CASE w # Creator
      <4>1. WGoto(w, "update") /\ UNCHANGED <<read, began, counted, form>>
        BY <1>3, <3>2
      <4>2. OnlyMoves(w) /\ wpc'[w] = "update"
        BY <4>1, GoesOnly DEF Awaits
      <4>3. read'[w] \in Offer /\ (w \in Edits => form'[w] \in Forms)
        BY <1>1, <4>1 DEF LifeInv, Standing, Awaits
      <4>4. Standing'
        BY <3>2, <4>2, <4>3, StandingMoved
      <4> QED
        BY <3>2, <4>1, <4>2, <4>4
    <3> QED
      BY <3>1, <3>2
  <2>9. wpc[Creator] # "new" /\ wpc'[Creator] # "new"
    BY <1>3, <2>8, BornOnce, WritersAre DEF OnlyMoves
  <2>10. w = Sweep /\ wpc'[w] = "update" => Overdue(read'[w]) /\ OnRecord'
    <3> SUFFICES ASSUME w = Sweep, wpc'[w] = "update"
                 PROVE  Overdue(read'[w]) /\ OnRecord'
      OBVIOUS
    <3>1. Overdue(read[w]) /\ read'[w] = read[w]
      BY <1>1, <2>8 DEF LifeInv, Recorded, Awaits
    <3>2. v.kind = "SYSTEM_EXPIRED"
      BY <2>5 DEF Asked, SweepForm
    <3>3. /\ versions'[n + 1].kind = "SYSTEM_EXPIRED"
          /\ versions'[n + 1].snapshot.status \in {"ACTIVE", "PAUSED"}
          /\ versions'[n + 1].snapshot.end < day
      BY <2>4, <2>5, <3>1, <3>2 DEF Overdue, Sweepable
    <3>4. n + 1 \in DOMAIN versions'
      BY <2>3, <2>4
    <3> QED
      BY <1>1, <3>1, <3>3, <3>4 DEF OnRecord
  <2>11. w \in Edits /\ wpc'[w] = "update" /\ form'[w].kind = "MERCHANT_EDIT" => EditOnRecord'
    <3> SUFFICES ASSUME w \in Edits, wpc'[w] = "update", form'[w].kind = "MERCHANT_EDIT"
                 PROVE  EditOnRecord'
      OBVIOUS
    <3>1. versions'[n + 1].kind = "MERCHANT_EDIT" /\ n + 1 \in DOMAIN versions'
      BY <2>3, <2>4, <2>5, <2>8, WritersAre DEF Asked
    <3> QED
      BY <3>1 DEF EditOnRecord
  <2>12. w = Sweep /\ wpc'[w] \in Awaits => Overdue(read'[w])
    BY <2>8, <2>10 DEF Awaits
  <2> QED
    BY <1>1, <2>6, <2>7, <2>8, <2>9, <2>10, <2>11, <2>12, MoveKeeps
<1> QED
  BY <1>1, <1>2, <1>3 DEF WriteVersion

\* The row with some columns replaced is a row.
LEMMA AppliedIs ==
  ASSUME NEW set, NEW o \in Offer, DOMAIN set \subseteq {"status", "required", "end"},
         \A c \in DOMAIN set : set[c] \in Column[c]
  PROVE  /\ Applied(set, o) \in Offer
         /\ Applied(set, o).status = (IF "status" \in DOMAIN set THEN set["status"] ELSE o.status)
         /\ Applied(set, o).required
              = (IF "required" \in DOMAIN set THEN set["required"] ELSE o.required)
         /\ Applied(set, o).end = (IF "end" \in DOMAIN set THEN set["end"] ELSE o.end)
         /\ Applied(set, o).joined = o.joined
<1> DEFINE s == IF "status" \in DOMAIN set THEN set["status"] ELSE o.status
           q == IF "required" \in DOMAIN set THEN set["required"] ELSE o.required
           n == IF "end" \in DOMAIN set THEN set["end"] ELSE o.end
           e == [status |-> s, required |-> q, end |-> n, joined |-> o.joined]
<1>1. s \in Status /\ q \in Int /\ n \in Nat
  BY DEF Column, Offer
<1>2. Applied(set, o) = e
  BY DEF Applied, Fields, Column
<1>3. e \in Offer /\ e.status = s /\ e.required = q /\ e.end = n /\ e.joined = o.joined
  BY <1>1 DEF Offer
<1> QED
  BY <1>2, <1>3

\* What an update asks for is what the controllers let through.
LEMMA AskedIs ==
  ASSUME LifecycleAssumption, LifeInv, NEW w \in Writers, w # Creator, wpc[w] = "update"
  PROVE  /\ DOMAIN Asked(w).set \subseteq {"status", "required", "end"}
         /\ \A c \in DOMAIN Asked(w).set : Asked(w).set[c] \in Column[c]
         /\ w = Sweep => Asked(w) = SweepForm
         /\ w \in Edits => Asked(w) = form[w] /\ form[w] \in Forms
<1>1. CASE w = Sweep
  <2>1. Asked(w) = SweepForm
    BY <1>1 DEF Asked
  <2>2. /\ DOMAIN SweepForm.set = {"status"} /\ SweepForm.set["status"] = "EXPIRED"
        /\ Column["status"] = Status /\ "EXPIRED" \in Status
    BY DEF SweepForm, Column, Status
  <2> QED
    BY <1>1, <2>1, <2>2, WritersAre
<1>2. CASE w \in Edits
  <2>1. Asked(w) = form[w] /\ form[w] \in Forms
    BY <1>2, WritersAre DEF Asked, LifeInv, Standing, Awaits
  <2> QED
    BY <1>2, <2>1, WritersAre DEF LifecycleAssumption
<1> QED
  BY <1>1, <1>2, WritersAre

LEMMA UpdateKeeps ==
  ASSUME LifecycleAssumption, LifeInv, NEW w \in Writers, w # Creator, UpdateOffer(w)
  PROVE  LifeInv'
<1>1. wpc[w] = "update" /\ UNCHANGED <<day, versions, crashes>>
  BY DEF UpdateOffer
<1>2. CASE offer = Absent /\ WFinish(w, "failed") /\ UNCHANGED offer
  <2>1. ExpiryOnRecord' /\ offer' \in Offer \cup {Absent}
    BY <1>1, <1>2, LifeTypes DEF ExpiryOnRecord
  <2> QED
    BY <1>1, <1>2, <2>1, FinishKeeps
<1>3. CASE offer # Absent /\ offer' = Applied(Asked(w).set, offer) /\ WFinish(w, "done")
  <2>1. /\ DOMAIN Asked(w).set \subseteq {"status", "required", "end"}
        /\ \A c \in DOMAIN Asked(w).set : Asked(w).set[c] \in Column[c]
        /\ w = Sweep => Asked(w) = SweepForm
        /\ w \in Edits => Asked(w) = form[w] /\ form[w] \in Forms
    BY <1>1, AskedIs
  <2>2. offer \in Offer
    BY <1>3, LifeTypes
  <2>3. /\ offer' \in Offer
        /\ offer'.status = (IF "status" \in DOMAIN Asked(w).set THEN Asked(w).set["status"]
                                                                ELSE offer.status)
    BY <1>3, <2>1, <2>2, AppliedIs
  <2>4. ExpiryOnRecord'
    <3>1. OnRecord' = OnRecord
      BY <1>1 DEF OnRecord
    <3>2. CASE w = Sweep
      BY <1>1, <1>3, <3>1, <3>2 DEF LifeInv, Recorded, ExpiryOnRecord, OnRecord
    <3>3. CASE w \in Edits
      <4>1. offer'.status = "EXPIRED" /\ ~ExpiredByHand => offer.status = "EXPIRED"
        BY <2>1, <2>3, <3>3 DEF ExpiredByHand
      <4> QED
        BY <1>1, <1>3, <4>1 DEF LifeInv, ExpiryOnRecord
    <3> QED
      BY <3>2, <3>3, WritersAre
  <2> QED
    BY <1>1, <1>3, <2>3, <2>4, FinishKeeps
<1> QED
  BY <1>1, <1>2, <1>3 DEF UpdateOffer

LEMMA DeletionKeeps ==
  ASSUME LifecycleAssumption, LifeInv, NEW e \in Edits, DeleteRow(e)
  PROVE  LifeInv'
<1>1. wpc[e] = "delete" /\ UNCHANGED <<day, crashes>> /\ e \in Writers
  BY WritersAre DEF DeleteRow
<1>2. CASE offer = Absent /\ WFinish(e, "failed") /\ UNCHANGED <<offer, versions>>
  <2>1. ExpiryOnRecord' /\ offer' \in Offer \cup {Absent}
    BY <1>1, <1>2, LifeTypes DEF ExpiryOnRecord
  <2> QED
    BY <1>1, <1>2, <2>1, FinishKeeps
<1>3. CASE offer' = Absent /\ versions' = <<>> /\ WFinish(e, "done")
  <2>1. /\ OnlyMoves(e) /\ wpc'[e] \notin Awaits /\ Standing'
        /\ \A v \in Writers : wpc'[v] \in Awaits => wpc'[v] = wpc[v] /\ v # e
        /\ wpc'[Creator] = "new" => wpc[Creator] = "new"
    BY <1>1, <1>3, FinishesOnly, FinishStands
  <2>2. LifeTypeOK'
    BY <1>1, <1>3, <2>1, LifeTypes, TypesOfLife
  <2>3. Unborn'
    BY <1>3, <2>1 DEF Unborn, LifeInv
  <2>4. Counting' /\ VersionNumbers' /\ ExpiryOnRecord'
    BY <1>3 DEF Counting, VersionNumbers, ExpiryOnRecord
  <2>5. Recorded'
    <3>1. wpc'[Sweep] \in Awaits => Overdue(read'[Sweep])
      BY <2>1, WritersAre DEF OnlyMoves, LifeInv, Recorded
    <3>2. (wpc[Sweep] \in Awaits => Overdue(read[Sweep]))'
      BY <1>1, <3>1 DEF Overdue
    <3> QED
      BY <1>3, <3>2 DEF Recorded
  <2> QED
    BY <2>1, <2>2, <2>3, <2>4, <2>5 DEF LifeInv
<1> QED
  BY <1>2, <1>3 DEF DeleteRow

LEMMA DayKeeps == ASSUME LifecycleAssumption, LifeInv, NextDay PROVE LifeInv'
<1>1. /\ day' = day + 1 /\ day < MaxDay
      /\ UNCHANGED <<offer, versions, wpc, form, read, began, counted, crashes>>
  BY DEF NextDay, writerVars
<1>2. day \in 1 .. MaxDay /\ MaxDay \in Nat
  BY DEF LifeInv, LifeTypeOK, LifecycleAssumption
<1>3. LifeTypeOK'
  BY <1>1, <1>2 DEF LifeInv, LifeTypeOK
<1>4. Standing' /\ Unborn' /\ Counting' /\ VersionNumbers'
  BY <1>1 DEF LifeInv, Standing, Unborn, Counting, VersionNumbers
<1>5. OnRecord => OnRecord'
  <2> SUFFICES ASSUME OnRecord PROVE OnRecord'
    OBVIOUS
  <2>1. PICK i \in DOMAIN versions :
          /\ versions[i].kind = "SYSTEM_EXPIRED"
          /\ versions[i].snapshot.status \in {"ACTIVE", "PAUSED"}
          /\ versions[i].snapshot.end < day
    BY DEF OnRecord
  <2>2. versions[i] \in Version
    <3>1. versions \in Seq(Version)
      BY LifeTypes
    <3> QED
      BY <3>1
  <2>3. versions[i].snapshot.end \in Nat
    BY <2>2 DEF Version, Offer
  <2> QED
    BY <1>1, <1>2, <2>1, <2>3 DEF OnRecord
<1>6. Recorded'
  <2>1. ASSUME wpc[Sweep] \in Awaits PROVE Overdue(read[Sweep])'
    <3>1. Overdue(read[Sweep]) /\ read[Sweep] \in Offer
      BY <2>1, WritersAre DEF LifeInv, Recorded, Standing
    <3> QED
      BY <1>1, <1>2, <3>1 DEF Overdue, Offer
  <2> QED
    BY <1>1, <1>5, <2>1 DEF LifeInv, Recorded, EditOnRecord
<1>7. ExpiryOnRecord'
  <2>1. (offer # Absent /\ offer.status = "EXPIRED" /\ ~ExpiredByHand) => OnRecord
    BY DEF LifeInv, ExpiryOnRecord, OnRecord
  <2> QED
    BY <1>1, <1>5, <2>1 DEF ExpiryOnRecord, OnRecord
<1> QED
  BY <1>3, <1>4, <1>6, <1>7 DEF LifeInv

LEMMA LossKeeps ==
  ASSUME LifecycleAssumption, LifeInv, WritersLost, crashes' \in 0 .. MaxCrashes,
         UNCHANGED <<day, offer, versions>>
  PROVE  LifeInv'
<1>1. /\ \A w \in Writers : wpc'[w] \notin Awaits
      /\ \A w \in Writers : wpc'[w] \in {"new", "done", "failed", "lost"}
      /\ counted'[Creator] = 0 /\ began'[Creator] = 0 /\ wpc'[Sweep] = "new"
      /\ wpc'[Creator] = "new" => wpc[Creator] = "new"
  <2>1. /\ \A w \in Writers : wpc'[w] = IF w = Sweep THEN "new"
                                         ELSE IF wpc[w] \in Awaits THEN "lost" ELSE wpc[w]
        /\ \A w \in Writers : wpc[w] \in {"new", "done", "failed", "lost"} \cup Awaits
        /\ \A w \in Writers : counted'[w] = 0 /\ began'[w] = 0
    BY LifeTypes DEF WritersLost, WUnderWay, Awaits
  <2> QED
    BY <2>1, WritersAre DEF Awaits
<1>2. LifeTypeOK'
  <2>1. /\ wpc' \in [Writers -> {"new", "done", "failed", "lost"} \cup Awaits]
        /\ read' \in [Writers -> Offer \cup {Absent}] /\ counted' \in [Writers -> Nat]
        /\ began' \in [Writers -> Nat] /\ form' \in [Edits -> Forms \cup {NoForm}]
    BY LifeTypes DEF WritersLost, WUnderWay, Awaits
  <2> QED
    BY <2>1, LifeTypes DEF LifeTypeOK, Awaits
<1>3. Standing' /\ Recorded'
  BY <1>1, WritersAre DEF Standing, Recorded, Awaits
<1>4. Unborn' /\ Counting' /\ VersionNumbers' /\ ExpiryOnRecord'
  BY <1>1 DEF LifeInv, Unborn, Counting, VersionNumbers, ExpiryOnRecord, Awaits
<1> QED
  BY <1>2, <1>3, <1>4 DEF LifeInv

LEMMA LifeInitially == ASSUME LifecycleAssumption, LifeInit PROVE LifeInv
<1>1. \A w \in Writers : wpc[w] = "new" /\ counted[w] = 0 /\ began[w] = 0
  BY DEF LifeInit
<1>2. LifeTypeOK
  BY DEF LifeInit, LifeTypeOK, LifecycleAssumption
<1>3. Standing /\ Unborn /\ Counting /\ Recorded
  BY <1>1, WritersAre DEF LifeInit, Standing, Unborn, Counting, Recorded, Awaits
<1>4. VersionNumbers /\ ExpiryOnRecord
  BY DEF LifeInit, VersionNumbers, ExpiryOnRecord
<1> QED
  BY <1>2, <1>3, <1>4 DEF LifeInv

LEMMA WriteKeeps == ASSUME LifecycleAssumption, LifeInv, Write PROVE LifeInv'
<1>1. CASE CreateOffer \/ WriteVersion(Creator)
  BY <1>1, CreationKeeps, WriteKeepsHistory, WritersAre
<1>2. CASE \E e \in Edits : EditStep(e)
  BY <1>2, ReadKeeps, CountKeeps, WriteKeepsHistory, UpdateKeeps, DeletionKeeps, WritersAre
     DEF EditStep
<1>3. CASE SweepStep
  BY <1>3, FindKeeps, CountKeeps, WriteKeepsHistory, UpdateKeeps, WritersAre DEF SweepStep
<1> QED
  BY <1>1, <1>2, <1>3, DayKeeps DEF Write

LEMMA LifeStepwise == ASSUME LifecycleAssumption, LifeInv, [LifeNext]_lifeVars PROVE LifeInv'
<1>1. CASE LifeCrash
  <2>1. crashes' \in 0 .. MaxCrashes
    BY <1>1 DEF LifeCrash, LifeInv, LifeTypeOK, LifecycleAssumption
  <2> QED
    BY <1>1, <2>1, LossKeeps DEF LifeCrash
<1>2. CASE UNCHANGED lifeVars
  <2>1. UNCHANGED <<day, offer, versions, wpc, form, read, began, counted, crashes>>
    BY <1>2 DEF lifeVars, writerVars
  <2> QED
    BY <2>1 DEF LifeInv, LifeTypeOK, Standing, Unborn, Counting, VersionNumbers, Recorded, OnRecord,
                EditOnRecord, Overdue, ExpiryOnRecord
<1> QED
  BY <1>1, <1>2, WriteKeeps DEF LifeNext

LEMMA LifeInvariance == LifeSpec => []LifeInv
<1>1. LifeInit => LifeInv
  BY LifeInitially, LifecycleAssumption
<1>2. LifeInv /\ [LifeNext]_lifeVars => LifeInv'
  BY LifeStepwise, LifecycleAssumption
<1> QED
  BY <1>1, <1>2, PTL DEF LifeSpec

\* The offer's row, its history and its writers hold what the table and the
\* services of src/offer can.
THEOREM LifeTypeCorrect == LifeSpec => []LifeTypeOK
<1>1. LifeInv => LifeTypeOK
  BY DEF LifeInv
<1> QED
  BY <1>1, LifeInvariance, PTL

\* version_no, counted in one query of updateOffer or expireOffers and written
\* in another, is never ahead of the history and above that of every row that
\* was there when the call began, whoever else writes in between.
THEOREM NumbersAlwaysOrdered == LifeSpec => []VersionNumbers
<1>1. LifeInv => VersionNumbers
  BY DEF LifeInv
<1> QED
  BY <1>1, LifeInvariance, PTL

\* expireOffers leaves a history row of the overdue offer it found for every
\* offer it expires, though edits, deletions and crashes come between its
\* queries.
THEOREM ExpiryAlwaysOnRecord == LifeSpec => []ExpiryOnRecord
<1>1. LifeInv => ExpiryOnRecord
  BY DEF LifeInv
<1> QED
  BY <1>1, LifeInvariance, PTL
-----------------------------------------------------------------------------
(* What a writer's step may do to the row the customers join               *)

Born == offer' = NewOffer /\ offer = Absent /\ wpc[Creator] = "new"
Kept ==
    /\ offer # Absent /\ offer' # Absent /\ offer'.joined = offer.joined
    /\ offer'.status = "CLOSED" => offer.status = "CLOSED" \/ ClosedByHand
    /\ offer.status = "CLOSED" /\ Untouched' /\ NewEnd >= day => offer'.status = "CLOSED"
RowStep ==
    /\ wpc'[Creator] = "new" => wpc[Creator] = "new"
    /\ Untouched' => Untouched
    /\ NewEnd >= day' => NewEnd >= day
    /\ offer' # Absent => (EditOnRecord => EditOnRecord')
    /\ Born \/ offer' = Absent \/ Kept
    /\ AsAsked'

LEMMA StillRow ==
  ASSUME LifecycleAssumption, LifeInv, AsAsked, NEW w \in Writers, OnlyMoves(w),
         UNCHANGED <<day, offer>>, wpc'[Creator] = "new" => wpc[Creator] = "new",
         w \in Edits => wpc'[w] # "new", EditOnRecord => EditOnRecord',
         w = Sweep /\ wpc'[w] \in Awaits =>
           read'[w] = offer \/ (wpc[w] \in Awaits /\ read'[w] = read[w])
  PROVE  RowStep
<1>1. /\ \A v \in Writers : v # w => wpc'[v] = wpc[v] /\ read'[v] = read[v]
      /\ \A e \in Edits : e \in Writers
  BY WritersAre DEF OnlyMoves
<1>2. Untouched' => Untouched
  BY <1>1 DEF Untouched
<1>3. AsAsked'
  <2> SUFFICES ASSUME offer # Absent
               PROVE  /\ offer.required \in Targets
                      /\ ~EditOnRecord' => offer.required = NewRequired
                      /\ Untouched' => /\ offer.required = NewRequired /\ offer.end = NewEnd
                                       /\ wpc'[Sweep] \in Awaits => read'[Sweep].end = NewEnd
    BY DEF AsAsked
  <2>1. ASSUME Untouched', wpc'[Sweep] \in Awaits PROVE read'[Sweep].end = NewEnd
    BY <1>1, <1>2, <2>1, WritersAre DEF AsAsked
  <2> QED
    BY <1>2, <2>1 DEF AsAsked
<1> QED
  BY <1>2, <1>3 DEF RowStep, Kept

LEMMA FinishRow ==
  ASSUME LifecycleAssumption, LifeInv, AsAsked, NEW w \in Writers, NEW outcome \in {"done", "failed"},
         WFinish(w, outcome), UNCHANGED <<day, offer>>, EditOnRecord => EditOnRecord'
  PROVE  RowStep
<1>1. /\ OnlyMoves(w) /\ wpc'[w] = (IF w = Sweep THEN "new" ELSE outcome)
      /\ wpc'[w] \notin Awaits /\ (wpc'[Creator] = "new" => wpc[Creator] = "new")
  BY FinishesOnly, FinishStands
<1> QED
  BY <1>1, StillRow, WritersAre

LEMMA CreationRow == ASSUME LifecycleAssumption, LifeInv, AsAsked, CreateOffer PROVE RowStep
<1>1. /\ wpc[Creator] = "new" /\ offer' = NewOffer /\ wpc' = [wpc EXCEPT ![Creator] = "snapshot"]
      /\ UNCHANGED <<day, versions>>
  BY DEF CreateOffer, WGoto
<1>2. offer = Absent /\ \A w \in Writers : wpc[w] \notin Awaits
  BY <1>1 DEF LifeInv, Unborn
<1>3. \A w \in Writers : w # Creator => wpc'[w] = wpc[w]
  BY <1>1, LifeTypes
<1>4. Untouched' => Untouched
  BY <1>3, WritersAre DEF Untouched
<1>5. wpc'[Sweep] \notin Awaits
  BY <1>2, <1>3, WritersAre
<1>6. NewOffer.required = NewRequired /\ NewOffer.end = NewEnd /\ NewRequired \in Targets
  BY DEF NewOffer, Targets
<1>7. AsAsked'
  BY <1>1, <1>5, <1>6 DEF AsAsked, Untouched
<1>8. EditOnRecord => EditOnRecord'
  BY <1>1 DEF EditOnRecord
<1>9. wpc'[Creator] # "new"
  BY <1>1, LifeTypes, WritersAre
<1> QED
  BY <1>1, <1>2, <1>4, <1>7, <1>8, <1>9 DEF RowStep, Born

LEMMA ReadRow ==
  ASSUME LifecycleAssumption, LifeInv, AsAsked, NEW e \in Edits, ReadOffer(e)
  PROVE  RowStep
<1>1. e \in Writers /\ e # Creator /\ e # Sweep /\ UNCHANGED <<day, offer, versions>>
  BY WritersAre DEF ReadOffer
<1>2. EditOnRecord => EditOnRecord'
  BY <1>1 DEF EditOnRecord
<1>3. CASE WFinish(e, "failed")
  BY <1>1, <1>2, <1>3, FinishRow
<1>4. ASSUME NEW f \in Forms, offer # Absent, WGoto(e, AfterRead(f.kind)),
             read' = [read EXCEPT ![e] = offer], form' = [form EXCEPT ![e] = f],
             began' = [began EXCEPT ![e] = Len(versions)], UNCHANGED counted
      PROVE  RowStep
  <2>1. AfterRead(f.kind) \in {"count", "update", "delete"}
    BY DEF LifecycleAssumption, AfterRead, Versioned, Unversioned
  <2>2. PICK p \in {"count", "update", "delete"} : p = AfterRead(f.kind)
    BY <2>1
  <2>3. wpc' = [wpc EXCEPT ![e] = p]
    BY <1>4, <2>2 DEF WGoto
  <2>0. Len(versions) \in Nat
    BY LifeTypes
  <2>4. OnlyMoves(e) /\ wpc'[e] = p
    BY <1>1, <1>4, <2>0, <2>3, LifeTypes DEF OnlyMoves, Awaits
  <2>5. wpc'[Creator] = wpc[Creator]
    BY <1>1, <2>4, WritersAre DEF OnlyMoves
  <2> QED
    BY <1>1, <1>2, <2>4, <2>5, StillRow
<1> QED
  BY <1>3, <1>4 DEF ReadOffer

LEMMA FindRow == ASSUME LifecycleAssumption, LifeInv, AsAsked, FindExpiring PROVE RowStep
<1>1. /\ wpc' = [wpc EXCEPT ![Sweep] = "count"] /\ read' = [read EXCEPT ![Sweep] = offer]
      /\ began' = [began EXCEPT ![Sweep] = Len(versions)]
      /\ offer # Absent /\ UNCHANGED <<day, offer, versions, form, counted>>
  BY DEF FindExpiring, WGoto
<1>0. Len(versions) \in Nat
  BY LifeTypes
<1>2. OnlyMoves(Sweep) /\ read'[Sweep] = offer
  BY <1>0, <1>1, LifeTypes, WritersAre DEF OnlyMoves, Awaits
<1>3. wpc'[Creator] = wpc[Creator]
  BY <1>2, WritersAre DEF OnlyMoves
<1>4. EditOnRecord => EditOnRecord'
  BY <1>1 DEF EditOnRecord
<1> QED
  BY <1>1, <1>2, <1>3, <1>4, StillRow, WritersAre

LEMMA CountRow ==
  ASSUME LifecycleAssumption, LifeInv, AsAsked, NEW w \in Writers, w # Creator, CountVersions(w)
  PROVE  RowStep
<1>1. /\ wpc[w] = "count" /\ wpc' = [wpc EXCEPT ![w] = "snapshot"]
      /\ counted' = [counted EXCEPT ![w] = Len(versions)]
      /\ UNCHANGED <<day, offer, versions, form, read, began>>
  BY DEF CountVersions, WGoto
<1>2. Len(versions) \in Nat
  BY LifeTypes
<1>3. OnlyMoves(w) /\ wpc'[w] = "snapshot"
  BY <1>1, <1>2, LifeTypes DEF OnlyMoves, Awaits
<1>4. wpc'[Creator] = wpc[Creator]
  BY <1>3, WritersAre DEF OnlyMoves
<1>5. EditOnRecord => EditOnRecord'
  BY <1>1 DEF EditOnRecord
<1> QED
  BY <1>1, <1>3, <1>4, <1>5, StillRow DEF Awaits

LEMMA WriteRow ==
  ASSUME LifecycleAssumption, LifeInv, AsAsked, NEW w \in Writers, WriteVersion(w)
  PROVE  RowStep
<1>1. wpc[w] = "snapshot" /\ UNCHANGED <<day, offer>>
  BY DEF WriteVersion
<1>2. EditOnRecord => EditOnRecord'
  <2>1. CASE UNCHANGED versions
    BY <2>1 DEF EditOnRecord
  <2>2. ASSUME NEW v, versions' = Append(versions, v) PROVE EditOnRecord => EditOnRecord'
    <3>1. versions \in Seq(Version)
      BY LifeTypes
    <3>2. \A i \in DOMAIN versions : i \in DOMAIN versions' /\ versions'[i] = versions[i]
      BY <2>2, <3>1
    <3> QED
      BY <3>2 DEF EditOnRecord
  <2> QED
    BY <2>1, <2>2 DEF WriteVersion
<1>3. CASE WFinish(w, "failed") \/ WFinish(w, "done")
  BY <1>1, <1>2, <1>3, FinishRow
<1>4. CASE w # Creator /\ WGoto(w, "update") /\ UNCHANGED <<read, began, counted, form>>
  <2>1. OnlyMoves(w) /\ wpc'[w] = "update"
    BY <1>4, GoesOnly DEF Awaits
  <2>2. wpc'[Creator] = wpc[Creator]
    BY <1>4, <2>1, WritersAre DEF OnlyMoves
  <2> QED
    BY <1>1, <1>2, <1>4, <2>1, <2>2, StillRow DEF Awaits
<1> QED
  BY <1>3, <1>4 DEF WriteVersion
\* An edit's update is one the controllers let through, on record before.
LEMMA EditIs ==
  ASSUME LifecycleAssumption, LifeInv, NEW e \in Edits, wpc[e] = "update", offer # Absent
  PROVE  /\ "required" \in DOMAIN form[e].set => form[e].set["required"] \in Targets /\ EditOnRecord
         /\ "status" \in DOMAIN form[e].set /\ form[e].set["status"] = "CLOSED" => ClosedByHand
<1>1. form[e] \in Forms
  BY WritersAre DEF LifeInv, Standing, Awaits
<1>2. "required" \in DOMAIN form[e].set => form[e].kind = "MERCHANT_EDIT"
  BY <1>1 DEF LifecycleAssumption
<1>3. "required" \in DOMAIN form[e].set => EditOnRecord
  BY <1>2 DEF LifeInv, Recorded
<1> QED
  BY <1>1, <1>3 DEF Targets, ClosedByHand

LEMMA UpdateRow ==
  ASSUME LifecycleAssumption, LifeInv, AsAsked, NEW w \in Writers, w # Creator, UpdateOffer(w)
  PROVE  RowStep
<1>1. wpc[w] = "update" /\ UNCHANGED <<day, versions>>
  BY DEF UpdateOffer
<1>2. EditOnRecord' = EditOnRecord
  BY <1>1 DEF EditOnRecord
<1>3. CASE WFinish(w, "failed") /\ UNCHANGED offer
  BY <1>1, <1>2, <1>3, FinishRow
<1>4. CASE offer # Absent /\ offer' = Applied(Asked(w).set, offer) /\ WFinish(w, "done")
  <2>1. /\ DOMAIN Asked(w).set \subseteq {"status", "required", "end"}
        /\ \A c \in DOMAIN Asked(w).set : Asked(w).set[c] \in Column[c]
        /\ w = Sweep => Asked(w) = SweepForm
        /\ w \in Edits => Asked(w) = form[w]
    BY <1>1, AskedIs
  <2>2. offer \in Offer
    BY <1>4, LifeTypes
  <2> DEFINE set == Asked(w).set
  <2>3. /\ offer' \in Offer /\ offer'.joined = offer.joined
        /\ offer'.status = (IF "status" \in DOMAIN set THEN set["status"] ELSE offer.status)
        /\ offer'.required = (IF "required" \in DOMAIN set THEN set["required"] ELSE offer.required)
        /\ offer'.end = (IF "end" \in DOMAIN set THEN set["end"] ELSE offer.end)
    BY <1>4, <2>1, <2>2, AppliedIs
  <2>4. w = Sweep => DOMAIN set = {"status"} /\ set["status"] = "EXPIRED"
    BY <2>1 DEF SweepForm
  <2>5. w \in Edits =>
          /\ "required" \in DOMAIN set => set["required"] \in Targets /\ EditOnRecord
          /\ "status" \in DOMAIN set /\ set["status"] = "CLOSED" => ClosedByHand
    BY <1>1, <1>4, <2>1, EditIs
  <2> HIDE DEF set
  <2>6. offer' # Absent
    BY <2>3 DEF LifecycleAssumption
  <2>7. /\ \A v \in Writers : wpc'[v] \in Awaits => wpc'[v] = wpc[v] /\ v # w
        /\ wpc'[Creator] = "new" => wpc[Creator] = "new"
        /\ OnlyMoves(w) /\ wpc'[w] = (IF w = Sweep THEN "new" ELSE "done")
    BY <1>4, FinishesOnly, FinishStands
  <2>8. (Untouched' => Untouched /\ w = Sweep) /\ (w = Sweep => wpc'[Sweep] \notin Awaits)
    BY <2>7, WritersAre DEF Untouched, OnlyMoves, Awaits
  <2>9. /\ offer.required \in Targets
        /\ ~EditOnRecord => offer.required = NewRequired
        /\ Untouched => /\ offer.required = NewRequired /\ offer.end = NewEnd
                        /\ wpc[Sweep] \in Awaits => read[Sweep].end = NewEnd
    BY <1>4 DEF AsAsked
  <2>10. AsAsked'
    <3>1. offer'.required \in Targets /\ (~EditOnRecord => offer'.required = NewRequired)
      BY <2>3, <2>4, <2>5, <2>9, WritersAre
    <3>2. Untouched' => /\ offer'.required = NewRequired /\ offer'.end = NewEnd
                        /\ wpc'[Sweep] \notin Awaits
      BY <2>3, <2>4, <2>8, <2>9
    <3> QED
      BY <1>2, <3>1, <3>2 DEF AsAsked
  <2>11. offer'.status = "CLOSED" => offer.status = "CLOSED" \/ ClosedByHand
    BY <2>3, <2>4, <2>5, WritersAre
  <2>12. ~(Untouched' /\ NewEnd >= day)
    <3> SUFFICES ASSUME Untouched', NewEnd >= day PROVE FALSE
      OBVIOUS
    <3>1. read[Sweep].end = NewEnd /\ Overdue(read[Sweep])
      BY <1>1, <2>8, <2>9 DEF LifeInv, Recorded, Awaits
    <3>2. day \in Int /\ NewEnd \in Nat
      BY LifeTypes DEF LifecycleAssumption
    <3> QED
      BY <3>1, <3>2 DEF Overdue
  <2>13. Kept
    BY <1>4, <2>3, <2>6, <2>11, <2>12 DEF Kept
  <2> QED
    BY <1>1, <1>2, <2>7, <2>8, <2>10, <2>13 DEF RowStep
<1> QED
  BY <1>1, <1>3, <1>4 DEF UpdateOffer

LEMMA DeletionRow ==
  ASSUME LifecycleAssumption, LifeInv, AsAsked, NEW e \in Edits, DeleteRow(e)
  PROVE  RowStep
<1>1. e \in Writers /\ UNCHANGED day
  BY WritersAre DEF DeleteRow
<1>2. CASE WFinish(e, "failed") /\ UNCHANGED <<offer, versions>>
  <2>1. EditOnRecord' = EditOnRecord
    BY <1>2 DEF EditOnRecord
  <2> QED
    BY <1>1, <1>2, <2>1, FinishRow
<1>3. CASE offer' = Absent /\ WFinish(e, "done")
  <2>1. OnlyMoves(e) /\ wpc'[e] = "done" /\ (wpc'[Creator] = "new" => wpc[Creator] = "new")
    BY <1>1, <1>3, FinishesOnly, FinishStands, WritersAre
  <2>2. ~Untouched'
    BY <2>1 DEF Untouched
  <2> QED
    BY <1>1, <1>3, <2>1, <2>2 DEF RowStep, AsAsked
<1> QED
  BY <1>2, <1>3 DEF DeleteRow

LEMMA DayRow == ASSUME LifecycleAssumption, LifeInv, AsAsked, NextDay PROVE RowStep
<1>1. day' = day + 1 /\ UNCHANGED <<offer, versions, wpc, read>>
  BY DEF NextDay, writerVars
<1>2. day \in Int /\ NewEnd \in Int
  BY LifeTypes DEF LifecycleAssumption
<1>3. EditOnRecord' = EditOnRecord /\ Untouched' = Untouched
  BY <1>1 DEF EditOnRecord, Untouched
<1>4. AsAsked'
  BY <1>1, <1>3 DEF AsAsked
<1> QED
  BY <1>1, <1>2, <1>3, <1>4 DEF RowStep, Kept

LEMMA WriteIsRowStep == ASSUME LifecycleAssumption, LifeInv, AsAsked, Write PROVE RowStep
<1>1. CASE CreateOffer \/ WriteVersion(Creator)
  BY <1>1, CreationRow, WriteRow, WritersAre
<1>2. CASE \E e \in Edits : EditStep(e)
  BY <1>2, ReadRow, CountRow, WriteRow, UpdateRow, DeletionRow, WritersAre DEF EditStep
<1>3. CASE SweepStep
  BY <1>3, FindRow, CountRow, WriteRow, UpdateRow, WritersAre DEF SweepStep
<1> QED
  BY <1>1, <1>2, <1>3, DayRow DEF Write
-----------------------------------------------------------------------------
(* The customers' requests                                                 *)

LEMMA Sizes ==
  ASSUME MatchAssumption, NEW T, T \subseteq Customers, NEW S, S \subseteq T
  PROVE  /\ Cardinality(S) \in Nat /\ Cardinality(T) \in Nat
         /\ Cardinality(S) <= Cardinality(T)
<1>1. IsFiniteSet(T) /\ IsFiniteSet(S)
  BY FS_Subset DEF MatchAssumption
<1> QED
  BY <1>1, FS_CardinalityType, FS_Subset

LEMMA Joining ==
  ASSUME TypeOK
  PROVE  /\ EverJoined \subseteq Customers /\ Pool \subseteq Customers /\ Pool \subseteq EverJoined
         /\ NothingLost => EverJoined = Pool
BY DEF TypeOK, EverJoined, Pool, NothingLost

\* One request moves; the others stand where they stood.
Moves(r) ==
    /\ pc' \in [Requests -> {"new"} \cup Running \cup Ended]
    /\ tally' \in [Requests -> Nat]
    /\ \A q \in Requests : q # r => pc'[q] = pc[q] /\ tally'[q] = tally[q]
    /\ UNCHANGED <<kind, caller>>

LEMMA FinishMoves ==
  ASSUME TypeOK, NEW r \in Requests, NEW outcome \in Ended, Finish(r, outcome),
         UNCHANGED <<kind, caller>>
  PROVE  Moves(r) /\ pc'[r] = outcome
BY DEF TypeOK, Finish, Moves

LEMMA GotoMoves ==
  ASSUME TypeOK, NEW r \in Requests, NEW where \in Running, Goto(r, where),
         UNCHANGED <<kind, caller>>
  PROVE  Moves(r) /\ pc'[r] = where /\ tally'[r] = tally[r]
BY DEF TypeOK, Goto, Moves

\* What was lost or has failed stays so.
LEMMA LostStays ==
  ASSUME TypeOK, NEW r \in Requests, Moves(r), pc[r] \notin Ended, UNCHANGED accounts
  PROVE  NothingLost' => NothingLost /\ pc'[r] \notin {"lost", "failed"}
BY DEF NothingLost, Moves, Ended

\* A request moves and nothing of the offer does.
LEMMA SameLife ==
  ASSUME LifeInv, AsAsked, UNCHANGED lifeVars
  PROVE  /\ LifeInv' /\ AsAsked' /\ UNCHANGED <<day, offer, wpc>>
         /\ EditOnRecord' = EditOnRecord /\ Untouched' = Untouched
<1>1. UNCHANGED <<day, offer, versions, wpc, form, read, began, counted, crashes>>
  BY DEF lifeVars, writerVars
<1>2. LifeInv'
  BY <1>1 DEF LifeInv, LifeTypeOK, Standing, Unborn, Counting, VersionNumbers, Recorded, OnRecord,
              EditOnRecord, Overdue, ExpiryOnRecord
<1>3. EditOnRecord' = EditOnRecord /\ Untouched' = Untouched
  BY <1>1 DEF EditOnRecord, Untouched
<1> QED
  BY <1>1, <1>2, <1>3 DEF AsAsked

PoolInv == TypeOK /\ Walking /\ Early /\ LeadInPool /\ Together /\ Full

\* A request that has not joined the pool yet moves on, or one ends in an error.
LEMMA PlainMove ==
  ASSUME MatchAssumption, LifeInv, AsAsked, PoolInv, NEW r \in Requests, Moves(r),
         UNCHANGED <<lifeVars, accounts, interests>>, pc[r] \notin Ended,
         pc[r] \in {"new", "customer", "lead", "join", "find"} \/ pc'[r] = "failed",
         pc'[r] \notin {"count", "update", "ready", "close"},
         leads \subseteq leads', leads' \subseteq Customers,
         pc'[r] \in {"customer", "lead", "join"} => kind[r] = "lead",
         kind[r] = "lead" /\ pc'[r] \in {"find", "create"} => caller[r] \in leads',
         wpc[Creator] = "new" => pc'[r] \notin Running /\ leads' = {},
         LeadInPool'
  PROVE  LifeInv' /\ AsAsked' /\ PoolInv'
<1>1. /\ LifeInv' /\ AsAsked' /\ UNCHANGED <<day, offer, wpc>>
      /\ EditOnRecord' = EditOnRecord /\ Untouched' = Untouched
  BY SameLife
<1>2. TypeOK'
  <2>1. LifeTypeOK'
    BY <1>1 DEF LifeInv
  <2> QED
    BY <2>1 DEF PoolInv, TypeOK, Moves
<1>3. /\ \A q \in Requests : q # r => pc'[q] = pc[q] /\ tally'[q] = tally[q]
      /\ UNCHANGED <<kind, caller, interests, accounts>>
  BY DEF Moves
<1>4. Pool' = Pool /\ EverJoined' = EverJoined
  BY <1>3 DEF Pool, EverJoined
<1>5. Walking'
  <2>1. \A q \in Requests :
          /\ pc'[q] \in {"customer", "lead", "join"} => kind[q] = "lead"
          /\ pc'[q] \in {"ready", "close"} => kind[q] = "interest"
          /\ kind[q] = "lead" /\ pc'[q] \in {"find", "create", "count", "update"} => caller[q] \in leads'
    BY <1>3 DEF PoolInv, Walking
  <2>2. wpc[Creator] = "new" => (UnderWay = {})' /\ Pool = {} /\ leads' = {}
    BY <1>3 DEF PoolInv, Walking, UnderWay
  <2> QED
    BY <1>1, <1>3, <1>4, <2>1, <2>2 DEF Walking
<1>6. (Readying' => Readying) /\ (Closing' => Closing)
  BY <1>3 DEF Readying, Closing
<1>7. Early'
  BY <1>1, <1>3, <1>4, <1>6 DEF PoolInv, Early, Reached
<1>8. NothingLost' => NothingLost /\ pc[r] \in {"new", "customer", "lead", "join", "find"}
  BY LostStays DEF PoolInv
<1>9. ASSUME NothingLost', NEW q \in Requests, Filling(q) PROVE Filling(q)'
  BY <1>3, <1>8, <1>9 DEF Filling
<1>10. ASSUME NothingLost', Closing PROVE Closing'
  BY <1>3, <1>8, <1>10 DEF Closing
<1>11. Together'
  BY <1>1, <1>3, <1>4, <1>6, <1>8, <1>9 DEF PoolInv, Together
<1>12. Full'
  BY <1>1, <1>3, <1>4, <1>8, <1>9, <1>10 DEF PoolInv, Full
<1> QED
  BY <1>1, <1>2, <1>5, <1>7, <1>11, <1>12 DEF PoolInv
LEMMA ReadingMoves ==
  ASSUME MatchAssumption, LifeInv, AsAsked, PoolInv, NEW r \in Requests,
         \/ ReadForInterest(r) \/ ReadForLead(r) \/ CheckLead(r) \/ ReadCustomer(r)
         \/ FindInterest(r)
  PROVE  LifeInv' /\ AsAsked' /\ PoolInv'
<1>1. UNCHANGED <<lifeVars, poolVars, kind, caller>>
  BY DEF ReadForInterest, ReadForLead, CheckLead, ReadCustomer, FindInterest, OnlyRequests
<1>2. PICK p \in {"find", "customer", "lead", "join", "create", "refused", "already"} :
        /\ Goto(r, p) \/ (p \in Ended /\ Finish(r, p))
        /\ p \in Running => pc[r] \in Running \/ offer # Absent
        /\ p \in {"customer", "lead", "join"} => kind[r] = "lead"
        /\ p = "find" => pc[r] = "new" /\ kind[r] = "interest"
        /\ p = "create" => pc[r] = "find"
        /\ pc[r] = "find" => p = "create" \/ Joined(caller[r])
        /\ pc[r] \in {"new", "customer", "lead", "find"}
  <2>1. /\ pc[r] \in {"customer", "lead"} => kind[r] = "lead"
        /\ {"refused", "already"} \subseteq Ended \ Running /\ "find" \in Running
        /\ {"customer", "lead", "join", "create"} \subseteq Running
    BY DEF PoolInv, Walking, Ended, Running
  <2>2. CASE ReadForInterest(r)
    BY <2>1, <2>2 DEF ReadForInterest
  <2>3. CASE ReadForLead(r)
    BY <2>1, <2>3 DEF ReadForLead
  <2>4. CASE CheckLead(r)
    BY <2>1, <2>4 DEF CheckLead, Running
  <2>5. CASE ReadCustomer(r)
    BY <2>1, <2>5 DEF ReadCustomer, Running
  <2>6. CASE FindInterest(r)
    BY <2>1, <2>6 DEF FindInterest, Running
  <2> QED
    BY <2>2, <2>3, <2>4, <2>5, <2>6
<1>3. Moves(r) /\ pc'[r] = p
  <2>1. TypeOK /\ UNCHANGED <<kind, caller>>
    BY <1>1 DEF PoolInv
  <2>2. p \in Running \cup Ended
    BY DEF Running, Ended
  <2>3. CASE Finish(r, p) /\ p \in Ended
    BY <2>1, <2>3, FinishMoves
  <2>4. CASE Goto(r, p) /\ p \in Running
    BY <2>1, <2>4, GotoMoves
  <2>5. CASE Goto(r, p) /\ p \in Ended
    BY <2>1, <2>5 DEF TypeOK, Goto, Moves
  <2> QED
    BY <1>2, <2>2, <2>3, <2>4, <2>5
<1>4. UNCHANGED <<accounts, interests, leads, offer, wpc>> /\ pc[r] \notin Ended
  BY <1>1, <1>2 DEF poolVars, lifeVars, writerVars, Ended
<1>5. LeadInPool'
  <2> SUFFICES ASSUME Legacy, offer # Absent, NEW c \in leads \cap accounts
               PROVE  \/ Joined(c)'
                      \/ \E q \in Requests :
                            /\ caller'[q] = c /\ kind'[q] = "lead"
                            /\ pc'[q] \in {"find", "create", "lost"}
    BY <1>4 DEF LeadInPool
  <2>1. Joined(c)' = Joined(c) /\ UNCHANGED <<kind, caller>>
    BY <1>4, <1>3 DEF Joined, Moves
  <2>2. CASE ~Joined(c)
    <3>1. PICK q \in Requests : caller[q] = c /\ kind[q] = "lead" /\ pc[q] \in {"find", "create", "lost"}
      BY <2>2 DEF PoolInv, LeadInPool
    <3>2. pc'[q] \in {"find", "create", "lost"}
      BY <1>2, <1>3, <2>2, <3>1 DEF Moves
    <3> QED
      BY <2>1, <3>1, <3>2
  <2> QED
    BY <2>1, <2>2
<1>6. wpc[Creator] = "new" => pc'[r] \notin Running /\ leads' = {}
  BY <1>2, <1>3, <1>4 DEF LifeInv, Unborn, PoolInv, Walking, UnderWay
<1>7. kind[r] = "lead" /\ pc'[r] \in {"find", "create"} => caller[r] \in leads'
  BY <1>2, <1>3, <1>4 DEF PoolInv, Walking
<1>8. leads \subseteq leads' /\ leads' \subseteq Customers
  BY <1>4 DEF PoolInv, TypeOK
<1> QED
  BY <1>1, <1>2, <1>3, <1>4, <1>5, <1>6, <1>7, <1>8, PlainMove

LEMMA CreateLeadKeeps ==
  ASSUME MatchAssumption, LifeInv, AsAsked, PoolInv, NEW r \in Requests, CreateLead(r)
  PROVE  LifeInv' /\ AsAsked' /\ PoolInv'
<1>1. pc[r] = "join" /\ kind[r] = "lead" /\ UNCHANGED <<lifeVars, accounts, interests, kind, caller>>
  BY DEF CreateLead, PoolInv, Walking
<1>2. TypeOK /\ offer' = offer /\ {"failed", "joined"} \subseteq Ended /\ "find" \in Running
  BY <1>1 DEF PoolInv, lifeVars, Ended, Running
<1>3. /\ Moves(r) /\ pc'[r] \in {"failed", "joined", "find"}
      /\ leads' = leads \cup {caller[r]}
      /\ Legacy => pc'[r] = "find" \/ caller[r] \in leads
  <2>1. CASE caller[r] \in leads /\ Finish(r, "failed") /\ UNCHANGED leads
    BY <1>1, <1>2, <2>1, FinishMoves
  <2>2. CASE leads' = leads \cup {caller[r]} /\ Legacy /\ Goto(r, "find")
    BY <1>1, <1>2, <2>2, GotoMoves
  <2>3. CASE leads' = leads \cup {caller[r]} /\ ~Legacy /\ Finish(r, "joined")
    BY <1>1, <1>2, <2>3, FinishMoves
  <2> QED
    BY <2>1, <2>2, <2>3 DEF CreateLead
<1>4. leads' \subseteq Customers
  BY <1>3 DEF PoolInv, TypeOK
<1>5. wpc[Creator] # "new"
  BY <1>1 DEF PoolInv, Walking, UnderWay, Running
<1>6. LeadInPool'
  <2> SUFFICES ASSUME Legacy, offer # Absent, NEW c \in leads' \cap accounts
               PROVE  \/ Joined(c)'
                      \/ \E q \in Requests :
                            /\ caller'[q] = c /\ kind'[q] = "lead"
                            /\ pc'[q] \in {"find", "create", "lost"}
    BY <1>1, <1>2 DEF LeadInPool
  <2>1. Joined(c)' = Joined(c)
    BY <1>1 DEF Joined
  <2>2. CASE c \notin leads
    BY <1>1, <1>3, <2>2
  <2>3. CASE c \in leads /\ ~Joined(c)
    <3>1. PICK q \in Requests : caller[q] = c /\ kind[q] = "lead" /\ pc[q] \in {"find", "create", "lost"}
      BY <2>3 DEF PoolInv, LeadInPool
    <3> QED
      BY <1>1, <1>3, <3>1 DEF Moves
  <2> QED
    BY <2>1, <2>2, <2>3
<1> QED
  BY <1>1, <1>3, <1>4, <1>5, <1>6, PlainMove DEF Ended

\* A request ends in an error where the row or the customer is gone.
LEMMA FailureKeeps ==
  ASSUME MatchAssumption, LifeInv, AsAsked, PoolInv, NEW r \in Requests,
         pc[r] \in {"create", "update", "close"}, Finish(r, "failed"),
         UNCHANGED <<lifeVars, poolVars, kind, caller>>,
         pc[r] = "create" => ~Insertable(caller[r])
  PROVE  LifeInv' /\ AsAsked' /\ PoolInv'
<1>1. Moves(r) /\ pc'[r] = "failed"
  BY FinishMoves DEF PoolInv, Ended
<1>2. UNCHANGED <<accounts, interests, leads, offer, kind, caller>>
  BY DEF poolVars, lifeVars
<1>3. wpc[Creator] # "new"
  BY DEF PoolInv, Walking, UnderWay, Running
<1>4. LeadInPool'
  <2> SUFFICES ASSUME Legacy, offer # Absent, NEW c \in leads \cap accounts
               PROVE  \/ Joined(c)'
                      \/ \E q \in Requests :
                            /\ caller'[q] = c /\ kind'[q] = "lead"
                            /\ pc'[q] \in {"find", "create", "lost"}
    BY <1>2 DEF LeadInPool
  <2>1. Joined(c)' = Joined(c)
    BY <1>2 DEF Joined
  <2>2. CASE ~Joined(c)
    <3>1. PICK q \in Requests : caller[q] = c /\ kind[q] = "lead" /\ pc[q] \in {"find", "create", "lost"}
      BY <2>2 DEF PoolInv, LeadInPool
    <3>2. q # r
      BY <2>2, <3>1 DEF Insertable
    <3> QED
      BY <1>1, <1>2, <3>1, <3>2 DEF Moves
  <2> QED
    BY <2>1, <2>2
<1>5. leads \subseteq leads' /\ leads' \subseteq Customers /\ pc[r] \notin Ended /\ pc'[r] \notin Running
  BY <1>1, <1>2 DEF PoolInv, TypeOK, Ended, Running
<1> QED
  BY <1>1, <1>2, <1>3, <1>4, <1>5, PlainMove
LEMMA TargetsAre == ASSUME LifecycleAssumption PROVE Targets \subseteq Int /\ NewRequired \in Targets
<1>1. \A f \in Forms : "required" \in DOMAIN f.set => f.set["required"] \in Column["required"]
  BY DEF LifecycleAssumption
<1>2. Column["required"] = Int
  BY DEF Column
<1> QED
  BY <1>1, <1>2 DEF Targets, LifecycleAssumption

LEMMA ReachedStays ==
  ASSUME LifecycleAssumption, Reached, Cardinality(EverJoined) \in Nat,
         Cardinality(EverJoined') \in Nat, Cardinality(EverJoined) <= Cardinality(EverJoined')
  PROVE  Reached'
<1>1. PICK t \in Targets : Cardinality(EverJoined) >= t
  BY DEF Reached
<1>2. Cardinality(EverJoined') >= t
  BY <1>1, TargetsAre
<1>3. Targets' = Targets
  BY DEF Targets
<1> QED
  BY <1>1, <1>2, <1>3 DEF Reached

LEMMA JoinKeeps ==
  ASSUME LifecycleAssumption, MatchAssumption, LifeInv, AsAsked, PoolInv,
         NEW r \in Requests, pc[r] = "create", Insertable(caller[r]), interests' = WithInterest(caller[r]),
         Goto(r, "count"), UNCHANGED <<lifeVars, accounts, leads, kind, caller>>
  PROVE  LifeInv' /\ AsAsked' /\ PoolInv'
<1> DEFINE c == caller[r]
<1>1. /\ Moves(r) /\ pc'[r] = "count"
      /\ \A q \in Requests : q # r => pc'[q] = pc[q] /\ tally'[q] = tally[q]
  BY GotoMoves DEF PoolInv, Running, Moves
<1>2. /\ LifeInv' /\ AsAsked' /\ UNCHANGED <<day, offer, wpc>>
      /\ EditOnRecord' = EditOnRecord /\ Untouched' = Untouched
  BY SameLife
<1>3. c \in Customers /\ c \in accounts /\ c \notin Pool /\ offer # Absent
  BY DEF PoolInv, TypeOK, Insertable, Joined, Pool
<1>4. Pool' = Pool \cup {c} /\ EverJoined' = EverJoined \cup {c}
  BY DEF Pool, EverJoined, WithInterest
<1>5. interests'[c] = "INTERESTED" /\ \A d \in Pool : interests'[d] = interests[d]
  BY <1>3 DEF WithInterest, Pool
<1>6. TypeOK'
  <2>1. LifeTypeOK'
    BY <1>2 DEF LifeInv
  <2>2. \A d \in Pool' : d \in Customers /\ interests'[d] \in InterestStatus
    BY <1>3, <1>4, <1>5 DEF PoolInv, TypeOK, InterestStatus, Pool
  <2> QED
    BY <1>1, <2>1, <2>2 DEF PoolInv, TypeOK, Moves, Pool
<1> HIDE DEF c
<1>7. /\ Cardinality(EverJoined) \in Nat /\ Cardinality(EverJoined') \in Nat
      /\ Cardinality(EverJoined) <= Cardinality(EverJoined')
      /\ Cardinality(Pool) \in Nat /\ Cardinality(Pool') \in Nat
      /\ Cardinality(Pool) <= Cardinality(Pool')
  <2>1. EverJoined \subseteq EverJoined' /\ EverJoined' \subseteq Customers
    BY <1>3, <1>4, Joining DEF PoolInv
  <2>2. Pool \subseteq Pool' /\ Pool' \subseteq Customers
    BY <1>3, <1>4, Joining DEF PoolInv
  <2> QED
    BY <2>1, <2>2, Sizes
<1>8. wpc[Creator] # "new"
  BY DEF PoolInv, Walking, UnderWay, Running
<1>9. Walking'
  BY <1>1, <1>2, <1>8 DEF PoolInv, Walking
<1>10. Readying' = Readying /\ Closing' = Closing
  BY <1>1 DEF Readying, Closing
<1>11. Early'
  <2>1. offer.joined <= Cardinality(EverJoined) /\ offer.joined \in Nat
    BY <1>2, <1>3 DEF PoolInv, Early, LifeInv, LifeTypeOK, Offer
  <2>2. \A q \in Requests : pc'[q] = "update" => tally'[q] <= Cardinality(EverJoined')
    <3>1. ASSUME NEW q \in Requests, pc'[q] = "update" PROVE tally'[q] <= Cardinality(EverJoined')
      <4>1. tally'[q] = tally[q] /\ tally[q] <= Cardinality(EverJoined) /\ tally[q] \in Nat
        BY <1>1, <1>3, <3>1 DEF PoolInv, Early, TypeOK
      <4> QED
        BY <1>7, <4>1
    <3> QED
      BY <3>1
  <2>3. Reached => Reached'
    BY <1>7, ReachedStays
  <2> QED
    BY <1>2, <1>3, <1>7, <1>10, <2>1, <2>2, <2>3 DEF PoolInv, Early
<1>12. LeadInPool'
  BY <1>1, <1>2, <1>4 DEF PoolInv, LeadInPool, Joined, Pool, Moves, c
<1>13. \A q \in Requests : Filling(q) => Filling(q)'
  BY <1>1 DEF Filling, Moves
<1>14. c \in leads \/ Filling(r)'
  <2>1. kind[r] = "lead" => c \in leads
    BY DEF PoolInv, Walking, c
  <2>2. kind[r] \in {"interest", "lead"}
    BY DEF PoolInv, TypeOK
  <2> QED
    BY <1>1, <2>1, <2>2 DEF Filling
<1>15. NothingLost' => NothingLost
  BY <1>1, LostStays DEF PoolInv, Ended
<1>16. Together'
  <2> SUFFICES ASSUME NothingLost, ~EditOnRecord, ~ClosedByHand, "INTERESTED" \notin InterestUpdates
               PROVE  /\ offer.status = "CLOSED" \/ Readying \/ Closing => Cardinality(Pool') >= NewRequired
                      /\ offer.status = "CLOSED" \/ Closing =>
                           \A d \in Pool' : interests'[d] = "INTERESTED" =>
                               d \in leads \/ \E q \in Requests : Filling(q)'
    BY <1>2, <1>3, <1>10, <1>15 DEF Together
  <2>1. NewRequired \in Int
    BY DEF LifecycleAssumption
  <2> QED
    BY <1>3, <1>4, <1>5, <1>7, <1>13, <1>14, <2>1 DEF PoolInv, Together
<1>17. Full'
  BY <1>14 DEF Full, Pool
<1> QED
  BY <1>2, <1>6, <1>9, <1>11, <1>12, <1>16, <1>17 DEF PoolInv
LEMMA TallyKeeps ==
  ASSUME LifecycleAssumption, MatchAssumption, LifeInv, AsAsked, PoolInv,
         NEW r \in Requests, CountInterests(r)
  PROVE  LifeInv' /\ AsAsked' /\ PoolInv'
<1>1. /\ pc[r] = "count" /\ pc' = [pc EXCEPT ![r] = "update"]
      /\ tally' = [tally EXCEPT ![r] = Cardinality(Pool)]
      /\ UNCHANGED <<lifeVars, accounts, interests, leads, kind, caller>>
  BY DEF CountInterests, OnlyRequests, poolVars
<1>2. /\ Cardinality(Pool) \in Nat /\ Cardinality(EverJoined) \in Nat
      /\ Cardinality(Pool) <= Cardinality(EverJoined)
  BY Joining, Sizes DEF PoolInv
<1>3. /\ Moves(r) /\ pc'[r] = "update" /\ tally'[r] = Cardinality(Pool)
      /\ \A q \in Requests : q # r => pc'[q] = pc[q] /\ tally'[q] = tally[q]
  BY <1>1, <1>2 DEF PoolInv, TypeOK, Moves, Running
<1>4. /\ LifeInv' /\ AsAsked' /\ UNCHANGED <<day, offer, wpc>>
      /\ EditOnRecord' = EditOnRecord /\ Untouched' = Untouched
  BY <1>1, SameLife
<1>5. Pool' = Pool /\ EverJoined' = EverJoined
  BY <1>1 DEF Pool, EverJoined
<1>6. TypeOK'
  <2>1. LifeTypeOK'
    BY <1>4 DEF LifeInv
  <2> QED
    BY <1>1, <1>3, <2>1 DEF PoolInv, TypeOK, Moves
<1>7. wpc[Creator] # "new"
  BY <1>1 DEF PoolInv, Walking, UnderWay, Running
<1>8. Walking'
  BY <1>1, <1>3, <1>4, <1>7 DEF PoolInv, Walking
<1>9. Readying' = Readying /\ Closing' = Closing
  BY <1>1, <1>3 DEF Readying, Closing
<1>10. Early'
  BY <1>2, <1>3, <1>4, <1>5, <1>9 DEF PoolInv, Early, Reached
<1>11. LeadInPool'
  BY <1>1, <1>3, <1>4, <1>5 DEF PoolInv, LeadInPool, Joined, Pool
<1>12. NothingLost' => NothingLost
  BY <1>1, <1>3, LostStays DEF PoolInv, Ended
<1>13. ASSUME NEW q \in Requests, Filling(q), Cardinality(Pool) >= NewRequired PROVE Filling(q)'
  BY <1>1, <1>3, <1>13 DEF Filling
<1>14. Together'
  BY <1>1, <1>4, <1>5, <1>9, <1>12, <1>13 DEF PoolInv, Together
<1>15. Full'
  BY <1>1, <1>4, <1>5, <1>9, <1>12, <1>13 DEF PoolInv, Full
<1> QED
  BY <1>4, <1>6, <1>8, <1>10, <1>11, <1>14, <1>15 DEF PoolInv

\* A request writes joined_people or the status: nothing a writer knows of.
LEMMA RowKeeps ==
  ASSUME LifecycleAssumption, LifeInv, AsAsked, offer \in Offer, offer' \in Offer,
         offer'.status = "EXPIRED" => offer.status = "EXPIRED",
         offer'.required = offer.required, offer'.end = offer.end,
         UNCHANGED <<day, versions, writerVars, crashes>>
  PROVE  /\ LifeInv' /\ AsAsked' /\ offer # Absent /\ offer' # Absent
         /\ EditOnRecord' = EditOnRecord /\ Untouched' = Untouched /\ UNCHANGED <<day, wpc>>
<1>1. UNCHANGED <<day, versions, wpc, form, read, began, counted, crashes>>
  BY DEF writerVars
<1>2. offer # Absent /\ offer' # Absent
  BY DEF LifecycleAssumption
<1>3. LifeTypeOK'
  BY <1>1 DEF LifeInv, LifeTypeOK
<1>4. Standing' /\ Unborn' /\ Counting' /\ VersionNumbers'
  BY <1>1, <1>2 DEF LifeInv, Standing, Unborn, Counting, VersionNumbers
<1>5. Recorded' /\ ExpiryOnRecord'
  BY <1>1, <1>2 DEF LifeInv, Recorded, OnRecord, EditOnRecord, Overdue, ExpiryOnRecord
<1>6. EditOnRecord' = EditOnRecord /\ Untouched' = Untouched
  BY <1>1 DEF EditOnRecord, Untouched
<1>7. AsAsked'
  BY <1>1, <1>2, <1>6 DEF AsAsked
<1> QED
  BY <1>1, <1>2, <1>3, <1>4, <1>5, <1>6, <1>7 DEF LifeInv

\* What a request's write to the row keeps, whichever it is.
LEMMA RowMoveKeeps ==
  ASSUME LifecycleAssumption, MatchAssumption, LifeInv, AsAsked, PoolInv,
         NEW r \in Requests, pc[r] \in {"update", "close"}, Moves(r),
         pc'[r] \in {"ready", "joined"}, pc'[r] = "ready" => kind[r] = "interest",
         UNCHANGED <<accounts, interests, leads, wpc>>, LifeInv', offer # Absent
  PROVE  /\ TypeOK' /\ Walking' /\ LeadInPool' /\ (NothingLost' => NothingLost)
         /\ Pool' = Pool /\ EverJoined' = EverJoined
         /\ \A q \in Requests : q # r => (Filling(q) => Filling(q)')
         /\ \A q \in Requests : q # r => pc'[q] = pc[q] /\ tally'[q] = tally[q]
<1>1. /\ \A q \in Requests : q # r => pc'[q] = pc[q] /\ tally'[q] = tally[q]
      /\ UNCHANGED <<kind, caller>>
  BY DEF Moves
<1>2. Pool' = Pool /\ EverJoined' = EverJoined
  BY DEF Pool, EverJoined
<1>3. TypeOK'
  <2>1. LifeTypeOK'
    BY DEF LifeInv
  <2> QED
    BY <2>1 DEF PoolInv, TypeOK, Moves
<1>4. wpc[Creator] # "new"
  BY DEF PoolInv, Walking, UnderWay, Running
<1>5. Walking'
  BY <1>1, <1>4 DEF PoolInv, Walking
<1>6. LeadInPool'
  BY <1>1, <1>2 DEF PoolInv, LeadInPool, Joined, Pool
<1>7. NothingLost' => NothingLost
  BY LostStays DEF PoolInv, Ended
<1>8. \A q \in Requests : q # r => (Filling(q) => Filling(q)')
  BY <1>1 DEF Filling
<1> QED
  BY <1>1, <1>2, <1>3, <1>5, <1>6, <1>7, <1>8

LEMMA UpdateJoinedKeeps ==
  ASSUME LifecycleAssumption, MatchAssumption, LifeInv, AsAsked, PoolInv,
         NEW r \in Requests, UpdateJoined(r)
  PROVE  LifeInv' /\ AsAsked' /\ PoolInv'
<1>1. /\ pc[r] = "update"
      /\ UNCHANGED <<day, versions, writerVars, crashes, accounts, interests, leads, kind, caller>>
  BY DEF UpdateJoined, poolVars
<1>2. CASE offer = Absent /\ Finish(r, "failed") /\ UNCHANGED offer
  <2>1. UNCHANGED <<lifeVars, poolVars, kind, caller>>
    BY <1>1, <1>2 DEF lifeVars, poolVars
  <2> QED
    BY <1>1, <1>2, <2>1, FailureKeeps
<1>3. ASSUME offer # Absent, offer' = [offer EXCEPT !.joined = tally[r]],
             IF kind[r] = "interest" /\ TargetReached(tally[r], offer.required)
             THEN Goto(r, "ready") ELSE Finish(r, "joined")
      PROVE  LifeInv' /\ AsAsked' /\ PoolInv'
  <2>1. offer \in Offer /\ tally[r] \in Nat /\ TypeOK /\ offer.required \in Int
    BY <1>3, LifeTypes DEF PoolInv, TypeOK, Offer
  <2>2. /\ offer' \in Offer /\ offer'.joined = tally[r] /\ offer'.status = offer.status
        /\ offer'.required = offer.required /\ offer'.end = offer.end
    BY <1>3, <2>1 DEF Offer
  <2>3. /\ LifeInv' /\ AsAsked' /\ offer' # Absent /\ UNCHANGED <<day, wpc>>
        /\ EditOnRecord' = EditOnRecord /\ Untouched' = Untouched
    BY <1>1, <2>1, <2>2, RowKeeps
  <2>4. /\ Moves(r) /\ pc'[r] \in {"ready", "joined"}
        /\ pc'[r] = "ready" <=> kind[r] = "interest" /\ tally[r] >= offer.required
    <3>1. CASE kind[r] = "interest" /\ tally[r] >= offer.required
      BY <1>1, <1>3, <2>1, <3>1, GotoMoves DEF TargetReached, Running
    <3>2. CASE ~(kind[r] = "interest" /\ tally[r] >= offer.required)
      BY <1>1, <1>3, <2>1, <3>2, FinishMoves DEF TargetReached, Ended
    <3> QED
      BY <3>1, <3>2
  <2>5. /\ TypeOK' /\ Walking' /\ LeadInPool' /\ (NothingLost' => NothingLost)
        /\ Pool' = Pool /\ EverJoined' = EverJoined
        /\ \A q \in Requests : q # r => (Filling(q) => Filling(q)')
        /\ \A q \in Requests : q # r => pc'[q] = pc[q] /\ tally'[q] = tally[q]
    BY <1>1, <1>3, <2>3, <2>4, RowMoveKeeps
  <2>6. tally[r] <= Cardinality(EverJoined) /\ Cardinality(EverJoined) \in Nat
    BY <1>1, <1>3, Joining, Sizes DEF PoolInv, Early
  <2>7. Closing' = Closing /\ (Readying' => Readying \/ tally[r] >= offer.required)
    BY <1>1, <2>4, <2>5 DEF Closing, Readying
  <2>8. Early'
    <3>1. tally[r] >= offer.required => Reached
      BY <1>3, <2>1, <2>6 DEF AsAsked, Reached
    <3>2. Reached' = Reached
      BY <2>5 DEF Reached, Targets
    <3> QED
      BY <1>3, <2>2, <2>3, <2>4, <2>5, <2>6, <2>7, <3>1, <3>2 DEF PoolInv, Early
  <2>9. (Filling(r) /\ offer.required = NewRequired => Filling(r)')
    BY <1>1, <2>4, <2>5 DEF Filling, Moves
  <2>10. Together'
    <3> SUFFICES ASSUME NothingLost, ~EditOnRecord, ~ClosedByHand, "INTERESTED" \notin InterestUpdates
                 PROVE  /\ offer.status = "CLOSED" \/ Readying' \/ Closing => Cardinality(Pool) >= NewRequired
                        /\ offer.status = "CLOSED" \/ Closing =>
                             \A c \in Pool : interests[c] = "INTERESTED" =>
                                 c \in leads \/ \E q \in Requests : Filling(q)'
      BY <1>1, <2>2, <2>3, <2>5, <2>7 DEF Together
    <3>1. offer.required = NewRequired /\ EverJoined = Pool
      BY <1>3, Joining DEF AsAsked, PoolInv
    <3>2. \A q \in Requests : Filling(q) => Filling(q)'
      BY <2>5, <2>9, <3>1
    <3>3. Readying' => Readying \/ Cardinality(Pool) >= NewRequired
      BY <2>1, <2>6, <2>7, <3>1
    <3> QED
      BY <1>3, <3>2, <3>3 DEF PoolInv, Together
  <2>11. Full'
    <3> SUFFICES ASSUME NothingLost, Untouched, NewEnd >= day, leads = {}, Pool # {},
                        Cardinality(Pool) >= NewRequired
                 PROVE  offer.status = "CLOSED" \/ Closing \/ \E q \in Requests : Filling(q)'
      BY <1>1, <2>2, <2>3, <2>5, <2>7 DEF Full
    <3>1. offer.required = NewRequired
      BY <1>3 DEF AsAsked
    <3>2. \A q \in Requests : Filling(q) => Filling(q)'
      BY <2>5, <2>9, <3>1
    <3> QED
      BY <1>3, <3>2 DEF PoolInv, Full
  <2> QED
    BY <2>3, <2>5, <2>8, <2>10, <2>11 DEF PoolInv
<1> QED
  BY <1>2, <1>3 DEF UpdateJoined
LEMMA MarkReadyKeeps ==
  ASSUME LifecycleAssumption, MatchAssumption, LifeInv, AsAsked, PoolInv,
         NEW r \in Requests, MarkReady(r)
  PROVE  LifeInv' /\ AsAsked' /\ PoolInv'
<1>1. /\ pc[r] = "ready" /\ Goto(r, "close")
      /\ interests' = [c \in Pool |->
                         IF interests[c] = "INTERESTED" THEN "READY_TO_BUY" ELSE interests[c]]
      /\ UNCHANGED <<lifeVars, accounts, leads, kind, caller>>
  BY DEF MarkReady
<1>2. /\ Moves(r) /\ pc'[r] = "close"
      /\ \A q \in Requests : q # r => pc'[q] = pc[q] /\ tally'[q] = tally[q]
  BY <1>1, GotoMoves DEF PoolInv, Running, Moves
<1>3. /\ LifeInv' /\ AsAsked' /\ UNCHANGED <<day, offer, wpc>>
      /\ EditOnRecord' = EditOnRecord /\ Untouched' = Untouched
  BY <1>1, SameLife
<1>4. /\ Pool' = Pool /\ EverJoined' = EverJoined
      /\ \A c \in Pool : interests'[c] # "INTERESTED" /\ interests'[c] \in InterestStatus
  BY <1>1 DEF Pool, EverJoined, PoolInv, TypeOK, InterestStatus
<1>5. TypeOK'
  <2>1. LifeTypeOK'
    BY <1>3 DEF LifeInv
  <2> QED
    BY <1>1, <1>2, <1>4, <2>1 DEF PoolInv, TypeOK, Moves, Pool
<1>6. wpc[Creator] # "new"
  BY <1>1 DEF PoolInv, Walking, UnderWay, Running
<1>7. Walking'
  BY <1>1, <1>2, <1>3, <1>6 DEF PoolInv, Walking
<1>8. Readying /\ Closing'
  BY <1>1, <1>2 DEF Readying, Closing
<1>9. Early'
  BY <1>2, <1>3, <1>4, <1>8 DEF PoolInv, Early, Reached
<1>10. LeadInPool'
  BY <1>1, <1>2, <1>3, <1>4 DEF PoolInv, LeadInPool, Joined, Pool
<1>11. NothingLost' => NothingLost
  BY <1>1, <1>2, LostStays DEF PoolInv, Ended
<1>12. Together'
  BY <1>3, <1>4, <1>8, <1>11 DEF PoolInv, Together
<1>13. Full'
  BY <1>8 DEF Full
<1> QED
  BY <1>3, <1>5, <1>7, <1>9, <1>10, <1>12, <1>13 DEF PoolInv

LEMMA CloseOfferKeeps ==
  ASSUME LifecycleAssumption, MatchAssumption, LifeInv, AsAsked, PoolInv,
         NEW r \in Requests, CloseOffer(r)
  PROVE  LifeInv' /\ AsAsked' /\ PoolInv'
<1>1. /\ pc[r] = "close"
      /\ UNCHANGED <<day, versions, writerVars, crashes, accounts, interests, leads, kind, caller>>
  BY DEF CloseOffer, poolVars
<1>2. CASE offer = Absent /\ Finish(r, "failed") /\ UNCHANGED offer
  <2>1. UNCHANGED <<lifeVars, poolVars, kind, caller>>
    BY <1>1, <1>2 DEF lifeVars, poolVars
  <2> QED
    BY <1>1, <1>2, <2>1, FailureKeeps
<1>3. ASSUME offer # Absent, offer' = [offer EXCEPT !.status = "CLOSED"], Finish(r, "joined")
      PROVE  LifeInv' /\ AsAsked' /\ PoolInv'
  <2>1. offer \in Offer /\ TypeOK
    BY <1>3, LifeTypes DEF PoolInv
  <2>2. /\ offer' \in Offer /\ offer'.joined = offer.joined /\ offer'.status = "CLOSED"
        /\ offer'.required = offer.required /\ offer'.end = offer.end
    BY <1>3, <2>1 DEF Offer, Status
  <2>3. /\ LifeInv' /\ AsAsked' /\ offer' # Absent /\ UNCHANGED <<day, wpc>>
        /\ EditOnRecord' = EditOnRecord /\ Untouched' = Untouched
    BY <1>1, <2>1, <2>2, RowKeeps
  <2>4. Moves(r) /\ pc'[r] = "joined"
    BY <1>1, <1>3, <2>1, FinishMoves DEF Ended
  <2>5. /\ TypeOK' /\ Walking' /\ LeadInPool' /\ (NothingLost' => NothingLost)
        /\ Pool' = Pool /\ EverJoined' = EverJoined
        /\ \A q \in Requests : q # r => (Filling(q) => Filling(q)')
        /\ \A q \in Requests : q # r => pc'[q] = pc[q] /\ tally'[q] = tally[q]
    BY <1>1, <1>3, <2>3, <2>4, RowMoveKeeps
  <2>6. Closing /\ ~Filling(r)
    BY <1>1 DEF Closing, Filling
  <2>7. Early'
    <3>1. Reached' = Reached
      BY <2>5 DEF Reached, Targets
    <3> QED
      BY <1>3, <2>2, <2>4, <2>5, <2>6, <3>1 DEF PoolInv, Early
  <2>8. Together'
    BY <1>1, <1>3, <2>2, <2>3, <2>5, <2>6 DEF PoolInv, Together
  <2>9. Full'
    BY <2>2 DEF Full
  <2> QED
    BY <2>3, <2>5, <2>7, <2>8, <2>9 DEF PoolInv
<1> QED
  BY <1>2, <1>3 DEF CloseOffer

LEMMA HandleKeeps ==
  ASSUME LifecycleAssumption, MatchAssumption, LifeInv, AsAsked, PoolInv,
         NEW r \in Requests, Handle(r)
  PROVE  LifeInv' /\ AsAsked' /\ PoolInv'
<1>1. CASE CreateInterest(r)
  <2>1. CASE ~Insertable(caller[r]) /\ Finish(r, "failed") /\ UNCHANGED interests
    <3>1. pc[r] = "create" /\ UNCHANGED <<lifeVars, poolVars, kind, caller>>
      BY <1>1, <2>1 DEF CreateInterest, poolVars
    <3> QED
      BY <2>1, <3>1, FailureKeeps
  <2> QED
    BY <1>1, <2>1, JoinKeeps DEF CreateInterest
<1> QED
  BY <1>1, ReadingMoves, CreateLeadKeeps, TallyKeeps, UpdateJoinedKeeps, MarkReadyKeeps,
     CloseOfferKeeps DEF Handle

\* A merchant or the customer gives an interest row a status.
LEMMA StatusKeeps ==
  ASSUME LifecycleAssumption, MatchAssumption, LifeInv, AsAsked, PoolInv,
         NEW c \in Customers, NEW s \in InterestStatus, Joined(c),
         interests' = [interests EXCEPT ![c] = s], s = "INTERESTED" => s \in InterestUpdates,
         UNCHANGED <<lifeVars, accounts, leads, requestVars>>
  PROVE  LifeInv' /\ AsAsked' /\ PoolInv'
<1>1. UNCHANGED <<pc, kind, caller, tally>>
  BY DEF requestVars
<1>2. /\ LifeInv' /\ AsAsked' /\ UNCHANGED <<day, offer, wpc>>
      /\ EditOnRecord' = EditOnRecord /\ Untouched' = Untouched
  BY SameLife
<1>3. /\ Pool' = Pool /\ EverJoined' = EverJoined /\ UnderWay' = UnderWay
      /\ \A d \in Pool : interests'[d] = s \/ interests'[d] = interests[d]
  BY <1>1 DEF Pool, EverJoined, UnderWay
<1>4. TypeOK'
  <2>1. LifeTypeOK'
    BY <1>2 DEF LifeInv
  <2> QED
    BY <1>1, <1>3, <2>1 DEF PoolInv, TypeOK, Pool
<1>5. Readying' = Readying /\ Closing' = Closing /\ \A q \in Requests : Filling(q)' = Filling(q)
  BY <1>1 DEF Readying, Closing, Filling
<1>6. NothingLost' = NothingLost
  BY <1>1 DEF NothingLost
<1>7. Walking' /\ LeadInPool'
  BY <1>1, <1>2, <1>3 DEF PoolInv, Walking, LeadInPool, Joined, Pool
<1>8. Early'
  BY <1>1, <1>2, <1>3, <1>5 DEF PoolInv, Early, Reached
<1>9. Together' /\ Full'
  BY <1>2, <1>3, <1>5, <1>6 DEF PoolInv, Together, Full
<1> QED
  BY <1>2, <1>4, <1>7, <1>8, <1>9 DEF PoolInv

LEMMA DeleteAccountKeeps ==
  ASSUME LifecycleAssumption, MatchAssumption, LifeInv, AsAsked, PoolInv,
         NEW c \in Customers, DeleteAccount(c)
  PROVE  LifeInv' /\ AsAsked' /\ PoolInv'
<1>1. /\ c \in accounts /\ accounts' = accounts \ {c} /\ interests' = Without(c)
      /\ UNCHANGED <<lifeVars, leads, pc, kind, caller, tally>>
  BY DEF DeleteAccount, requestVars
<1>2. /\ LifeInv' /\ AsAsked' /\ UNCHANGED <<day, offer, wpc>>
      /\ EditOnRecord' = EditOnRecord /\ Untouched' = Untouched
  BY <1>1, SameLife
<1>3. /\ Pool' = Pool \ {c} /\ \A d \in Pool \ {c} : interests'[d] = interests[d]
      /\ EverJoined \subseteq EverJoined' /\ EverJoined' \subseteq Customers
      /\ UnderWay' = UnderWay
  BY <1>1 DEF Pool, EverJoined, Without, UnderWay, PoolInv, TypeOK
<1>4. TypeOK'
  <2>1. LifeTypeOK'
    BY <1>2 DEF LifeInv
  <2> QED
    BY <1>1, <1>3, <2>1 DEF PoolInv, TypeOK, Pool
<1>5. Readying' = Readying /\ Closing' = Closing
  BY <1>1 DEF Readying, Closing
<1>6. Walking'
  BY <1>1, <1>2, <1>3 DEF PoolInv, Walking
<1>7. LeadInPool'
  BY <1>1, <1>2, <1>3 DEF PoolInv, LeadInPool, Joined, Pool
<1>8. /\ Cardinality(EverJoined) \in Nat /\ Cardinality(EverJoined') \in Nat
      /\ Cardinality(EverJoined) <= Cardinality(EverJoined')
  BY <1>3, Sizes
<1>9. Early'
  <2> SUFFICES ASSUME offer # Absent
               PROVE  /\ offer.joined <= Cardinality(EverJoined')
                      /\ \A r \in Requests : pc[r] = "update" => tally[r] <= Cardinality(EverJoined')
                      /\ (offer.status = "CLOSED" /\ ~ClosedByHand) \/ Readying \/ Closing => Reached'
    BY <1>1, <1>2, <1>5 DEF Early
  <2>1. offer.joined \in Nat /\ \A r \in Requests : tally[r] \in Nat
    BY LifeTypes DEF PoolInv, TypeOK, Offer
  <2>2. Reached => Reached'
    BY <1>8, ReachedStays
  <2> QED
    BY <1>8, <2>1, <2>2 DEF PoolInv, Early
<1>10. ~NothingLost'
  BY <1>1 DEF NothingLost
<1>11. Together' /\ Full'
  BY <1>10 DEF Together, Full
<1> QED
  BY <1>2, <1>4, <1>6, <1>7, <1>9, <1>11 DEF PoolInv
-----------------------------------------------------------------------------
(* Around the requests: the offer's writers, crashes, the beginning        *)

LEMMA WriteBesidePool ==
  ASSUME LifecycleAssumption, MatchAssumption, LifeInv, AsAsked, PoolInv,
         Write, Cascade, UNCHANGED <<accounts, leads, requestVars>>
  PROVE  LifeInv' /\ AsAsked' /\ PoolInv'
<1>1. LifeInv' /\ RowStep
  BY WriteKeeps, WriteIsRowStep
<1>2. UNCHANGED <<pc, kind, caller, tally>>
  BY DEF requestVars
<1>3. /\ Readying' = Readying /\ Closing' = Closing /\ NothingLost' = NothingLost
      /\ UnderWay' = UnderWay /\ \A q \in Requests : Filling(q)' = Filling(q)
  BY <1>2 DEF Readying, Closing, NothingLost, UnderWay, Filling
<1>4. Pool' = Pool \/ (offer' = Absent /\ Pool' = {})
  BY DEF Cascade, Pool
<1>5. TypeOK'
  <2>1. LifeTypeOK'
    BY <1>1 DEF LifeInv
  <2> QED
    BY <1>2, <2>1 DEF PoolInv, TypeOK, Cascade
<1>6. Walking'
  BY <1>1, <1>2, <1>3, <1>4 DEF RowStep, PoolInv, Walking
<1>7. CASE offer' = Absent
  BY <1>1, <1>5, <1>6, <1>7 DEF RowStep, PoolInv, Early, LeadInPool, Together, Full
<1>8. CASE Born
  <2>1. UnderWay = {} /\ leads = {} /\ Pool' = {}
    BY <1>4, <1>8 DEF Born, PoolInv, Walking
  <2>2. /\ offer' # Absent /\ offer'.joined = 0 /\ offer'.status = "ACTIVE"
    BY <1>8 DEF Born, NewOffer, LifecycleAssumption, Offer, Status
  <2>3. ~Readying /\ ~Closing /\ \A q \in Requests : pc[q] # "update"
    BY <2>1 DEF Readying, Closing, UnderWay, Running
  <2>4. Early'
    <3>1. EverJoined' \subseteq Customers
      BY <1>5, <2>1 DEF TypeOK, EverJoined
    <3>2. Cardinality(EverJoined') \in Nat
      BY <3>1, Sizes
    <3> QED
      BY <1>2, <1>3, <2>2, <2>3, <3>2 DEF Early
  <2>5. LeadInPool' /\ Together' /\ Full'
    BY <1>3, <2>1, <2>2, <2>3 DEF LeadInPool, Together, Full
  <2> QED
    BY <1>1, <1>5, <1>6, <2>4, <2>5 DEF RowStep, PoolInv
<1>9. CASE Kept
  <2>1. /\ offer # Absent /\ offer' # Absent /\ offer'.joined = offer.joined
        /\ offer'.status = "CLOSED" => offer.status = "CLOSED" \/ ClosedByHand
        /\ offer.status = "CLOSED" /\ Untouched' /\ NewEnd >= day => offer'.status = "CLOSED"
    BY <1>9 DEF Kept
  <2>2. UNCHANGED interests
    BY <2>1 DEF Cascade
  <2>3. Pool' = Pool /\ EverJoined' = EverJoined
    BY <2>2 DEF Pool, EverJoined
  <2>4. Early'
    BY <1>2, <1>3, <2>1, <2>3 DEF PoolInv, Early, Reached
  <2>5. LeadInPool'
    BY <1>2, <2>1, <2>2 DEF PoolInv, LeadInPool, Joined
  <2>6. Together'
    BY <1>1, <1>3, <2>1, <2>2, <2>3 DEF RowStep, PoolInv, Together
  <2>7. Full'
    BY <1>1, <1>3, <2>1, <2>2, <2>3 DEF RowStep, PoolInv, Full
  <2> QED
    BY <1>1, <1>5, <1>6, <2>4, <2>5, <2>6, <2>7 DEF RowStep, PoolInv
<1> QED
  BY <1>1, <1>7, <1>8, <1>9 DEF RowStep

LEMMA CrashKeeps ==
  ASSUME LifecycleAssumption, MatchAssumption, LifeInv, AsAsked, PoolInv, Crash
  PROVE  LifeInv' /\ AsAsked' /\ PoolInv'
<1>1. /\ WritersLost /\ UNCHANGED <<day, offer, versions, accounts, interests, leads, kind, caller>>
      /\ pc' = [r \in Requests |-> IF r \in UnderWay THEN "lost" ELSE pc[r]]
      /\ tally' = [r \in Requests |-> 0]
      /\ crashes' \in 0 .. MaxCrashes
  BY DEF Crash, poolVars, LifeInv, LifeTypeOK, LifecycleAssumption
<1>2. LifeInv'
  BY <1>1, LossKeeps
<1>3. \A r \in Requests : /\ r \in UnderWay => pc'[r] = "lost"
                          /\ r \notin UnderWay => pc'[r] = pc[r] /\ pc[r] \in {"new"} \cup Ended
                          /\ pc'[r] \notin Running
  BY <1>1 DEF UnderWay, PoolInv, TypeOK, Running, Ended
<1>4. /\ \A w \in Writers : wpc'[w] \notin Awaits
      /\ wpc'[Creator] = "new" => wpc[Creator] = "new"
      /\ Untouched' => Untouched
  <2>1. /\ \A w \in Writers : wpc'[w] = IF w = Sweep THEN "new"
                                         ELSE IF wpc[w] \in Awaits THEN "lost" ELSE wpc[w]
    BY <1>1 DEF WritersLost, WUnderWay, Awaits
  <2> QED
    BY <2>1, WritersAre DEF Untouched, Awaits
<1>5. EditOnRecord' = EditOnRecord /\ Pool' = Pool /\ EverJoined' = EverJoined
  BY <1>1 DEF EditOnRecord, Pool, EverJoined
<1>6. AsAsked'
  BY <1>1, <1>4, <1>5, WritersAre DEF AsAsked
<1>7. TypeOK'
  <2>1. LifeTypeOK'
    BY <1>2 DEF LifeInv
  <2>2. pc' \in [Requests -> {"new"} \cup Running \cup Ended] /\ tally' \in [Requests -> Nat]
    BY <1>1 DEF PoolInv, TypeOK, Ended
  <2> QED
    BY <1>1, <2>1, <2>2 DEF PoolInv, TypeOK
<1>8. UnderWay' = {} /\ ~Readying' /\ ~Closing' /\ \A q \in Requests : ~Filling(q)' /\ pc'[q] # "update"
  BY <1>3 DEF UnderWay, Readying, Closing, Filling, Running
<1>9. Walking'
  BY <1>1, <1>3, <1>4, <1>5, <1>8 DEF PoolInv, Walking, Running
<1>10. Early'
  BY <1>1, <1>5, <1>8 DEF PoolInv, Early, Reached
<1>11. LeadInPool'
  <2>1. \A r \in Requests : pc[r] \in {"find", "create", "lost"} => pc'[r] = "lost"
    BY <1>3 DEF UnderWay, Running
  <2> QED
    BY <1>1, <1>5, <2>1 DEF PoolInv, LeadInPool, Joined
<1>12. NothingLost' => NothingLost /\ ~Readying /\ ~Closing /\ \A q \in Requests : ~Filling(q)
  <2> SUFFICES ASSUME NothingLost' PROVE UnderWay = {} /\ NothingLost
    BY DEF UnderWay, Running, Readying, Closing, Filling
  <2>1. UnderWay = {}
    BY <1>3 DEF NothingLost, UnderWay
  <2> QED
    BY <1>1, <1>3, <2>1 DEF NothingLost
<1>13. Together'
  BY <1>1, <1>5, <1>8, <1>12 DEF PoolInv, Together
<1>14. Full'
  BY <1>1, <1>4, <1>5, <1>8, <1>12 DEF PoolInv, Full
<1> QED
  BY <1>2, <1>6, <1>7, <1>9, <1>10, <1>11, <1>13, <1>14 DEF PoolInv

LEMMA Initially == ASSUME LifecycleAssumption, MatchAssumption, Init PROVE IInv
<1>1. LifeInv /\ offer = Absent
  BY LifeInitially DEF Init, LifeInit
<1>2. Pool = {} /\ UnderWay = {}
  BY DEF Init, Pool, UnderWay, Running
<1>3. TypeOK
  BY <1>1 DEF LifeInv, Init, TypeOK
<1>4. Walking
  BY <1>2 DEF Init, Walking
<1> QED
  BY <1>1, <1>3, <1>4 DEF IInv, AsAsked, Early, LeadInPool, Together, Full

LEMMA Stepwise ==
  ASSUME LifecycleAssumption, MatchAssumption, IInv, [Next]_vars
  PROVE  IInv'
<1>1. LifeInv /\ AsAsked /\ PoolInv
  BY DEF IInv, PoolInv
<1>2. CASE \E r \in Requests : Handle(r)
  BY <1>1, <1>2, HandleKeeps DEF IInv, PoolInv
<1>3. ASSUME NEW c \in Customers, DeclareReady(c) \/ DeleteAccount(c) PROVE IInv'
  <2>1. CASE DeclareReady(c)
    BY <1>1, <2>1, StatusKeeps DEF IInv, PoolInv, DeclareReady, InterestStatus
  <2> QED
    BY <1>1, <1>3, <2>1, DeleteAccountKeeps DEF IInv, PoolInv
<1>4. ASSUME NEW c \in Customers, NEW s \in InterestUpdates, UpdateInterestStatus(c, s) PROVE IInv'
  <2>1. s \in InterestStatus
    BY DEF MatchAssumption
  <2> QED
    BY <1>1, <1>4, <2>1, StatusKeeps DEF IInv, PoolInv, UpdateInterestStatus
<1>5. CASE Write /\ Cascade /\ UNCHANGED <<accounts, leads, requestVars>>
  BY <1>1, <1>5, WriteBesidePool DEF IInv, PoolInv
<1>6. CASE Crash
  BY <1>1, <1>6, CrashKeeps DEF IInv, PoolInv
<1>7. CASE UNCHANGED vars
  <2>1. UNCHANGED <<lifeVars, accounts, interests, leads, pc, kind, caller, tally>>
    BY <1>7 DEF vars, poolVars, requestVars
  <2>2. /\ LifeInv' /\ AsAsked' /\ UNCHANGED <<day, offer, wpc>>
        /\ EditOnRecord' = EditOnRecord /\ Untouched' = Untouched
    BY <1>1, <2>1, SameLife
  <2>3. TypeOK'
    <3>1. LifeTypeOK'
      BY <2>2 DEF LifeInv
    <3> QED
      BY <1>1, <2>1, <3>1 DEF PoolInv, TypeOK
  <2>4. /\ Pool' = Pool /\ EverJoined' = EverJoined /\ UnderWay' = UnderWay
        /\ Readying' = Readying /\ Closing' = Closing /\ NothingLost' = NothingLost
        /\ \A q \in Requests : Filling(q)' = Filling(q)
    BY <2>1 DEF Pool, EverJoined, UnderWay, Readying, Closing, NothingLost, Filling
  <2>5. Walking' /\ LeadInPool'
    BY <1>1, <2>1, <2>2, <2>4 DEF PoolInv, Walking, LeadInPool, Joined
  <2>6. Early' /\ Together' /\ Full'
    BY <1>1, <2>1, <2>2, <2>4 DEF PoolInv, Early, Reached, Together, Full
  <2> QED
    BY <2>2, <2>3, <2>5, <2>6 DEF IInv
<1> QED
  BY <1>2, <1>3, <1>4, <1>5, <1>6, <1>7 DEF Next

LEMMA Invariance == Spec => []IInv
<1>1. Init => IInv
  BY Initially, LifecycleAssumption, MatchAssumption
<1>2. IInv /\ [Next]_vars => IInv'
  BY Stepwise, LifecycleAssumption, MatchAssumption
<1> QED
  BY <1>1, <1>2, PTL DEF Spec

\* The offer, its pool, its leads and the requests under way hold what the
\* tables and the handlers can, whoever joins, edits, deletes and crashes.
THEOREM TypeCorrect == Spec => []TypeOK
<1>1. IInv => TypeOK
  BY DEF IInv
<1> QED
  BY <1>1, Invariance, PTL

LEMMA GoneForWriters ==
  ASSUME LifecycleAssumption, LifeInv, Write, offer' = Absent, offer = Absent => versions = <<>>
  PROVE  versions' = <<>>
<1>1. Absent \notin Offer /\ NewOffer \in Offer
  BY DEF LifecycleAssumption, NewOffer, Offer, Status
<1>2. CASE CreateOffer
  BY <1>1, <1>2 DEF CreateOffer
<1>3. ASSUME NEW w \in Writers, WriteVersion(w) PROVE versions' = <<>>
  BY <1>3 DEF WriteVersion
<1>4. ASSUME NEW w \in Writers, w # Creator, UpdateOffer(w) PROVE versions' = <<>>
  <2>1. offer # Absent => Applied(Asked(w).set, offer) \in Offer
    BY <1>4, LifeTypes, AskedIs, AppliedIs DEF UpdateOffer
  <2> QED
    BY <1>1, <1>4, <2>1 DEF UpdateOffer
<1>5. ASSUME NEW e \in Edits, DeleteRow(e) PROVE versions' = <<>>
  BY <1>5 DEF DeleteRow
<1>6. CASE FindExpiring \/ NextDay \/ (\E e \in Edits : ReadOffer(e)) \/ \E w \in Writers : CountVersions(w)
  BY <1>6 DEF FindExpiring, NextDay, ReadOffer, CountVersions
<1> QED
  BY <1>2, <1>3, <1>4, <1>5, <1>6, WritersAre DEF Write, EditStep, SweepStep

LEMMA GoneStepwise ==
  ASSUME LifecycleAssumption, IInv, NothingLeftBehind, [Next]_vars
  PROVE  NothingLeftBehind'
<1> SUFFICES ASSUME offer' = Absent PROVE versions' = <<>> /\ Pool' = {}
  BY DEF NothingLeftBehind
<1>1. CASE \E r \in Requests : Handle(r)
  <2>1. PICK r \in Requests : Handle(r)
    BY <1>1
  <2>2. offer # Absent => /\ [offer EXCEPT !.joined = tally[r]] # Absent
                         /\ [offer EXCEPT !.status = "CLOSED"] # Absent
    <3> SUFFICES ASSUME offer # Absent
                 PROVE  /\ [offer EXCEPT !.joined = tally[r]] \in Offer
                        /\ [offer EXCEPT !.status = "CLOSED"] \in Offer
      BY DEF LifecycleAssumption
    <3>1. offer \in Offer /\ tally[r] \in Nat
      BY LifeTypes DEF IInv, TypeOK
    <3> QED
      BY <3>1 DEF Offer, Status
  <2>3. CASE UpdateJoined(r) \/ CloseOffer(r)
    BY <2>2, <2>3 DEF UpdateJoined, CloseOffer, poolVars, Pool, NothingLeftBehind
  <2>4. CASE CreateInterest(r) \/ MarkReady(r)
    BY <2>4 DEF CreateInterest, MarkReady, lifeVars, Insertable, Pool, NothingLeftBehind
  <2>5. CASE ReadForInterest(r) \/ ReadForLead(r) \/ CheckLead(r) \/ ReadCustomer(r)
             \/ CreateLead(r) \/ FindInterest(r) \/ CountInterests(r)
    BY <2>5 DEF ReadForInterest, ReadForLead, CheckLead, ReadCustomer, CreateLead, FindInterest,
                CountInterests, OnlyRequests, lifeVars, poolVars, Pool, NothingLeftBehind
  <2> QED
    BY <2>1, <2>3, <2>4, <2>5 DEF Handle
<1>2. CASE \E c \in Customers : DeclareReady(c) \/ DeleteAccount(c)
  BY <1>2 DEF DeclareReady, DeleteAccount, Without, Joined, lifeVars, Pool, NothingLeftBehind
<1>3. CASE \E c \in Customers, s \in InterestUpdates : UpdateInterestStatus(c, s)
  BY <1>3 DEF UpdateInterestStatus, lifeVars
<1>4. CASE Write /\ Cascade /\ UNCHANGED <<accounts, leads, requestVars>>
  <2>1. versions' = <<>>
    BY <1>4, GoneForWriters DEF IInv, NothingLeftBehind
  <2> QED
    BY <1>4, <2>1 DEF Cascade, Pool
<1>5. CASE Crash \/ UNCHANGED vars
  BY <1>5 DEF Crash, vars, lifeVars, poolVars, Pool, NothingLeftBehind
<1> QED
  BY <1>1, <1>2, <1>3, <1>4, <1>5 DEF Next

\* permanentlyDeleteOffer takes the history and the pool with the offer, and
\* no edit, sweep or join that had read the row before brings any of it back.
THEOREM NothingEverLeftBehind == Spec => []NothingLeftBehind
<1>1. Init => NothingLeftBehind
  BY DEF Init, LifeInit, NothingLeftBehind, Pool
<1>2. IInv /\ NothingLeftBehind /\ [Next]_vars => NothingLeftBehind'
  BY GoneStepwise, LifecycleAssumption
<1> QED
  BY <1>1, <1>2, Invariance, PTL DEF Spec

\* The customers do not disturb the offer's writers: joined_people and the
\* closing, which requests write beside them, leave the numbers of the history
\* and the record of an expiry as they are.
THEOREM HistoryBesideCustomers == Spec => [](VersionNumbers /\ ExpiryOnRecord)
<1>1. IInv => VersionNumbers /\ ExpiryOnRecord
  BY DEF IInv, LifeInv
<1> QED
  BY <1>1, Invariance, PTL

\* expressInterest never writes a joined_people that counts somebody who did
\* not join, and closes no offer before as many customers have joined as it
\* asked for at some time, though it counts, compares and closes in separate
\* queries while the merchant changes the target.
THEOREM NeverClosesEarly == Spec => []NoEarlyClose
<1>1. IInv => NoEarlyClose
  BY DEF IInv, Early, Reached, NoEarlyClose
<1> QED
  BY <1>1, Invariance, PTL

\* A customer with a lead from createLead has a place in the matching pool,
\* unless the request that created the lead is on its way there or was lost.
THEOREM LeadsAlwaysInPool == Spec => []LeadInPool
<1>1. IInv => LeadInPool
  BY DEF IInv
<1> QED
  BY <1>1, Invariance, PTL

\* Whichever of several closing requests ran its updateMany of the interest
\* rows first, once all have ended nobody who joined the closed offer through
\* expressInterest is still INTERESTED.
THEOREM ReadyAlwaysTogether == Spec => []ReadyTogether
<1>1. IInv => ReadyTogether
  <2> SUFFICES ASSUME IInv, Quiet, NothingLost, offer # Absent, offer.status = "CLOSED",
                      ~ClosedByHand, \A i \in DOMAIN versions : versions[i].kind # "MERCHANT_EDIT",
                      "INTERESTED" \notin InterestUpdates, NEW c \in Pool, interests[c] = "INTERESTED"
               PROVE  c \in leads
    BY DEF ReadyTogether
  <2>1. ~EditOnRecord /\ \A r \in Requests : ~Filling(r)
    BY DEF EditOnRecord, Quiet, UnderWay, Filling, Running
  <2> QED
    BY <2>1 DEF IInv, Together
<1> QED
  BY <1>1, Invariance, PTL

\* However the counting queries of the joining requests interleave, the last
\* to join a full pool through expressInterest counts everybody, so when all
\* have ended the offer is closed.
THEOREM FullPoolAlwaysCloses == Spec => []FullPoolCloses
<1>1. IInv => FullPoolCloses
  <2> SUFFICES ASSUME IInv, Settled, leads = {}, Pool # {}, Cardinality(Pool) >= offer.required
               PROVE  offer.status = "CLOSED"
    BY DEF FullPoolCloses
  <2>1. offer # Absent /\ NothingLost /\ Untouched /\ offer.end >= day
    BY DEF Settled, Untouched
  <2>2. offer.required = NewRequired /\ offer.end = NewEnd
    BY <2>1 DEF IInv, AsAsked
  <2>3. ~Closing /\ \A r \in Requests : ~Filling(r)
    BY DEF Settled, Quiet, UnderWay, Closing, Filling, Running
  <2> QED
    BY <2>1, <2>2, <2>3 DEF IInv, Full
<1> QED
  BY <1>1, Invariance, PTL
-----------------------------------------------------------------------------
(* What is shown, for every offer, viewer, setting and filter              *)

\* getDetails gives the merchant's contact details to the offer's own
\* business and administrators, and to a customer only in the mode that the
\* setting must name exactly, when the business has an owner and the
\* customer's own lead for this very offer is on record.
THEOREM ContactOnlyWhenEntitled ==
    ASSUME NEW o, NEW business, NEW entries, NEW setting, NEW viewer,
           "contact" \in Shown!GetDetails(o, business, entries, setting, viewer).shows
    PROVE  \/ Shown!IsAdmin(viewer)
           \/ Shown!IsOwner(viewer, o) /\ business.status # "REMOVED"
           \/ /\ setting = "MERCHANT_MANAGED" /\ viewer.user # None
              /\ o.status = "ACTIVE" /\ business.status = "CLAIMED"
              /\ <<viewer.user, o.id>> \in entries
<1>1. ~Shown!Hidden(o, business, viewer) BY DEF Shown!GetDetails, Shown!NotFound
<1>2. Shown!ResolveContactAccess(viewer, o, business, Shown!HasLead(viewer, o, entries),
                           Shown!ResolveLeadFollowupMode(setting)).canSeeContact
  BY <1>1 DEF Shown!GetDetails, Shown!BuildBusinessSelect
<1>3. CASE Shown!IsAdmin(viewer) BY <1>3
<1>4. CASE Shown!IsOwner(viewer, o) /\ ~Shown!IsAdmin(viewer) BY <1>1, <1>4 DEF Shown!Hidden
<1>5. CASE ~Shown!IsOwner(viewer, o) /\ ~Shown!IsAdmin(viewer)
  <2>1. viewer.user # None /\ business.status = "CLAIMED" /\ Shown!HasLead(viewer, o, entries)
        /\ Shown!ResolveLeadFollowupMode(setting) # "ADMIN_MANAGED"
    BY <1>2, <1>5 DEF Shown!ResolveContactAccess, Shown!Withheld
  <2>2. setting = "MERCHANT_MANAGED" BY <2>1 DEF Shown!ResolveLeadFollowupMode
  <2>3. o.status = "ACTIVE" BY <1>1, <1>5 DEF Shown!Hidden
  <2> QED BY <2>1, <2>2, <2>3 DEF Shown!HasLead
<1> QED BY <1>3, <1>4, <1>5

\* Whatever the branch of resolveContactAccess, its two values and the
\* columns that were queried agree: whoever is told that the contact details
\* are available finds them on the page, and whoever finds them is told so
\* (buildBusinessSelect, decorateBusinessContact).
THEOREM NoticeTellsTheTruth ==
    ASSUME NEW o, NEW business, NEW entries, NEW setting, NEW viewer, None # "AVAILABLE"
    PROVE  LET page == Shown!GetDetails(o, business, entries, setting, viewer) IN
           /\ page.notice = "AVAILABLE" <=> "contact" \in page.shows
           /\ page.available <=> "contact" \in page.shows
<1>1. LET access == Shown!ResolveContactAccess(viewer, o, business, Shown!HasLead(viewer, o, entries),
                                               Shown!ResolveLeadFollowupMode(setting))
      IN /\ access.canSeeContact \in BOOLEAN
         /\ access.canSeeContact <=> access.notice = "AVAILABLE"
  BY DEF Shown!ResolveContactAccess, Shown!Allowed, Shown!Withheld
<1> QED
  BY <1>1 DEF Shown!GetDetails, Shown!BuildBusinessSelect, Shown!NotFound

\* Whatever is listed for someone who is not signed in can be opened by
\* anyone: listOffers and getDetails draw the same line, each by a rule of
\* its own.
THEOREM ListedCanBeOpened ==
    ASSUME NEW o, NEW business, NEW f, NEW now, NEW stranger, NEW viewer,
           stranger.user = None, Shown!MayList(f, stranger), None # "ALL",
           Shown!Selected(o, business, f, now)
    PROVE  ~Shown!Hidden(o, business, viewer)
<1>1. f.status # "ALL" /\ f.status \in {None, "ACTIVE"} BY DEF Shown!MayList
<1>2. Shown!OnSale(o, now) BY <1>1 DEF Shown!Selected, Shown!StatusAsked
<1> QED BY <1>2 DEF Shown!Hidden, Shown!OnSale, Shown!Selected

\* Two pages of one list share no row, and no page holds more than the limit
\* of the code, whatever was asked for (listOffers).
THEOREM PagesApart ==
    ASSUME NEW f, NEW g, f.limit = g.limit,
           f.limit \in Int \/ f.limit = None, f.page \in Int \/ f.page = None,
           g.page \in Int \/ g.page = None,
           Shown!PageNumber(f) < Shown!PageNumber(g),
           NEW k \in Nat, Shown!OnPage(k, f)
    PROVE  ~Shown!OnPage(k, g) /\ Shown!Take(f) \in 1 .. Shown!MAX_LIST_OFFERS_PAGE_SIZE
<1> DEFINE t == Shown!Take(f)  p == Shown!PageNumber(f)  q == Shown!PageNumber(g)
<1>1. t \in 1 .. Shown!MAX_LIST_OFFERS_PAGE_SIZE /\ Shown!Take(g) = t
  BY DEF Shown!Take, Shown!Clamp, Shown!MAX_LIST_OFFERS_PAGE_SIZE,
         Shown!DEFAULT_LIST_OFFERS_PAGE_SIZE
<1>2. p \in Int /\ q \in Int /\ p <= q - 1 BY DEF Shown!PageNumber
<1>3. (q - 1) * t >= p * t
  <2> HIDE DEF t, p, q
  <2>1. t \in Nat BY <1>1
  <2>2. (q - 1 - p) * t >= 0 BY <2>1, <1>2, SMT
  <2>3. (q - 1 - p) * t = (q - 1) * t - p * t BY <2>1, <1>2, SMT
  <2>4. (q - 1) * t \in Int /\ p * t \in Int BY <2>1, <1>2
  <2> QED BY <2>2, <2>3, <2>4
<1>4. k <= (p - 1) * t + t BY DEF Shown!OnPage, Shown!Skip
<1>5. (p - 1) * t + t = p * t
  <2> HIDE DEF t, p
  <2> QED BY <1>1, <1>2, SMT
<1>6. Shown!Skip(g) = (q - 1) * t BY <1>1 DEF Shown!Skip
<1>7. Shown!Skip(g) >= k
  <2> HIDE DEF t, p, q
  <2>1. t \in Int BY <1>1
  <2>2. p * t \in Int /\ (q - 1) * t \in Int BY <2>1, <1>2
  <2> QED BY <2>2, <1>3, <1>4, <1>5, <1>6
<1>8. Shown!Skip(g) \in Int
  <2> HIDE DEF t, p, q
  <2> QED BY <1>1, <1>2, <1>6
<1> QED BY <1>1, <1>7, <1>8 DEF Shown!OnPage
=============================================================================
