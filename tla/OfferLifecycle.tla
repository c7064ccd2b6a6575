--------------------------- MODULE OfferLifecycle ---------------------------
(***************************************************************************)
(* The life of one offer: its row, its version history and everybody who   *)
(* writes them.  Creation, the merchant's edits, the administrator's       *)
(* moderation and deletion and the hourly expiry sweep all read the row,   *)
(* count the versions, write a snapshot and update the row in separate     *)
(* queries without a transaction, so they interleave query by query.       *)
(* Calls by anyone but the offer's owner are refused at the first read and *)
(* are not enumerated.  OfferMatch adds the customers.                     *)
(***************************************************************************)
EXTENDS Integers, Sequences, FiniteSets

CONSTANTS
    Edits,        \* the calls of a behaviour that change or delete the offer
    Forms,        \* what such a call may ask for
    Creator,      \* the createOffer call
    Sweep,        \* the expiry scheduler
    Absent,       \* no row: not yet created, or permanently deleted
    NewRequired,  \* required_people and end_date of the offer as created
    NewEnd,
    MaxDay,       \* bound: the last day of a behaviour
    MaxCrashes    \* bound: crashes of the server

Status == {"DRAFT", "PENDING_APPROVAL", "ACTIVE", "EXPIRED", "CLOSED", "REJECTED",
           "PAUSED", "ARCHIVED", "APPROVED"}

Column == [status |-> Status, required |-> Int, end |-> Nat, joined |-> Nat]
Fields == DOMAIN Column
Offer == [status : Status, required : Int, end : Nat, joined : Nat]

\* A form names the kind of change and the columns it sets.
Versioned == {"MERCHANT_EDIT", "STATUS_CHANGE", "ARCHIVED", "ADMIN_MODERATION"}
Unversioned == {"MODERATE", "DELETE"}
SweepForm == [kind |-> "SYSTEM_EXPIRED", set |-> [status |-> "EXPIRED"]]
CreateForm == [kind |-> "CREATED", set |-> <<>>]
NoForm == [kind |-> "NONE", set |-> <<>>]

\* The edited row: the columns given replace those of the row.
Applied(set, row) ==
    [f \in Fields |-> IF f \in DOMAIN set THEN set[f] ELSE row[f]]

NewOffer == [status |-> "ACTIVE", required |-> NewRequired, end |-> NewEnd, joined |-> 0]

ASSUME LifecycleAssumption ==
    /\ IsFiniteSet(Edits)
    /\ {Creator, Sweep} \cap Edits = {} /\ Creator # Sweep
    /\ \A f \in Forms :
         /\ f.kind \in Versioned \cup Unversioned
         /\ DOMAIN f.set \subseteq IF f.kind = "MERCHANT_EDIT" THEN {"required", "end"}
                                  ELSE {"status"}
         /\ \A c \in DOMAIN f.set : f.set[c] \in Column[c]
    /\ NewRequired \in Int /\ NewEnd \in Nat
    /\ Absent \notin Offer
    /\ MaxDay \in Nat \ {0} /\ MaxCrashes \in Nat

Writers == Edits \cup {Creator, Sweep}

VARIABLES
    day,       \* the server's clock
    offer,     \* the Offer row
    versions,  \* its OfferVersion rows, in the order they were written
    wpc,       \* the await each writer stands at
    form,      \* what each edit under way was asked for
    read,      \* the row it has read
    began,     \* for VersionNumbers: the version rows there were at its first read
    counted,   \* the version rows it has counted
    crashes

writerVars == <<wpc, form, read, began, counted>>
lifeVars == <<day, offer, versions, writerVars, crashes>>

\* `since' is not a column: the rows its writer found when its call began.
Version == [no : Int, since : Nat, kind : {"CREATED", "SYSTEM_EXPIRED"} \cup Versioned,
            snapshot : Offer]

LifeTypeOK ==
    /\ day \in 1 .. MaxDay
    /\ offer \in Offer \cup {Absent}
    /\ versions \in Seq(Version)
    /\ wpc \in [Writers -> {"new", "count", "snapshot", "update", "delete",
                            "done", "failed", "lost"}]
    /\ form \in [Edits -> Forms \cup {NoForm}]
    /\ read \in [Writers -> Offer \cup {Absent}]
    /\ began \in [Writers -> Nat]
    /\ counted \in [Writers -> Nat]
    /\ crashes \in 0 .. MaxCrashes

LifeInit ==
    /\ day = 1
    /\ offer = Absent
    /\ versions = <<>>
    /\ wpc = [w \in Writers |-> "new"]
    /\ form = [e \in Edits |-> NoForm]
    /\ read = [w \in Writers |-> Absent]
    /\ began = [w \in Writers |-> 0]
    /\ counted = [w \in Writers |-> 0]
    /\ crashes = 0

-----------------------------------------------------------------------------
(* The shape of a writer *)

Asked(w) ==
    CASE w = Sweep -> SweepForm [] w = Creator -> CreateForm [] OTHER -> form[w]

WGoto(w, where) == wpc' = [wpc EXCEPT ![w] = where]

\* The call returns or throws.  The scheduler waits for its next hour.
WFinish(w, outcome) ==
    /\ WGoto(w, IF w = Sweep THEN "new" ELSE outcome)
    /\ read' = [read EXCEPT ![w] = Absent]
    /\ began' = [began EXCEPT ![w] = 0]
    /\ counted' = [counted EXCEPT ![w] = 0]
    /\ form' = [e \in Edits |-> IF e = w THEN NoForm ELSE form[e]]

\* createOffer: the row, published at once; its first version is a query
\* of its own.
CreateOffer ==
    /\ wpc[Creator] = "new"
    /\ offer' = NewOffer
    /\ read' = [read EXCEPT ![Creator] = NewOffer]
    /\ WGoto(Creator, "snapshot")
    /\ UNCHANGED <<day, versions, form, began, counted, crashes>>

AfterRead(kind) ==
    CASE kind \in Versioned -> "count"
      [] kind = "MODERATE" -> "update"
      [] kind = "DELETE" -> "delete"

\* The findUnique every edit starts with.
ReadOffer(e) ==
    /\ wpc[e] = "new"
    /\ \/ /\ offer = Absent
          /\ WFinish(e, "failed")
       \/ \E f \in Forms :
             /\ offer # Absent
             /\ WGoto(e, AfterRead(f.kind))
             /\ read' = [read EXCEPT ![e] = offer]
             /\ form' = [form EXCEPT ![e] = f]
             /\ began' = [began EXCEPT ![e] = Len(versions)]
             /\ UNCHANGED counted
    /\ UNCHANGED <<day, offer, versions, crashes>>

ActiveOnly(o) == o.status = "ACTIVE"
Sweepable(o) == o.status \in {"ACTIVE", "PAUSED"}

DueToday(o) == Sweepable(o) /\ o.end <= day
Overdue(o) == Sweepable(o) /\ o.end < day

\* expireOffers: the findMany.  An hour that finds nothing changes nothing.
FindExpiring ==
    /\ wpc[Sweep] = "new"
    /\ offer # Absent /\ Overdue(offer)
    /\ WGoto(Sweep, "count")
    /\ read' = [read EXCEPT ![Sweep] = offer]
    /\ began' = [began EXCEPT ![Sweep] = Len(versions)]
    /\ UNCHANGED <<day, offer, versions, form, counted, crashes>>

CountVersions(w) ==
    /\ wpc[w] = "count"
    /\ counted' = [counted EXCEPT ![w] = Len(versions)]
    /\ WGoto(w, "snapshot")
    /\ UNCHANGED <<day, offer, versions, form, read, began, crashes>>

CreationNumber(w) == 1
NextNumber(w) == counted[w] + 1

\* offerVersion.create fails on its foreign key once the offer is gone.
WriteVersion(w) ==
    /\ wpc[w] = "snapshot"
    /\ \/ /\ offer = Absent
          /\ WFinish(w, "failed")
          /\ UNCHANGED versions
       \/ /\ offer # Absent
          /\ versions' = Append(versions,
                [no |-> NextNumber(w), since |-> began[w], kind |-> Asked(w).kind, snapshot |-> read[w]])
          /\ IF w = Creator
             THEN WFinish(w, "done")
             ELSE WGoto(w, "update") /\ UNCHANGED <<read, began, counted, form>>
    /\ UNCHANGED <<day, offer, crashes>>

\* The last query: it sets the columns of the form, whatever the row has
\* become since it was read.  offer.update throws when the row is gone, the
\* sweep's updateMany does not.
UpdateOffer(w) ==
    /\ wpc[w] = "update"
    /\ \/ /\ offer = Absent
          /\ WFinish(w, "failed")
          /\ UNCHANGED offer
       \/ /\ offer # Absent
          /\ offer' = Applied(Asked(w).set, offer)
          /\ WFinish(w, "done")
    /\ UNCHANGED <<day, versions, crashes>>

\* permanentlyDeleteOffer: the versions go with the row.
DeleteRow(e) ==
    /\ wpc[e] = "delete"
    /\ \/ /\ offer = Absent
          /\ WFinish(e, "failed")
          /\ UNCHANGED <<offer, versions>>
       \/ /\ offer # Absent
          /\ offer' = Absent
          /\ versions' = <<>>
          /\ WFinish(e, "done")
    /\ UNCHANGED <<day, crashes>>

WUnderWay(w) == wpc[w] \in {"count", "snapshot", "update", "delete"}

WritersLost ==
    /\ wpc' = [w \in Writers |->
                 IF w = Sweep THEN "new" ELSE IF WUnderWay(w) THEN "lost" ELSE wpc[w]]
    /\ read' = [w \in Writers |-> Absent]
    /\ began' = [w \in Writers |-> 0]
    /\ counted' = [w \in Writers |-> 0]
    /\ form' = [e \in Edits |-> NoForm]

LifeCrash ==
    /\ crashes < MaxCrashes
    /\ \E w \in Writers : WUnderWay(w)
    /\ crashes' = crashes + 1
    /\ WritersLost
    /\ UNCHANGED <<day, offer, versions>>

NextDay ==
    /\ day < MaxDay
    /\ day' = day + 1
    /\ UNCHANGED <<offer, versions, writerVars, crashes>>

SweepStep == FindExpiring \/ CountVersions(Sweep) \/ WriteVersion(Sweep) \/ UpdateOffer(Sweep)

EditStep(e) ==
    ReadOffer(e) \/ CountVersions(e) \/ WriteVersion(e) \/ UpdateOffer(e) \/ DeleteRow(e)

Write ==
    \/ CreateOffer \/ WriteVersion(Creator)
    \/ \E e \in Edits : EditStep(e)
    \/ SweepStep
    \/ NextDay

LifeNext == Write \/ LifeCrash

\* The scheduler runs every hour for as long as the server does.
LifeSpec == LifeInit /\ [][LifeNext]_lifeVars /\ WF_lifeVars(SweepStep)

-----------------------------------------------------------------------------
(* Properties *)

\* version_no, counted in one query and used in another, is never ahead of
\* the row's place in the history, and above that of every row that was
\* there when its own writer's call began (updateOffer, expireOffers):
\* rows share a number only when their writers overlapped.
VersionNumbers ==
    \A j \in DOMAIN versions :
        /\ versions[j].no \in 1 .. j
        /\ \A i \in 1 .. j - 1 :
             i <= versions[j].since => versions[i].no < versions[j].no

\* A form through which the administrator expires an offer by hand.
ExpiredByHand == \E f \in Forms : "status" \in DOMAIN f.set /\ f.set["status"] = "EXPIRED"

\* An expired offer has a history row of the live, overdue offer the sweep
\* found (expireOffers, versions before updateMany), also when another
\* writer or a crash came between.
ExpiryOnRecord ==
    offer # Absent /\ offer.status = "EXPIRED" /\ ~ExpiredByHand =>
        \E i \in DOMAIN versions :
            /\ versions[i].kind = "SYSTEM_EXPIRED"
            /\ versions[i].snapshot.status \in {"ACTIVE", "PAUSED"}
            /\ versions[i].snapshot.end < day

\* An offer past its end does not stay on sale: the sweep expires it or its
\* owner changes it, whatever writers and crashes come between.
OnSaleOverdue ==
    offer # Absent /\ offer.status \in {"ACTIVE", "PAUSED"} /\ offer.end < day
EventuallyOffSale == OnSaleOverdue ~> ~OnSaleOverdue
=============================================================================
