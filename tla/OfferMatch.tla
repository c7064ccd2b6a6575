----------------------------- MODULE OfferMatch -----------------------------
(***************************************************************************)
(* Customers join an offer: Show Interest as a matching pool               *)
(* (expressInterest) and as a lead (createLead), beside everything         *)
(* OfferLifecycle does to the offer.  A request stops at every await of    *)
(* its handler.  Notifications and SMS cannot fail a handler (they catch   *)
(* their errors), so they are only the time that passes between two        *)
(* queries.                                                                *)
(***************************************************************************)
EXTENDS OfferLifecycle

CONSTANTS
    Customers,
    Requests,         \* the Show Interest requests of a behaviour
    Legacy,           \* is the offer's type one of the matching types
    InterestUpdates,  \* the statuses a merchant gives an interest row
    MaxInFlight       \* bound: requests under way together

InterestStatus == {"INTERESTED", "READY_TO_BUY", "CONTACTED", "COMPLETED", "CANCELLED"}

ASSUME MatchAssumption ==
    /\ IsFiniteSet(Requests) /\ IsFiniteSet(Customers)
    /\ Legacy \in BOOLEAN
    /\ InterestUpdates \subseteq InterestStatus
    /\ MaxInFlight \in Nat \ {0}

VARIABLES
    accounts,   \* the customers that have an account
    interests,  \* OfferInterest: customer -> status
    leads,      \* the customers with a Lead for the offer
    pc,         \* the await each request stands at
    kind,       \* expressInterest or createLead
    caller,     \* the customer each request speaks for
    tally       \* the interest rows it has counted

poolVars == <<accounts, interests, leads>>
requestVars == <<pc, kind, caller, tally>>
vars == <<lifeVars, poolVars, requestVars>>

Running == {"customer", "lead", "join", "find", "create", "count", "update", "ready", "close"}
Ended == {"joined", "already", "refused", "failed", "lost"}

TypeOK ==
    /\ LifeTypeOK
    /\ accounts \subseteq Customers
    /\ DOMAIN interests \subseteq Customers
    /\ \A c \in DOMAIN interests : interests[c] \in InterestStatus
    /\ leads \subseteq Customers
    /\ pc \in [Requests -> {"new"} \cup Running \cup Ended]
    /\ kind \in [Requests -> {"interest", "lead"}]
    /\ caller \in [Requests -> Customers]
    /\ tally \in [Requests -> Nat]

Init ==
    /\ LifeInit
    /\ accounts = Customers
    /\ interests = <<>>
    /\ leads = {}
    /\ pc = [r \in Requests |-> "new"]
    /\ kind \in [Requests -> {"interest", "lead"}]
    /\ caller \in [Requests -> Customers]
    /\ tally = [r \in Requests |-> 0]

-----------------------------------------------------------------------------
(* The shape of a request *)

UnderWay == {r \in Requests : pc[r] \in Running}

Goto(r, where) ==
    /\ pc' = [pc EXCEPT ![r] = where]
    /\ UNCHANGED tally

\* The handler returns or throws.
Finish(r, outcome) ==
    /\ pc' = [pc EXCEPT ![r] = outcome]
    /\ tally' = [tally EXCEPT ![r] = 0]

\* OfferInterest is unique per offer and customer.
Joined(c) == c \in DOMAIN interests
Pool == DOMAIN interests
WithInterest(c) == [d \in Pool \cup {c} |-> IF d = c THEN "INTERESTED" ELSE interests[d]]
SoftDeleted(c) == [d \in Pool |-> IF d = c THEN "DELETED" ELSE interests[d]]
Without(c) == [d \in Pool \ {c} |-> interests[d]]

OnlyRequests == UNCHANGED <<lifeVars, poolVars, kind, caller>>

-----------------------------------------------------------------------------
(* Both handlers start with the offer's row; only expressInterest asks     *)
(* whether it is on sale.                                                  *)

ReadForInterest(r) ==
    /\ pc[r] = "new" /\ kind[r] = "interest"
    /\ Cardinality(UnderWay) < MaxInFlight
    /\ IF offer # Absent /\ offer.status = "ACTIVE"
       THEN Goto(r, "find")
       ELSE Finish(r, "refused")
    /\ OnlyRequests

ReadForLead(r) ==
    /\ pc[r] = "new" /\ kind[r] = "lead"
    /\ Cardinality(UnderWay) < MaxInFlight
    /\ IF offer # Absent
       THEN Goto(r, "customer")
       ELSE Finish(r, "refused")
    /\ OnlyRequests

\* createLead: a customer with a lead is refused, a deleted account too.
CheckLead(r) ==
    /\ pc[r] = "customer"
    /\ IF caller[r] \notin leads
       THEN Goto(r, "lead")
       ELSE Finish(r, "refused")
    /\ OnlyRequests

ReadCustomer(r) ==
    /\ pc[r] = "lead"
    /\ IF caller[r] \in accounts
       THEN Goto(r, "join")
       ELSE Finish(r, "refused")
    /\ OnlyRequests

\* lead.create: unique per customer and offer, with no reference to either
\* row.  Only the matching types go on to the pool.
CreateLead(r) ==
    /\ pc[r] = "join"
    /\ \/ /\ caller[r] \in leads
          /\ Finish(r, "failed")
          /\ UNCHANGED leads
       \/ /\ caller[r] \notin leads
          /\ leads' = leads \cup {caller[r]}
          /\ IF Legacy THEN Goto(r, "find") ELSE Finish(r, "joined")
    /\ UNCHANGED <<lifeVars, accounts, interests, kind, caller>>

-----------------------------------------------------------------------------
(* Joining the pool, the same four queries in both handlers *)

FindInterest(r) ==
    /\ pc[r] = "find"
    /\ IF Joined(caller[r]) THEN Finish(r, "already") ELSE Goto(r, "create")
    /\ OnlyRequests

InsertableOnSale(c) ==
    ~Joined(c) /\ offer # Absent /\ offer.status = "ACTIVE" /\ c \in accounts
InsertableUnreferenced(c) == ~Joined(c) /\ c \in accounts
Insertable(c) == ~Joined(c) /\ offer # Absent /\ c \in accounts

\* The insert fails when the row exists by now, or the offer or the
\* customer no longer does.
CreateInterest(r) ==
    /\ pc[r] = "create"
    /\ \/ /\ ~Insertable(caller[r])
          /\ Finish(r, "failed")
          /\ UNCHANGED interests
       \/ /\ Insertable(caller[r])
          /\ interests' = WithInterest(caller[r])
          /\ Goto(r, "count")
    /\ UNCHANGED <<lifeVars, accounts, leads, kind, caller>>

CountInterests(r) ==
    /\ pc[r] = "count"
    /\ tally' = [tally EXCEPT ![r] = Cardinality(Pool)]
    /\ pc' = [pc EXCEPT ![r] = "update"]
    /\ OnlyRequests

ExactTarget(joined, required) == joined = required
TargetExceeded(joined, required) == joined > required
TargetPassed(joined, required) == joined + 1 >= required
TargetReached(joined, required) == joined >= required

\* joined_people becomes what was counted; expressInterest compares it with
\* the required_people of the row the update returns.
UpdateJoined(r) ==
    /\ pc[r] = "update"
    /\ \/ /\ offer = Absent
          /\ Finish(r, "failed")
          /\ UNCHANGED offer
       \/ /\ offer # Absent
          /\ offer' = [offer EXCEPT !.joined = tally[r]]
          /\ IF kind[r] = "interest" /\ TargetReached(tally[r], offer.required)
             THEN Goto(r, "ready")
             ELSE Finish(r, "joined")
    /\ UNCHANGED <<day, versions, writerVars, crashes, poolVars, kind, caller>>

\* The target is reached: everybody still INTERESTED is ready to buy, and
\* the offer closes whatever its status has become.
MarkReady(r) ==
    /\ pc[r] = "ready"
    /\ interests' = [c \in Pool |->
                       IF interests[c] = "INTERESTED" THEN "READY_TO_BUY" ELSE interests[c]]
    /\ Goto(r, "close")
    /\ UNCHANGED <<lifeVars, accounts, leads, kind, caller>>

CloseOffer(r) ==
    /\ pc[r] = "close"
    /\ \/ /\ offer = Absent
          /\ Finish(r, "failed")
          /\ UNCHANGED offer
       \/ /\ offer # Absent
          /\ offer' = [offer EXCEPT !.status = "CLOSED"]
          /\ Finish(r, "joined")
    /\ UNCHANGED <<day, versions, writerVars, crashes, poolVars, kind, caller>>

-----------------------------------------------------------------------------
(* Around the requests *)

\* declareReadyToBuy and updateInterestStatus read the row and then set its
\* status: what they read decides nothing else.
DeclareReady(c) ==
    /\ Joined(c)
    /\ interests' = [interests EXCEPT ![c] = "READY_TO_BUY"]
    /\ UNCHANGED <<lifeVars, accounts, leads, requestVars>>

UpdateInterestStatus(c, status) ==
    /\ Joined(c) /\ offer # Absent
    /\ interests' = [interests EXCEPT ![c] = status]
    /\ UNCHANGED <<lifeVars, accounts, leads, requestVars>>

\* deleteAccount: the interest row goes with the customer, the lead stays.
DeleteAccount(c) ==
    /\ c \in accounts
    /\ accounts' = accounts \ {c}
    /\ interests' = Without(c)
    /\ UNCHANGED <<lifeVars, leads, requestVars>>

\* Deleting the offer deletes its interest rows too.
Cascade == interests' = IF offer' = Absent THEN <<>> ELSE interests

Crash ==
    /\ crashes < MaxCrashes
    /\ UnderWay # {} \/ \E w \in Writers : WUnderWay(w)
    /\ crashes' = crashes + 1
    /\ WritersLost
    /\ pc' = [r \in Requests |-> IF r \in UnderWay THEN "lost" ELSE pc[r]]
    /\ tally' = [r \in Requests |-> 0]
    /\ UNCHANGED <<day, offer, versions, poolVars, kind, caller>>

Handle(r) ==
    \/ ReadForInterest(r) \/ ReadForLead(r) \/ CheckLead(r) \/ ReadCustomer(r) \/ CreateLead(r)
    \/ FindInterest(r) \/ CreateInterest(r) \/ CountInterests(r) \/ UpdateJoined(r)
    \/ MarkReady(r) \/ CloseOffer(r)

Next ==
    \/ \E r \in Requests : Handle(r)
    \/ \E c \in Customers : DeclareReady(c) \/ DeleteAccount(c)
    \/ \E c \in Customers, s \in InterestUpdates : UpdateInterestStatus(c, s)
    \/ Write /\ Cascade /\ UNCHANGED <<accounts, leads, requestVars>>
    \/ Crash

Spec == Init /\ [][Next]_vars

-----------------------------------------------------------------------------
(* Properties *)

\* Customers that have joined at some time; a deleted account may have.
EverJoined == Pool \cup (Customers \ accounts)

\* Forms through which the administrator sets the status by hand, and the
\* targets an offer can have.
ClosedByHand == \E f \in Forms : "status" \in DOMAIN f.set /\ f.set["status"] = "CLOSED"
Targets == {NewRequired} \cup {f.set["required"] : f \in {g \in Forms : "required" \in DOMAIN g.set}}

\* joined_people may lag behind the pool, since it is counted in one query
\* and written in another (expressInterest, createLead), but it never
\* counts somebody who did not join, and matching closes no offer before as
\* many customers have joined as it asked for at some time.
NoEarlyClose ==
    offer # Absent =>
        /\ offer.joined <= Cardinality(EverJoined)
        /\ offer.status = "CLOSED" /\ ~ClosedByHand =>
               \E t \in Targets : Cardinality(EverJoined) >= t

\* A lead on an offer of a matching type has its place in the pool, unless
\* the request that created it is still on its way there or was lost.
LeadInPool ==
    Legacy /\ offer # Absent =>
        \A c \in leads \cap accounts :
            \/ Joined(c)
            \/ \E r \in Requests :
                  /\ caller[r] = c /\ kind[r] = "lead"
                  /\ pc[r] \in {"find", "create", "lost"}

\* Deletion for good leaves nothing of the offer but its leads: an edit, a
\* sweep or a join that read the row before permanentlyDeleteOffer brings
\* back neither a version nor a place in the pool.
NothingLeftBehind == offer = Absent => versions = <<>> /\ Pool = {}

Quiet == UnderWay = {} /\ ~\E w \in Writers : WUnderWay(w)
NothingLost == accounts = Customers /\ \A r \in Requests : pc[r] \notin {"lost", "failed"}

\* When everything has settled and nothing was lost, nobody who joined a
\* closed offer through expressInterest is left INTERESTED, unless a merchant
\* sets a row back: whoever came after the updateMany of one closing request
\* closed the offer again.
ReadyTogether ==
    /\ Quiet /\ NothingLost
    /\ offer # Absent /\ offer.status = "CLOSED" /\ ~ClosedByHand
    /\ \A i \in DOMAIN versions : versions[i].kind # "MERCHANT_EDIT"
    /\ "INTERESTED" \notin InterestUpdates
    => \A c \in Pool : interests[c] = "INTERESTED" => c \in leads

\* The pool is settled on an offer that is not due and nobody else has touched.
Settled ==
    /\ Quiet /\ NothingLost
    /\ \A e \in Edits : wpc[e] = "new"
    /\ offer # Absent /\ offer.end >= day

\* A full pool closes the offer when it filled through expressInterest:
\* the last to join counts everybody.
FullPoolCloses ==
    Settled /\ leads = {} /\ Pool # {} /\ Cardinality(Pool) >= offer.required
      => offer.status = "CLOSED"

\* createLead on the matching pool of legacy offers: "capacity tracking,
\* chat, auto-close on capacity reached - all handled elsewhere".
AutoClosed ==
    Settled /\ Legacy /\ Cardinality(Pool) >= offer.required => offer.status = "CLOSED"
=============================================================================
