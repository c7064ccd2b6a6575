------------------------------ MODULE GroupChat ------------------------------
(***************************************************************************)
(* The anonymous group chat of an offer: joining under a number drawn from *)
(* the offer's counter, sending structured messages, and voting in polls.  *)
(* No call runs in a transaction: a handler stops at every await, and the  *)
(* offer, a second call of the same customer, or a crash comes between.    *)
(* A call that is refused or throws changes nothing more.  Messages are    *)
(* numbered by their place in the one table that holds every group's.      *)
(***************************************************************************)
EXTENDS Integers, Sequences, FiniteSets

CONSTANTS
    Offers, Customers,
    Options,            \* the choices a poll offers
    Handlers,           \* calls the server can have under way together
    MEMBER_NUMBER_START,
    MaxMessages,        \* bound on the messages ever sent
    MaxEndings,         \* bound on how often an offer stops being open
    None

ASSUME ChatAssumption ==
    /\ IsFiniteSet(Handlers) /\ Handlers # {}
    /\ MEMBER_NUMBER_START \in Nat \ {0}
    /\ MaxMessages \in Nat /\ MaxEndings \in Nat
    /\ None \notin Offers \cup Customers \cup Options

VARIABLES
    offer,    \* Offer.status and end_date, as the chat tells them apart
    leads,    \* Lead, unique on customer and offer
    seq,      \* OfferGroupCounter.seq, NoNumber while there is no row
    number,   \* OfferGroupMember.member_number, NoNumber for no member
    feed,     \* OfferGroupMessage
    votes,    \* OfferGroupPollVote
    call,     \* what each handler is doing
    endings,  \* how often an open offer stopped being open
    late,     \* messages and votes written while their offer was not open
    crashes

chatVars == <<seq, number, feed, votes>>
history == <<endings, late, crashes>>
vars == <<offer, leads, chatVars, call, history>>

NoNumber == 0
Numbers == {n \in Nat : n > MEMBER_NUMBER_START}

\* "lapsed" is ACTIVE past its end_date, before the hourly sweep.
OfferState == {"active", "lapsed", "inactive", "deleted"}
Message == [offer : Offers, by : Customers, number : Numbers,
            type : {"joined", "POLL", "other"}]
Vote == [message : Nat \ {0}, offer : Offers, by : Customers, option : Options]

Awaits == {"idle", "draw", "insert", "raced", "announce", "send", "vote"}
Call == [at : Awaits, offer : Offers \cup {None}, by : Customers \cup {None},
         number : Numbers \cup {NoNumber}, message : Nat]
Await(where, o, c, n, i) == [at |-> where, offer |-> o, by |-> c, number |-> n, message |-> i]
Idle == Await("idle", None, None, NoNumber, 0)

TypeOK ==
    /\ offer \in [Offers -> OfferState]
    /\ leads \subseteq Customers \X Offers
    /\ seq \in [Offers -> Numbers \cup {NoNumber}]
    /\ number \in [Offers -> [Customers -> Numbers \cup {NoNumber}]]
    /\ feed \in Seq(Message)
    /\ votes \subseteq Vote
    /\ call \in [Handlers -> Call]
    /\ endings \in Nat /\ late \in Nat /\ crashes \in Nat

Init ==
    /\ offer = [o \in Offers |-> "active"]
    /\ leads = {}
    /\ seq = [o \in Offers |-> NoNumber]
    /\ number = [o \in Offers |-> [c \in Customers |-> NoNumber]]
    /\ feed = << >>
    /\ votes = {}
    /\ call = [h \in Handlers |-> Idle]
    /\ endings = 0 /\ late = 0 /\ crashes = 0

-----------------------------------------------------------------------------
(* The shape of a call *)

At(h, where) == call[h].at = where
Goto(h, where) == call' = [call EXCEPT ![h].at = where]
Return(h) == call' = [call EXCEPT ![h] = Idle]

IsMember(o, c) == number[o][c] # NoNumber
Members(o) == {c \in Customers : IsMember(o, c)}

\* assertOfferOpen: the status, and the end date against the clock.
OpenByStatus(o) == offer[o] \in {"active", "lapsed"}
Open(o) == offer[o] = "active"

-----------------------------------------------------------------------------
(* ensureMembership *)

\* The offer exists, the customer has shown interest, and is no member yet;
\* one who is gets the membership back.  Interest is never withdrawn.
Join(h) ==
    /\ At(h, "idle")
    /\ \E o \in Offers, c \in Customers :
         /\ offer[o] # "deleted" /\ <<c, o>> \in leads /\ ~IsMember(o, c)
         /\ call' = [call EXCEPT ![h] = Await("draw", o, c, NoNumber, 0)]
    /\ UNCHANGED <<offer, leads, chatVars, history>>

\* The number a join draws: the counter's next, or one that begins a number
\* too early, or one taken from how many members there are.
FromStart(o) == IF seq[o] = NoNumber THEN MEMBER_NUMBER_START ELSE seq[o] + 1
FromMembers(o) == MEMBER_NUMBER_START + Cardinality(Members(o)) + 1
NextNumber(o) == IF seq[o] = NoNumber THEN MEMBER_NUMBER_START + 1 ELSE seq[o] + 1

DrawNumber(h) ==
    /\ At(h, "draw")
    /\ LET n == NextNumber(call[h].offer) IN
         /\ seq' = [seq EXCEPT ![call[h].offer] = n]
         /\ call' = [call EXCEPT ![h].at = "insert", ![h].number = n]
    /\ UNCHANGED <<offer, leads, number, feed, votes, history>>

\* The row is refused (P2002) when the customer is a member or the number is
\* taken; the member there is keeps the number it has.
Refused(h) ==
    LET o == call[h].offer IN
    IsMember(o, call[h].by) \/ \E c \in Customers : number[o][c] = call[h].number
Renumber(o, c, n) == number' = [number EXCEPT ![o][c] = n]
KeepNumber(o, c, n) == UNCHANGED number

InsertMember(h) ==
    /\ At(h, "insert")
    /\ LET o == call[h].offer
           c == call[h].by
           n == call[h].number
       IN \/ Refused(h) /\ KeepNumber(o, c, n) /\ Goto(h, "raced")
          \/ /\ ~Refused(h)
             /\ number' = [number EXCEPT ![o][c] = n]
             /\ Goto(h, "announce")
    /\ UNCHANGED <<offer, leads, seq, feed, votes, history>>

\* The raced row is returned as it is; with none, the error is rethrown.
AnnounceToo(h) == Goto(h, "announce")
ReturnRaced(h) == Return(h)

FindRaced(h) ==
    /\ At(h, "raced")
    /\ ReturnRaced(h)
    /\ UNCHANGED <<offer, leads, chatVars, history>>

Post(h, type) ==
    /\ Len(feed) < MaxMessages
    /\ feed' = Append(feed, [offer |-> call[h].offer, by |-> call[h].by,
                             number |-> call[h].number, type |-> type])

Announce(h) ==
    /\ At(h, "announce")
    /\ Post(h, "joined")
    /\ Return(h)
    /\ UNCHANGED <<offer, leads, seq, number, votes, history>>

-----------------------------------------------------------------------------
(* sendStructuredMessage and votePoll: membership, then the offer, then the *)
(* write                                                                   *)

Written(o) == late' = late + (IF offer[o] = "active" THEN 0 ELSE 1)

\* The message is a poll, and one of this group.
AnyPoll(o, i) == feed[i].type = "POLL"
PollOf(o, i) == feed[i].type = "POLL" /\ feed[i].offer = o

\* Members and messages are never deleted or edited: of what these calls
\* read, only whether the offer is open can be stale at the write.
StartSend(h) ==
    /\ At(h, "idle")
    /\ \E o \in Offers : \E c \in Members(o) :
         /\ Open(o)
         /\ call' = [call EXCEPT ![h] = Await("send", o, c, number[o][c], 0)]
    /\ UNCHANGED <<offer, leads, chatVars, history>>

StartVote(h) ==
    /\ At(h, "idle")
    /\ \E o \in Offers, i \in DOMAIN feed : \E c \in Members(o) :
         /\ Open(o)
         /\ PollOf(o, i)
         /\ call' = [call EXCEPT ![h] = Await("vote", o, c, NoNumber, i)]
    /\ UNCHANGED <<offer, leads, chatVars, history>>

SendMessage(h) ==
    /\ At(h, "send")
    /\ \E type \in {"POLL", "other"} : Post(h, type)
    /\ Written(call[h].offer)
    /\ Return(h)
    /\ UNCHANGED <<offer, leads, seq, number, votes, endings, crashes>>

\* The upsert on message and member.
SameBallot(v, w) == v.message = w.message /\ v.offer = w.offer /\ v.by = w.by
Added(v) == votes \cup {v}
Upserted(v) == {w \in votes : ~SameBallot(v, w)} \cup {v}

CastVote(h) ==
    /\ At(h, "vote")
    /\ \E x \in Options :
         votes' = Upserted([message |-> call[h].message, offer |-> call[h].offer,
                            by |-> call[h].by, option |-> x])
    /\ Written(call[h].offer)
    /\ Return(h)
    /\ UNCHANGED <<offer, leads, seq, number, feed, endings, crashes>>

-----------------------------------------------------------------------------
(* The rest of the system, and crashes *)

\* createLead, for an offer of any status.
ShowInterest(c, o) ==
    /\ offer[o] # "deleted" /\ <<c, o>> \notin leads
    /\ leads' = leads \cup {<<c, o>>}
    /\ UNCHANGED <<offer, chatVars, call, history>>

\* The merchant, the sweep, the clock or an administrator change the offer.
OfferChanges(o) ==
    /\ offer[o] # "deleted"
    /\ \E s \in OfferState \ {offer[o]} : offer' = [offer EXCEPT ![o] = s]
    /\ endings' = IF offer[o] = "active" THEN endings + 1 ELSE endings
    /\ endings' <= MaxEndings
    /\ UNCHANGED <<leads, chatVars, call, late, crashes>>

Crash ==
    /\ crashes = 0
    /\ \E h \in Handlers : call[h] # Idle
    /\ call' = [h \in Handlers |-> Idle]
    /\ crashes' = crashes + 1
    /\ UNCHANGED <<offer, leads, chatVars, endings, late>>

JoinStep(h) ==
    Join(h) \/ DrawNumber(h) \/ InsertMember(h) \/ FindRaced(h) \/ Announce(h)
SpeakStep(h) == StartSend(h) \/ StartVote(h) \/ SendMessage(h) \/ CastVote(h)

Next ==
    \/ \E h \in Handlers : JoinStep(h) \/ SpeakStep(h)
    \/ \E c \in Customers, o \in Offers : ShowInterest(c, o)
    \/ \E o \in Offers : OfferChanges(o)
    \/ Crash

Spec == Init /\ [][Next]_vars

-----------------------------------------------------------------------------
(* Properties *)

\* A join that meets a unique constraint finds the row that won: no number
\* is drawn twice, so P2002 only ever means the customer's own second join
\* (the catch of ensureMembership), and a double click is never an error.
RacedRowFound ==
    \A h \in Handlers : At(h, "raced") => IsMember(call[h].offer, call[h].by)

\* Messages carry their author's number as a copy made at write time; it
\* never parts from the member's row, however joins and sends interleave.
SpokenAsNumbered ==
    \A i \in DOMAIN feed : feed[i].number = number[feed[i].offer][feed[i].by]

Announcements(o, c) ==
    {i \in DOMAIN feed : feed[i].offer = o /\ feed[i].by = c /\ feed[i].type = "joined"}
Announcing(o, c) ==
    {h \in Handlers : At(h, "announce") /\ call[h].offer = o /\ call[h].by = c}

\* Every member is announced once: exactly one announcement is written or
\* under way, unless a crash lost it, and then there is none
\* (ensureMembership: a repeated join does not make up for it).
AnnouncedOnce ==
    \A o \in Offers, c \in Customers :
        LET made == Cardinality(Announcements(o, c)) + Cardinality(Announcing(o, c)) IN
        IF IsMember(o, c) THEN made <= 1 /\ (crashes = 0 => made = 1) ELSE made = 0

\* Every ballot is in a poll of the voter's own group, one for each voter.
BallotsInGroup ==
    /\ \A v \in votes :
         /\ v.message \in DOMAIN feed /\ IsMember(v.offer, v.by)
         /\ feed[v.message].type = "POLL" /\ feed[v.message].offer = v.offer
    /\ \A v, w \in votes : SameBallot(v, w) => v = w

\* A chat is read-only once its offer has ended, before the sweep has seen
\* it too: each time an offer stops being open, only the calls already past
\* assertOfferOpen still write.
LateBounded == late <= endings * Cardinality(Handlers)
=============================================================================
