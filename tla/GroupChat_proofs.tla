-------------------------- MODULE GroupChat_proofs --------------------------
(***************************************************************************)
(* Theorems about GroupChat, for every set of offers, customers and        *)
(* handlers and every bound; and about what its messages can say, for      *)
(* every catalogue.                                                        *)
(***************************************************************************)
EXTENDS GroupChat, FiniteSetTheorems, TLAPS

CONSTANTS QUICK_REPLIES, POLL_TEMPLATES, LEAD_MESSAGE_TEMPLATES, CATEGORY_ORDER,
          Blank, Suspicious, Printable \* of ChatMessages

Chat == INSTANCE ChatMessages

-----------------------------------------------------------------------------
(* Type correctness *)

\* What a call has established by the time it stands at an await.
Locals ==
    \A h \in Handlers :
        /\ ~At(h, "idle") => call[h].offer \in Offers /\ call[h].by \in Customers
        /\ call[h].at \in {"insert", "announce", "send"} => call[h].number \in Numbers
        /\ At(h, "vote") => call[h].message \in DOMAIN feed

TypeInv == TypeOK /\ Locals

LEMMA TypeInit == Init => TypeInv
  BY DEF Init, TypeInv, TypeOK, Locals, At, Idle, Await, Call, Awaits, OfferState, NoNumber

LEMMA GotoType ==
    ASSUME call \in [Handlers -> Call], NEW h \in Handlers, NEW where \in Awaits,
           Goto(h, where)
    PROVE  /\ call' \in [Handlers -> Call]
           /\ call'[h].at = where /\ call'[h].offer = call[h].offer /\ call'[h].by = call[h].by
           /\ call'[h].number = call[h].number /\ call'[h].message = call[h].message
           /\ \A g \in Handlers \ {h} : call'[g] = call[g]
  <1> DEFINE c == [call[h] EXCEPT !.at = where]
  <1>1. call[h] \in Call
    OBVIOUS
  <1>2. /\ c \in Call /\ c.at = where /\ c.offer = call[h].offer /\ c.by = call[h].by
        /\ c.number = call[h].number /\ c.message = call[h].message
    BY <1>1 DEF Call
  <1>3. call' = [call EXCEPT ![h] = c]
    BY DEF Goto
  <1> HIDE DEF c
  <1>4. QED
    BY <1>2, <1>3

LEMMA NextNumberType ==
    ASSUME TypeOK, NEW o \in Offers
    PROVE  NextNumber(o) \in Numbers /\ NextNumber(o) > seq[o]
  BY ChatAssumption DEF TypeOK, NextNumber, Numbers, NoNumber

\* A message appended keeps the feed's type and the places of the others.
LEMMA PostType ==
    ASSUME TypeInv, NEW h \in Handlers, NEW type \in {"joined", "POLL", "other"},
           call[h].at \in {"announce", "send"}, Post(h, type)
    PROVE  /\ feed' \in Seq(Message)
           /\ DOMAIN feed \subseteq DOMAIN feed'
           /\ \A i \in DOMAIN feed : feed'[i] = feed[i]
           /\ \A i \in DOMAIN feed' \ DOMAIN feed :
                feed'[i] = [offer |-> call[h].offer, by |-> call[h].by,
                            number |-> call[h].number, type |-> type]
  <1>1. [offer |-> call[h].offer, by |-> call[h].by, number |-> call[h].number,
         type |-> type] \in Message
    BY DEF TypeInv, Locals, At, Message
  <1>2. feed \in Seq(Message)
    BY DEF TypeInv, TypeOK
  <1>3. QED
    BY <1>1, <1>2 DEF Post

LEMMA VoteType ==
    ASSUME TypeInv, NEW h \in Handlers, At(h, "vote"), NEW x \in Options
    PROVE  [message |-> call[h].message, offer |-> call[h].offer, by |-> call[h].by,
            option |-> x] \in Vote
  <1>1. call[h].message \in Nat \ {0}
    <2>1. DOMAIN feed = 1 .. Len(feed) /\ Len(feed) \in Nat
      BY DEF TypeInv, TypeOK
    <2>2. QED
      BY <2>1 DEF TypeInv, Locals
  <1>2. QED
    BY <1>1 DEF TypeInv, Locals, At, Vote

LEMMA TypeStep == TypeInv /\ [Next]_vars => TypeInv'
  <1> SUFFICES ASSUME TypeInv, [Next]_vars PROVE TypeInv'
    OBVIOUS
  <1> USE DEF TypeInv, TypeOK, Locals, At, Call, Awaits, Idle, Await, chatVars, history, NoNumber
  <1>1. ASSUME NEW h \in Handlers, Join(h) PROVE TypeInv'
    BY <1>1 DEF Join
  <1>2. ASSUME NEW h \in Handlers, DrawNumber(h) PROVE TypeInv'
    <2>1. NextNumber(call[h].offer) \in Numbers
      BY <1>2, NextNumberType DEF DrawNumber
    <2>2. QED
      BY ZenonT(60), <1>2, <2>1 DEF DrawNumber
  <1>3. ASSUME NEW h \in Handlers, InsertMember(h) PROVE TypeInv'
    <2> DEFINE o == call[h].offer
               c == call[h].by
               n == call[h].number
    <2>1. o \in Offers /\ c \in Customers /\ n \in Numbers
      BY <1>3 DEF InsertMember
    <2>2. CASE number' = [number EXCEPT ![o][c] = n] /\ Goto(h, "announce")
      <3>1. number' \in [Offers -> [Customers -> Numbers \cup {NoNumber}]]
        BY <2>1, <2>2
      <3>2. TypeInv'
        BY ZenonT(60), <1>3, <2>1, <2>2, <3>1, GotoType DEF InsertMember
      <3>3. QED
        BY <3>2
    <2>3. CASE UNCHANGED number /\ Goto(h, "raced")
      BY ZenonT(60), <1>3, <2>1, <2>3, GotoType DEF InsertMember
    <2>4. QED
      BY <1>3, <2>2, <2>3 DEF InsertMember, KeepNumber
  <1>4. ASSUME NEW h \in Handlers, FindRaced(h) PROVE TypeInv'
    BY <1>4 DEF FindRaced, ReturnRaced, Return
  <1>5. ASSUME NEW h \in Handlers, Announce(h) PROVE TypeInv'
    BY <1>5, PostType DEF Announce, Return
  <1>6. ASSUME NEW h \in Handlers, StartSend(h) PROVE TypeInv'
    BY <1>6 DEF StartSend, Members, IsMember
  <1>7. ASSUME NEW h \in Handlers, StartVote(h) PROVE TypeInv'
    <2>1. DOMAIN feed \subseteq Nat
      OBVIOUS
    <2>2. QED
      BY <1>7, <2>1 DEF StartVote, Members
  <1>8. ASSUME NEW h \in Handlers, SendMessage(h) PROVE TypeInv'
    <2>1. PICK type \in {"POLL", "other"} : Post(h, type)
      BY <1>8 DEF SendMessage
    <2>2. /\ feed' \in Seq(Message)
          /\ DOMAIN feed \subseteq DOMAIN feed'
      BY <1>8, <2>1, PostType DEF SendMessage
    <2>3. QED
      BY <1>8, <2>2 DEF SendMessage, Written, Return
  <1>9. ASSUME NEW h \in Handlers, CastVote(h) PROVE TypeInv'
    <2>1. votes' \subseteq Vote
      BY <1>9, VoteType DEF CastVote, Upserted
    <2>2. QED
      BY <1>9, <2>1 DEF CastVote, Written, Return
  <1>10. ASSUME NEW c \in Customers, NEW o \in Offers, ShowInterest(c, o) PROVE TypeInv'
    BY <1>10 DEF ShowInterest
  <1>11. ASSUME NEW o \in Offers, OfferChanges(o) PROVE TypeInv'
    BY <1>11 DEF OfferChanges
  <1>12. CASE Crash
    BY <1>12 DEF Crash
  <1>13. CASE UNCHANGED vars
    BY <1>13 DEF vars
  <1>14. QED
    BY <1>1, <1>2, <1>3, <1>4, <1>5, <1>6, <1>7, <1>8, <1>9, <1>10, <1>11, <1>12, <1>13
       DEF Next, JoinStep, SpeakStep

\* Every reachable state of the chat is well typed.
THEOREM TypeCorrect == Spec => []TypeOK
  <1>1. TypeInv => TypeOK
    BY DEF TypeInv
  <1>2. QED
    BY <1>1, TypeInit, TypeStep, PTL DEF Spec

-----------------------------------------------------------------------------
(* No number is drawn twice *)

\* The counter is ahead of every number given out or on its way to a row.
CounterAhead ==
    /\ \A o \in Offers, c \in Customers : number[o][c] <= seq[o]
    /\ \A h \in Handlers : At(h, "insert") => call[h].number <= seq[call[h].offer]

\* The numbers of an offer's members and of its inserts differ pairwise.
Apart ==
    /\ \A h \in Handlers, c \in Customers :
         At(h, "insert") => number[call[h].offer][c] # call[h].number
    /\ \A g, h \in Handlers :
         g # h /\ At(g, "insert") /\ At(h, "insert") /\ call[g].offer = call[h].offer
           => call[g].number # call[h].number

NumberInv == TypeInv /\ CounterAhead /\ Apart /\ RacedRowFound

LEMMA NumberInit == Init => NumberInv
  <1> SUFFICES ASSUME Init PROVE NumberInv
    OBVIOUS
  <1>1. TypeInv
    BY TypeInit
  <1>2. QED
    BY <1>1 DEF Init, NumberInv, CounterAhead, Apart, RacedRowFound, At, Idle, Await, NoNumber

\* Steps that leave counter and members alone and bring no call to its
\* insert or to the raced row.
LEMMA NumberFrame ==
    ASSUME NumberInv, TypeInv', UNCHANGED <<seq, number>>,
           \A h \in Handlers : call'[h] = call[h] \/ call'[h].at \notin {"insert", "raced"}
    PROVE  NumberInv'
  BY DEF NumberInv, CounterAhead, Apart, RacedRowFound, At, IsMember

LEMMA NumberStep == NumberInv /\ [Next]_vars => NumberInv'
  <1> SUFFICES ASSUME NumberInv, [Next]_vars PROVE NumberInv'
    OBVIOUS
  <1>0. TypeInv /\ TypeInv'
    BY TypeStep DEF NumberInv
  <1>t. /\ seq \in [Offers -> Numbers \cup {NoNumber}]
        /\ number \in [Offers -> [Customers -> Numbers \cup {NoNumber}]]
        /\ call \in [Handlers -> Call]
    BY <1>0 DEF TypeInv, TypeOK
  <1>1. ASSUME NEW h \in Handlers, DrawNumber(h) PROVE NumberInv'
    <2> DEFINE o == call[h].offer
               n == NextNumber(o)
    <2>1. o \in Offers /\ n \in Numbers /\ n > seq[o]
      BY <1>0, <1>1, NextNumberType DEF DrawNumber, TypeInv, Locals, At
    <2>2. /\ seq' = [seq EXCEPT ![o] = n]
          /\ number' = number
          /\ call'[h].at = "insert" /\ call'[h].number = n /\ call'[h].offer = o
          /\ \A g \in Handlers \ {h} : call'[g] = call[g]
      BY <1>1, <1>t DEF DrawNumber, Call
    <2> HIDE DEF n
    <2>3. \A p \in Offers : seq[p] \in Int /\ \A c \in Customers : number[p][c] \in Int
      BY <1>t DEF Numbers, NoNumber
    <2>4. \A g \in Handlers : At(g, "insert") => call[g].number \in Int /\ call[g].offer \in Offers
      BY <1>0 DEF TypeInv, Locals, At, Numbers
    <2>5. n \in Int /\ seq'[o] = n /\ \A p \in Offers \ {o} : seq'[p] = seq[p]
      BY <2>1, <2>2, <1>t DEF Numbers
    <2>6. CounterAhead'
      <3>1. ASSUME NEW p \in Offers, NEW c \in Customers PROVE number'[p][c] <= seq'[p]
        <4>1. number[p][c] <= seq[p]
          BY DEF NumberInv, CounterAhead
        <4>2. QED
          BY <2>1, <2>2, <2>3, <2>5, <4>1
      <3>2. ASSUME NEW g \in Handlers, call'[g].at = "insert"
            PROVE  call'[g].number <= seq'[call'[g].offer]
        <4>1. CASE g = h
          BY <2>2, <2>5, <4>1
        <4>2. CASE g # h
          <5>1. /\ call[g].number <= seq[call[g].offer]
                /\ call[g].number \in Int /\ call[g].offer \in Offers
            BY <2>2, <2>4, <3>2, <4>2 DEF NumberInv, CounterAhead, At
          <5>2. seq[call[g].offer] <= seq'[call[g].offer]
            BY <2>1, <2>3, <2>5, <5>1
          <5>3. call'[g] = call[g]
            BY <2>2, <4>2
          <5>4. seq[call[g].offer] \in Int /\ seq'[call[g].offer] \in Int
            BY <2>3, <2>5, <5>1
          <5>5. QED
            BY <5>1, <5>2, <5>3, <5>4
        <4>3. QED
          BY <4>1, <4>2
      <3>3. QED
        BY <3>1, <3>2 DEF CounterAhead, At
    <2>7. Apart'
      <3>1. \A c \in Customers : number[o][c] < n
        BY <2>1, <2>3, <2>5 DEF NumberInv, CounterAhead
      <3>2. \A g \in Handlers : At(g, "insert") /\ call[g].offer = o => call[g].number < n
        BY <2>1, <2>3, <2>4, <2>5 DEF NumberInv, CounterAhead
      <3>3. ASSUME NEW g \in Handlers, NEW c \in Customers, call'[g].at = "insert"
            PROVE  number'[call'[g].offer][c] # call'[g].number
        <4>1. CASE g = h
          BY <2>1, <2>2, <2>3, <2>5, <3>1, <4>1
        <4>2. CASE g # h
          <5>1. call'[g] = call[g] /\ number' = number
            BY <2>2, <4>2
          <5>2. QED
            BY <3>3, <5>1 DEF NumberInv, Apart, At
        <4>3. QED
          BY <4>1, <4>2
      <3>4. ASSUME NEW f \in Handlers, NEW g \in Handlers, f # g,
                   call'[f].at = "insert", call'[g].at = "insert",
                   call'[f].offer = call'[g].offer
            PROVE  call'[f].number # call'[g].number
        <4>1. CASE f = h
          BY <2>2, <2>4, <2>5, <3>2, <3>4, <4>1 DEF At
        <4>2. CASE g = h
          BY <2>2, <2>4, <2>5, <3>2, <3>4, <4>2 DEF At
        <4>3. CASE f # h /\ g # h
          BY <2>2, <3>4, <4>3 DEF NumberInv, Apart, At
        <4>4. QED
          BY <4>1, <4>2, <4>3
      <3>5. QED
        BY <3>3, <3>4 DEF Apart, At
    <2>8. RacedRowFound'
      BY <2>2 DEF NumberInv, RacedRowFound, At, IsMember
    <2>9. QED
      BY <1>0, <2>6, <2>7, <2>8 DEF NumberInv
  <1>2. ASSUME NEW h \in Handlers, InsertMember(h) PROVE NumberInv'
    <2> DEFINE o == call[h].offer
               c == call[h].by
               n == call[h].number
    <2>1. o \in Offers /\ c \in Customers /\ n \in Numbers /\ At(h, "insert")
      BY <1>0, <1>2 DEF InsertMember, TypeInv, Locals, At
    <2>2. CASE Refused(h) /\ number' = number /\ Goto(h, "raced")
      <3>1. IsMember(o, c)
        BY <2>1, <2>2 DEF Refused, NumberInv, Apart
      <3>2. /\ call'[h].at = "raced" /\ call'[h].offer = o /\ call'[h].by = c
            /\ \A g \in Handlers \ {h} : call'[g] = call[g]
        BY <2>2, <1>t, GotoType DEF Awaits
      <3>3. QED
        BY <1>0, <1>2, <2>2, <3>1, <3>2
           DEF InsertMember, NumberInv, CounterAhead, Apart, RacedRowFound, At, IsMember
    <2>3. CASE ~Refused(h) /\ number' = [number EXCEPT ![o][c] = n] /\ Goto(h, "announce")
      <3>1. /\ call'[h].at = "announce"
            /\ \A g \in Handlers \ {h} : call'[g] = call[g]
        BY <2>3, <1>t, GotoType DEF Awaits
      <3>2. /\ \A p \in Offers, d \in Customers :
                 number'[p][d] = IF p = o /\ d = c THEN n ELSE number[p][d]
            /\ seq' = seq
        BY <1>2, <1>t, <2>1, <2>3 DEF InsertMember
      <3>3. CounterAhead'
        BY <2>1, <3>1, <3>2 DEF NumberInv, CounterAhead, At
      <3>4. Apart'
        <4>1. \A g \in Handlers : At(g, "insert") => call[g].offer \in Offers
          BY <1>0 DEF TypeInv, Locals, At
        <4>2. QED
          BY <2>1, <3>1, <3>2, <4>1 DEF NumberInv, Apart, At
      <3>5. RacedRowFound'
        <4>1. \A g \in Handlers : At(g, "raced") => call[g].offer \in Offers /\ call[g].by \in Customers
          BY <1>0 DEF TypeInv, Locals, At
        <4>2. n # NoNumber
          BY <2>1, ChatAssumption DEF Numbers, NoNumber
        <4>3. ASSUME NEW g \in Handlers, call'[g].at = "raced"
              PROVE  number'[call'[g].offer][call'[g].by] # NoNumber
          <5>1. g # h /\ call'[g] = call[g]
            BY <3>1, <4>3
          <5>2. number[call[g].offer][call[g].by] # NoNumber
            BY <4>3, <5>1 DEF NumberInv, RacedRowFound, At, IsMember
          <5>3. call[g].offer \in Offers /\ call[g].by \in Customers
            BY <4>1, <4>3, <5>1 DEF At
          <5>4. number'[call[g].offer][call[g].by] \in {n, number[call[g].offer][call[g].by]}
            BY <3>2, <5>3
          <5>5. QED
            BY <4>2, <5>1, <5>2, <5>4
        <4>4. QED
          BY <4>3 DEF RacedRowFound, At, IsMember
      <3>6. QED
        BY <1>0, <3>3, <3>4, <3>5 DEF NumberInv
    <2>4. QED
      BY <1>2, <2>2, <2>3 DEF InsertMember, KeepNumber
  <1>3. CASE \/ \E h \in Handlers :
                  \/ Join(h) \/ FindRaced(h) \/ Announce(h) \/ SpeakStep(h)
             \/ \E c \in Customers, o \in Offers : ShowInterest(c, o)
             \/ \E o \in Offers : OfferChanges(o)
             \/ Crash \/ UNCHANGED vars
    <2>1. UNCHANGED <<seq, number>>
      BY <1>3 DEF Join, FindRaced, Announce, SpeakStep, StartSend, StartVote, SendMessage, CastVote,
                  ShowInterest, OfferChanges, Crash, vars, chatVars
    <2>2. \A h \in Handlers : call'[h] = call[h] \/ call'[h].at \notin {"insert", "raced"}
      <3> USE DEF Idle, Await
      <3>1. ASSUME NEW h \in Handlers, NEW c, c.at \notin {"insert", "raced"},
                   call' = [call EXCEPT ![h] = c]
            PROVE  \A g \in Handlers : call'[g] = call[g] \/ call'[g].at \notin {"insert", "raced"}
        BY <1>t, <3>1
      <3>2. ASSUME NEW h \in Handlers, Join(h) \/ StartSend(h) \/ StartVote(h)
            PROVE  \A g \in Handlers : call'[g] = call[g] \/ call'[g].at \notin {"insert", "raced"}
        BY <3>1, <3>2 DEF Join, StartSend, StartVote
      <3>3. ASSUME NEW h \in Handlers, FindRaced(h) \/ Announce(h) \/ SendMessage(h) \/ CastVote(h)
            PROVE  \A g \in Handlers : call'[g] = call[g] \/ call'[g].at \notin {"insert", "raced"}
        BY <3>1, <3>3 DEF FindRaced, ReturnRaced, Announce, SendMessage, CastVote, Return
      <3>4. ASSUME \/ \E c \in Customers, o \in Offers : ShowInterest(c, o)
                   \/ \E o \in Offers : OfferChanges(o)
                   \/ Crash \/ UNCHANGED vars
            PROVE  \A g \in Handlers : call'[g] = call[g] \/ call'[g].at \notin {"insert", "raced"}
        <4>1. CASE Crash
          BY <4>1 DEF Crash
        <4>2. CASE UNCHANGED vars
          BY <4>2 DEF vars
        <4>3. QED
          BY <3>4, <4>1, <4>2 DEF ShowInterest, OfferChanges
      <3>5. QED
        BY <1>3, <3>2, <3>3, <3>4 DEF SpeakStep
    <2>3. QED
      BY <1>0, <2>1, <2>2, NumberFrame
  <1>4. QED
    BY <1>1, <1>2, <1>3 DEF Next, JoinStep

\* A join that meets a unique constraint always finds the row that won.
THEOREM RacedRowFoundHolds == Spec => []RacedRowFound
  <1>1. NumberInv => RacedRowFound
    BY DEF NumberInv
  <1>2. QED
    BY <1>1, NumberInit, NumberStep, PTL DEF Spec

-----------------------------------------------------------------------------
(* What a message says of its author *)

\* The number a call is about to write is its author's.
Spoken ==
    \A h \in Handlers :
        call[h].at \in {"announce", "send"} => call[h].number = number[call[h].offer][call[h].by]

SpokenInv == TypeInv /\ Spoken /\ SpokenAsNumbered

\* Steps that change neither members nor messages and bring no call to a
\* write it was not at.
LEMMA SpokenFrame ==
    ASSUME SpokenInv, TypeInv', UNCHANGED <<number, feed>>,
           \A h \in Handlers : call'[h] = call[h] \/ call'[h].at \notin {"announce", "send"}
    PROVE  SpokenInv'
  BY DEF SpokenInv, Spoken, SpokenAsNumbered

\* A message posted by a call that spoke as numbered is itself as numbered.
LEMMA PostSpoken ==
    ASSUME SpokenInv, TypeInv', NEW h \in Handlers, NEW type \in {"joined", "POLL", "other"},
           call[h].at \in {"announce", "send"}, Post(h, type), Return(h), UNCHANGED number
    PROVE  SpokenInv'
  <1>1. TypeInv /\ call \in [Handlers -> Call]
    BY DEF SpokenInv, TypeInv, TypeOK
  <1>2. SpokenAsNumbered'
    BY <1>1, PostType DEF SpokenInv, Spoken, SpokenAsNumbered
  <1>3. Spoken'
    BY <1>1 DEF SpokenInv, Spoken, Return, Idle, Await
  <1>4. QED
    BY <1>2, <1>3 DEF SpokenInv

LEMMA SpokenStep == SpokenInv /\ [Next]_vars => SpokenInv'
  <1> SUFFICES ASSUME SpokenInv, [Next]_vars PROVE SpokenInv'
    OBVIOUS
  <1>0. TypeInv /\ TypeInv'
    BY TypeStep DEF SpokenInv
  <1>t. /\ number \in [Offers -> [Customers -> Numbers \cup {NoNumber}]]
        /\ call \in [Handlers -> Call]
        /\ feed \in Seq(Message)
    BY <1>0 DEF TypeInv, TypeOK
  <1>1. ASSUME NEW h \in Handlers, InsertMember(h) PROVE SpokenInv'
    <2> DEFINE o == call[h].offer
               c == call[h].by
               n == call[h].number
    <2>1. o \in Offers /\ c \in Customers /\ n \in Numbers
      BY <1>0, <1>1 DEF InsertMember, TypeInv, Locals, At
    <2>2. CASE number' = number /\ Goto(h, "raced")
      <3>1. call'[h].at = "raced" /\ \A g \in Handlers \ {h} : call'[g] = call[g]
        BY <2>2, <1>t, GotoType DEF Awaits
      <3>2. QED
        BY <1>0, <1>1, <2>2, <3>1, SpokenFrame DEF InsertMember
    <2>3. CASE ~Refused(h) /\ number' = [number EXCEPT ![o][c] = n] /\ Goto(h, "announce")
      <3>1. /\ call'[h].offer = o /\ call'[h].by = c /\ call'[h].number = n
            /\ \A g \in Handlers \ {h} : call'[g] = call[g]
        BY <2>3, <1>t, GotoType DEF Awaits
      <3>2. \A p \in Offers, d \in Customers :
                number'[p][d] = IF p = o /\ d = c THEN n ELSE number[p][d]
        BY <1>t, <2>1, <2>3
      <3>3. number[o][c] = NoNumber
        BY <2>3 DEF Refused, IsMember
      <3>4. NoNumber \notin Numbers
        BY ChatAssumption DEF Numbers, NoNumber
      <3>5. ASSUME NEW i \in DOMAIN feed
            PROVE  feed[i].number = number'[feed[i].offer][feed[i].by]
        <4>1. feed[i] \in Message
          BY <1>t
        <4>2. /\ feed[i].number \in Numbers /\ feed[i].offer \in Offers /\ feed[i].by \in Customers
              /\ feed[i].number = number[feed[i].offer][feed[i].by]
          BY <4>1 DEF Message, SpokenInv, SpokenAsNumbered
        <4>3. QED
          BY <3>2, <3>3, <3>4, <4>2
      <3>6. ASSUME NEW g \in Handlers, call'[g].at \in {"announce", "send"}
            PROVE  call'[g].number = number'[call'[g].offer][call'[g].by]
        <4>1. CASE g = h
          BY <2>1, <3>1, <3>2, <4>1
        <4>2. CASE g # h
          <5>1. /\ call'[g] = call[g] /\ call[g].offer \in Offers /\ call[g].by \in Customers
                /\ call[g].number \in Numbers
                /\ call[g].number = number[call[g].offer][call[g].by]
            BY <1>0, <3>1, <3>6, <4>2 DEF SpokenInv, Spoken, TypeInv, Locals, At
          <5>2. QED
            BY <3>2, <3>3, <3>4, <5>1
        <4>3. QED
          BY <4>1, <4>2
      <3>7. UNCHANGED feed
        BY <1>1 DEF InsertMember
      <3>8. QED
        BY <1>0, <3>5, <3>6, <3>7 DEF SpokenInv, Spoken, SpokenAsNumbered
    <2>4. QED
      BY <1>1, <2>2, <2>3 DEF InsertMember, KeepNumber
  <1>2. ASSUME NEW h \in Handlers, Announce(h) PROVE SpokenInv'
    BY <1>0, <1>2, PostSpoken DEF Announce, At
  <1>3. ASSUME NEW h \in Handlers, SendMessage(h) PROVE SpokenInv'
    BY <1>0, <1>3, PostSpoken DEF SendMessage, At
  <1>4. ASSUME NEW h \in Handlers, StartSend(h) PROVE SpokenInv'
    <2>1. PICK o \in Offers, c \in Customers :
              call' = [call EXCEPT ![h] = Await("send", o, c, number[o][c], 0)]
      BY <1>4 DEF StartSend, Members
    <2>2. /\ call'[h].number = number[call'[h].offer][call'[h].by]
          /\ \A g \in Handlers \ {h} : call'[g] = call[g]
      BY <1>t, <2>1 DEF Await
    <2>3. UNCHANGED <<number, feed>>
      BY <1>4 DEF StartSend, chatVars
    <2>4. Spoken'
      BY <2>2, <2>3 DEF SpokenInv, Spoken
    <2>5. QED
      BY <1>0, <2>3, <2>4 DEF SpokenInv, SpokenAsNumbered
  <1>5. ASSUME NEW h \in Handlers,
               Join(h) \/ DrawNumber(h) \/ FindRaced(h) \/ StartVote(h) \/ CastVote(h)
        PROVE  SpokenInv'
    <2>1. UNCHANGED <<number, feed>>
      BY <1>5 DEF Join, DrawNumber, FindRaced, StartVote, CastVote, chatVars
    <2>2. ASSUME NEW c, c.at \notin {"announce", "send"}, call' = [call EXCEPT ![h] = c]
          PROVE  \A g \in Handlers : call'[g] = call[g] \/ call'[g].at \notin {"announce", "send"}
      BY <1>t, <2>2
    <2>3. CASE DrawNumber(h)
      <3>1. \A g \in Handlers : call'[g] = call[g] \/ call'[g].at \notin {"announce", "send"}
        BY <1>t, <2>3 DEF DrawNumber, Call
      <3>2. QED
        BY <1>0, <2>1, <3>1, SpokenFrame
    <2>4. CASE Join(h) \/ FindRaced(h) \/ StartVote(h) \/ CastVote(h)
      <3>1. \A g \in Handlers : call'[g] = call[g] \/ call'[g].at \notin {"announce", "send"}
        BY <2>2, <2>4 DEF Join, FindRaced, ReturnRaced, StartVote, CastVote, Return, Idle, Await
      <3>2. QED
        BY <1>0, <2>1, <3>1, SpokenFrame
    <2>5. QED
      BY <1>5, <2>3, <2>4
  <1>6. ASSUME \/ \E c \in Customers, o \in Offers : ShowInterest(c, o)
               \/ \E o \in Offers : OfferChanges(o)
               \/ UNCHANGED vars
        PROVE  SpokenInv'
    BY <1>0, <1>6, SpokenFrame DEF ShowInterest, OfferChanges, vars, chatVars
  <1>7. CASE Crash
    <2>1. UNCHANGED <<number, feed>> /\ \A h \in Handlers : call'[h].at = "idle"
      BY <1>7 DEF Crash, chatVars, Idle, Await
    <2>2. QED
      BY <1>0, <2>1, SpokenFrame
  <1>8. QED
    BY <1>1, <1>2, <1>3, <1>4, <1>5, <1>6, <1>7 DEF Next, JoinStep, SpeakStep

\* The number a message carries never parts from its author's row.
THEOREM SpokenAsNumberedHolds == Spec => []SpokenAsNumbered
  <1>1. Init => SpokenInv
    BY TypeInit DEF Init, SpokenInv, Spoken, SpokenAsNumbered, Idle, Await
  <1>2. SpokenInv => SpokenAsNumbered
    BY DEF SpokenInv
  <1>3. QED
    BY <1>1, <1>2, SpokenStep, PTL DEF Spec

-----------------------------------------------------------------------------
(* Ballots *)

\* A call about to vote is a member's, in a poll of its group.
Voting ==
    \A h \in Handlers :
        At(h, "vote") => /\ IsMember(call[h].offer, call[h].by)
                         /\ feed[call[h].message].type = "POLL"
                         /\ feed[call[h].message].offer = call[h].offer

BallotInv == TypeInv /\ Voting /\ BallotsInGroup

\* Members and messages only ever come: what a ballot or a vote rests on stays.
Grows ==
    /\ \A o \in Offers, c \in Customers : IsMember(o, c) => IsMember(o, c)'
    /\ DOMAIN feed \subseteq DOMAIN feed'
    /\ \A i \in DOMAIN feed : feed'[i] = feed[i]

LEMMA NextGrows == TypeInv /\ [Next]_vars => Grows
  <1> SUFFICES ASSUME TypeInv, [Next]_vars PROVE Grows
    OBVIOUS
  <1>t. /\ number \in [Offers -> [Customers -> Numbers \cup {NoNumber}]]
        /\ NoNumber \notin Numbers
    BY ChatAssumption DEF TypeInv, TypeOK, Numbers, NoNumber
  <1>1. CASE UNCHANGED <<number, feed>>
    BY <1>1 DEF Grows, IsMember
  <1>2. ASSUME NEW h \in Handlers, InsertMember(h) PROVE Grows
    <2>1. call[h].offer \in Offers /\ call[h].by \in Customers /\ call[h].number \in Numbers
      BY <1>2 DEF InsertMember, TypeInv, Locals, At
    <2>2. \/ number' = number
          \/ number' = [number EXCEPT ![call[h].offer][call[h].by] = call[h].number]
      BY <1>2 DEF InsertMember, KeepNumber
    <2>3. feed' = feed
      BY <1>2 DEF InsertMember
    <2>4. QED
      BY <1>t, <2>1, <2>2, <2>3 DEF Grows, IsMember
  <1>3. ASSUME NEW h \in Handlers, Announce(h) \/ SendMessage(h) PROVE Grows
    <2>1. UNCHANGED number /\ call[h].at \in {"announce", "send"}
      BY <1>3 DEF Announce, SendMessage, At
    <2>2. PICK type \in {"joined", "POLL", "other"} : Post(h, type)
      BY <1>3 DEF Announce, SendMessage
    <2>3. QED
      BY <2>1, <2>2, PostType DEF Grows, IsMember
  <1>4. QED
    BY <1>1, <1>2, <1>3
       DEF Next, JoinStep, SpeakStep, Join, DrawNumber, FindRaced, StartSend, StartVote, CastVote,
           ShowInterest, OfferChanges, Crash, vars, chatVars

\* Steps that cast no ballot and bring no call to its vote.
LEMMA BallotFrame ==
    ASSUME BallotInv, TypeInv', Grows, UNCHANGED votes,
           \A h \in Handlers : call'[h] = call[h] \/ call'[h].at # "vote"
    PROVE  BallotInv'
  <1>1. Voting'
    <2>1. ASSUME NEW h \in Handlers, call'[h].at = "vote"
          PROVE  /\ call'[h] = call[h] /\ call[h].offer \in Offers /\ call[h].by \in Customers
                 /\ call[h].message \in DOMAIN feed
                 /\ IsMember(call[h].offer, call[h].by)
                 /\ feed[call[h].message].type = "POLL"
                 /\ feed[call[h].message].offer = call[h].offer
      BY <2>1 DEF BallotInv, Voting, TypeInv, Locals, At
    <2>2. QED
      BY <2>1 DEF Voting, At, Grows, IsMember
  <1>2. BallotsInGroup'
    <2>1. votes \subseteq Vote
      BY DEF BallotInv, TypeInv, TypeOK
    <2>2. QED
      BY <2>1 DEF BallotInv, BallotsInGroup, SameBallot, Vote, Grows, IsMember
  <1>3. QED
    BY <1>1, <1>2 DEF BallotInv

LEMMA BallotStep == BallotInv /\ [Next]_vars => BallotInv'
  <1> SUFFICES ASSUME BallotInv, [Next]_vars PROVE BallotInv'
    OBVIOUS
  <1>0. TypeInv /\ TypeInv' /\ Grows
    BY TypeStep, NextGrows DEF BallotInv
  <1>t. call \in [Handlers -> Call] /\ votes \subseteq Vote
    BY <1>0 DEF TypeInv, TypeOK
  <1>1. ASSUME NEW h \in Handlers, StartVote(h) PROVE BallotInv'
    <2>1. PICK o \in Offers, i \in DOMAIN feed, c \in Customers :
            /\ IsMember(o, c) /\ PollOf(o, i)
            /\ call' = [call EXCEPT ![h] = Await("vote", o, c, NoNumber, i)]
      BY <1>1 DEF StartVote, Members
    <2>2. /\ call'[h].offer = o /\ call'[h].by = c /\ call'[h].message = i
          /\ \A g \in Handlers \ {h} : call'[g] = call[g]
      BY <1>t, <2>1 DEF Await
    <2>3. UNCHANGED <<number, feed, votes>>
      BY <1>1 DEF StartVote, chatVars
    <2>4. Voting'
      BY <2>1, <2>2, <2>3 DEF BallotInv, Voting, At, IsMember, PollOf
    <2>5. BallotsInGroup'
      BY <2>3 DEF BallotInv, BallotsInGroup, IsMember
    <2>6. QED
      BY <1>0, <2>4, <2>5 DEF BallotInv
  <1>2. ASSUME NEW h \in Handlers, CastVote(h) PROVE BallotInv'
    <2>1. PICK x \in Options :
            votes' = Upserted([message |-> call[h].message, offer |-> call[h].offer,
                               by |-> call[h].by, option |-> x])
      BY <1>2 DEF CastVote
    <2> DEFINE b == [message |-> call[h].message, offer |-> call[h].offer,
                     by |-> call[h].by, option |-> x]
    <2>2. /\ b.message \in DOMAIN feed /\ IsMember(b.offer, b.by)
          /\ feed[b.message].type = "POLL" /\ feed[b.message].offer = b.offer
      BY <1>0, <1>2 DEF CastVote, BallotInv, Voting, TypeInv, Locals, At
    <2>3. votes' = {w \in votes : ~SameBallot(b, w)} \cup {b}
      BY <2>1 DEF Upserted
    <2> HIDE DEF b
    <2>4. UNCHANGED <<number, feed>>
      BY <1>2 DEF CastVote
    <2>5. \A v \in votes' : v \in votes \/ v = b
      BY <2>3
    <2>6. \A v \in votes' : /\ v.message \in DOMAIN feed /\ IsMember(v.offer, v.by)
                            /\ feed[v.message].type = "POLL" /\ feed[v.message].offer = v.offer
      BY <2>2, <2>5 DEF BallotInv, BallotsInGroup
    <2>7. ASSUME NEW v \in votes', NEW w \in votes', SameBallot(v, w) PROVE v = w
      BY <2>3, <2>7 DEF BallotInv, BallotsInGroup, SameBallot
    <2>8. BallotsInGroup'
      BY <2>4, <2>6, <2>7 DEF BallotsInGroup, IsMember, SameBallot
    <2>9. Voting'
      <3>1. \A g \in Handlers : call'[g] = call[g] \/ call'[g].at # "vote"
        BY <1>2, <1>t DEF CastVote, Return, Idle, Await
      <3>2. QED
        BY <2>4, <3>1 DEF BallotInv, Voting, At, IsMember
    <2>10. QED
      BY <1>0, <2>8, <2>9 DEF BallotInv
  <1>3. ASSUME NEW h \in Handlers, JoinStep(h) \/ StartSend(h) \/ SendMessage(h)
        PROVE  BallotInv'
    <2>1. UNCHANGED votes
      BY <1>3 DEF JoinStep, Join, DrawNumber, InsertMember, FindRaced, Announce, StartSend,
                  SendMessage, chatVars
    <2>2. \E c : c.at # "vote" /\ call' = [call EXCEPT ![h] = c]
      <3>1. CASE DrawNumber(h)
        BY <1>t, <3>1 DEF DrawNumber, Call
      <3>2. CASE InsertMember(h)
        BY <1>t, <3>2 DEF InsertMember, Goto, Call
      <3>3. CASE Join(h) \/ StartSend(h)
        BY <3>3 DEF Join, StartSend, Await
      <3>4. CASE FindRaced(h) \/ Announce(h) \/ SendMessage(h)
        BY <3>4 DEF FindRaced, ReturnRaced, Announce, SendMessage, Return, Idle, Await
      <3>5. QED
        BY <1>3, <3>1, <3>2, <3>3, <3>4 DEF JoinStep
    <2>3. \A g \in Handlers : call'[g] = call[g] \/ call'[g].at # "vote"
      BY <1>t, <2>2
    <2>4. QED
      BY <1>0, <2>1, <2>3, BallotFrame
  <1>4. ASSUME \/ \E c \in Customers, o \in Offers : ShowInterest(c, o)
               \/ \E o \in Offers : OfferChanges(o)
               \/ Crash \/ UNCHANGED vars
        PROVE  BallotInv'
    <2>1. UNCHANGED votes
      BY <1>4 DEF ShowInterest, OfferChanges, Crash, vars, chatVars
    <2>2. call' = call \/ call' = [h \in Handlers |-> Idle]
      BY <1>4 DEF ShowInterest, OfferChanges, Crash, vars
    <2>3. \A g \in Handlers : call'[g] = call[g] \/ call'[g].at # "vote"
      BY <2>2 DEF Idle, Await
    <2>4. QED
      BY <1>0, <2>1, <2>3, BallotFrame
  <1>5. QED
    BY <1>1, <1>2, <1>3, <1>4 DEF Next, SpeakStep

\* BallotsInGroup: whatever message id a vote names, its ballot ends up in a
\* poll of the voter's own group, and a second vote replaces the first.
THEOREM BallotsStayInGroup == Spec => []BallotsInGroup
  <1>1. Init => BallotInv
    BY TypeInit DEF Init, BallotInv, Voting, BallotsInGroup, At, Idle, Await
  <1>2. BallotInv => BallotsInGroup
    BY DEF BallotInv
  <1>3. QED
    BY <1>1, <1>2, BallotStep, PTL DEF Spec

-----------------------------------------------------------------------------
(* Writing to a chat that has ended *)

\* The calls past assertOfferOpen whose offer has stopped being open since.
Stale == {h \in Handlers : call[h].at \in {"send", "vote"} /\ ~Open(call[h].offer)}

\* Every such call writes once at most, and an ending leaves no more of them
\* than there are handlers.
LateInv == TypeInv /\ late + Cardinality(Stale) <= endings * Cardinality(Handlers)

LEMMA StaleFinite ==
    /\ IsFiniteSet(Stale) /\ Cardinality(Stale) \in Nat
    /\ Cardinality(Stale) <= Cardinality(Handlers) /\ Cardinality(Handlers) \in Nat
  <1>1. Stale \subseteq Handlers
    BY DEF Stale
  <1>2. QED
    BY <1>1, ChatAssumption, FS_Subset, FS_CardinalityType

\* Steps that end no offer's sale, write nothing late and add no such call.
LEMMA LateFrame ==
    ASSUME LateInv, TypeInv', UNCHANGED <<endings, late>>, Stale' \subseteq Stale
    PROVE  LateInv'
  <1>1. Cardinality(Stale') <= Cardinality(Stale) /\ Cardinality(Stale') \in Nat
    BY StaleFinite, FS_Subset, FS_CardinalityType
  <1>2. late \in Nat /\ endings \in Nat
    BY DEF LateInv, TypeInv, TypeOK
  <1>3. endings * Cardinality(Handlers) \in Nat
    BY <1>2, StaleFinite
  <1>4. endings' * Cardinality(Handlers) = endings * Cardinality(Handlers) /\ late' = late
    OBVIOUS
  <1>5. QED
    BY <1>1, <1>2, <1>3, <1>4, StaleFinite DEF LateInv

\* A write takes its call out of the stale ones, if it was one.
LEMMA WriteLate ==
    ASSUME LateInv, TypeInv', NEW h \in Handlers, call[h].at \in {"send", "vote"},
           Written(call[h].offer), Return(h), UNCHANGED <<offer, endings>>
    PROVE  LateInv'
  <1>1. call \in [Handlers -> Call] /\ late \in Nat /\ endings \in Nat
    BY DEF LateInv, TypeInv, TypeOK
  <1>2. call'[h].at = "idle" /\ \A g \in Handlers \ {h} : call'[g] = call[g]
    BY <1>1 DEF Return, Idle, Await
  <1>3. Stale' = Stale \ {h}
    BY <1>2 DEF Stale, Open
  <1>4. CASE h \in Stale
    <2>1. late' = late + 1
      BY <1>4 DEF Written, Stale, Open
    <2>2. Cardinality(Stale') = Cardinality(Stale) - 1
      BY <1>3, <1>4, StaleFinite, FS_RemoveElement
    <2>3. endings * Cardinality(Handlers) \in Nat
      BY <1>1, StaleFinite
    <2>4. QED
      BY <1>1, <2>1, <2>2, <2>3, StaleFinite DEF LateInv
  <1>5. CASE h \notin Stale
    <2>1. late' = late
      BY <1>1, <1>5 DEF Written, Stale, Open
    <2>2. QED
      BY <1>3, <2>1, LateFrame
  <1>6. QED
    BY <1>4, <1>5

LEMMA LateStep == LateInv /\ [Next]_vars => LateInv'
  <1> SUFFICES ASSUME LateInv, [Next]_vars PROVE LateInv'
    OBVIOUS
  <1>0. TypeInv /\ TypeInv'
    BY TypeStep DEF LateInv
  <1>t. call \in [Handlers -> Call] /\ late \in Nat /\ endings \in Nat
    BY <1>0 DEF TypeInv, TypeOK
  <1>1. ASSUME NEW h \in Handlers, SendMessage(h) \/ CastVote(h) PROVE LateInv'
    BY <1>0, <1>1, WriteLate DEF SendMessage, CastVote, At
  <1>2. ASSUME NEW h \in Handlers, NEW c, call' = [call EXCEPT ![h] = c],
               c.at \in {"send", "vote"} => Open(c.offer), UNCHANGED <<offer, endings, late>>
        PROVE  LateInv'
    <2>1. Stale' \subseteq Stale
      BY <1>2, <1>t DEF Stale, Open
    <2>2. QED
      BY <1>0, <1>2, <2>1, LateFrame
  <1>3. ASSUME NEW h \in Handlers, JoinStep(h) \/ StartSend(h) \/ StartVote(h) PROVE LateInv'
    <2>1. UNCHANGED <<offer, endings, late>>
      BY <1>3 DEF JoinStep, Join, DrawNumber, InsertMember, FindRaced, Announce, StartSend,
                  StartVote, chatVars, history
    <2>2. \E c : /\ c.at \in {"send", "vote"} => Open(c.offer)
                 /\ call' = [call EXCEPT ![h] = c]
      <3>1. CASE DrawNumber(h)
        BY <1>t, <3>1 DEF DrawNumber, Call
      <3>2. CASE InsertMember(h)
        BY <1>t, <3>2 DEF InsertMember, Goto, Call
      <3>3. CASE Join(h)
        BY <3>3 DEF Join, Await
      <3>4. CASE StartSend(h) \/ StartVote(h)
        BY <3>4 DEF StartSend, StartVote, Await
      <3>5. CASE FindRaced(h) \/ Announce(h)
        BY <3>5 DEF FindRaced, ReturnRaced, Announce, Return, Idle, Await
      <3>6. QED
        BY <1>3, <3>1, <3>2, <3>3, <3>4, <3>5 DEF JoinStep
    <2>3. QED
      BY <1>2, <2>1, <2>2
  <1>4. ASSUME NEW o \in Offers, OfferChanges(o) PROVE LateInv'
    <2>1. UNCHANGED <<call, late>> /\ \A p \in Offers \ {o} : offer'[p] = offer[p]
      BY <1>0, <1>4 DEF OfferChanges, TypeInv, TypeOK
    <2>2. CASE offer[o] = "active"
      <3>1. endings' = endings + 1
        BY <1>4, <2>2 DEF OfferChanges
      <3>2. late <= endings * Cardinality(Handlers)
        <4>1. endings * Cardinality(Handlers) \in Nat
          BY <1>t, StaleFinite
        <4>2. QED
          BY <1>t, <4>1, StaleFinite DEF LateInv
      <3>3. /\ endings' * Cardinality(Handlers)
                 = endings * Cardinality(Handlers) + Cardinality(Handlers)
            /\ endings * Cardinality(Handlers) \in Nat
        BY <1>t, <3>1, StaleFinite
      <3>4. Cardinality(Stale') \in Nat /\ Cardinality(Stale') <= Cardinality(Handlers)
        <4>1. Stale' \subseteq Handlers
          BY DEF Stale
        <4>2. QED
          BY <4>1, ChatAssumption, FS_Subset, FS_CardinalityType
      <3>5. QED
        BY <1>0, <1>t, <2>1, <3>2, <3>3, <3>4, StaleFinite DEF LateInv
    <2>3. CASE offer[o] # "active"
      <3>1. endings' = endings
        BY <1>4, <2>3 DEF OfferChanges
      <3>2. Stale' \subseteq Stale
        <4>1. \A h \in Handlers : call[h].at \in {"send", "vote"} => call[h].offer \in Offers
          BY <1>0 DEF TypeInv, Locals, At
        <4>2. QED
          BY <2>1, <2>3, <4>1 DEF Stale, Open
      <3>3. QED
        BY <1>0, <2>1, <3>1, <3>2, LateFrame
    <2>4. QED
      BY <2>2, <2>3
  <1>5. ASSUME \/ \E c \in Customers, o \in Offers : ShowInterest(c, o)
               \/ Crash \/ UNCHANGED vars
        PROVE  LateInv'
    <2>1. UNCHANGED <<offer, endings, late>>
      BY <1>5 DEF ShowInterest, Crash, vars, history
    <2>2. call' = call \/ call' = [h \in Handlers |-> Idle]
      BY <1>5 DEF ShowInterest, Crash, vars
    <2>3. Stale' \subseteq Stale
      BY <2>1, <2>2 DEF Stale, Open, Idle, Await
    <2>4. QED
      BY <1>0, <2>1, <2>3, LateFrame
  <1>6. QED
    BY <1>1, <1>3, <1>4, <1>5 DEF Next, SpeakStep

\* LateBounded: a chat whose offer has ended is written to only by the calls
\* that were past assertOfferOpen already, for any number of them.
THEOREM LateAlwaysBounded == Spec => []LateBounded
  <1>1. Init => LateInv
    <2>1. ASSUME Init PROVE Stale = {}
      BY <2>1 DEF Init, Stale, Idle, Await
    <2>2. ASSUME Init PROVE late + Cardinality(Stale) <= endings * Cardinality(Handlers)
      BY <2>1, <2>2, FS_EmptySet, StaleFinite DEF Init
    <2>3. QED
      BY <2>2, TypeInit DEF LateInv
  <1>2. LateInv => LateBounded
    <2>1. ASSUME LateInv PROVE late \in Nat /\ endings * Cardinality(Handlers) \in Nat
      BY <2>1, StaleFinite DEF LateInv, TypeInv, TypeOK
    <2>2. QED
      BY <2>1, StaleFinite DEF LateInv, LateBounded
  <1>3. QED
    BY <1>1, <1>2, LateStep, PTL DEF Spec

-----------------------------------------------------------------------------
(* Announcements *)

AnnounceInv == TypeInv /\ AnnouncedOnce

LEMMA AnnounceFinite ==
    ASSUME TypeInv, NEW o \in Offers, NEW c \in Customers
    PROVE  /\ IsFiniteSet(Announcements(o, c)) /\ Cardinality(Announcements(o, c)) \in Nat
           /\ IsFiniteSet(Announcing(o, c)) /\ Cardinality(Announcing(o, c)) \in Nat
  <1>1. IsFiniteSet(DOMAIN feed)
    <2>1. DOMAIN feed = 1 .. Len(feed) /\ Len(feed) \in Nat
      BY DEF TypeInv, TypeOK
    <2>2. QED
      BY <2>1, FS_Interval
  <1>2. Announcements(o, c) \subseteq DOMAIN feed /\ Announcing(o, c) \subseteq Handlers
    BY DEF Announcements, Announcing
  <1>3. QED
    BY <1>1, <1>2, ChatAssumption, FS_Subset, FS_CardinalityType

\* What has been announced and what is about to be, before and after a step.
Made(o, c) == Cardinality(Announcements(o, c)) + Cardinality(Announcing(o, c))

\* Nothing a step does to other members matters to one.
SameFor(o, c) ==
    /\ IsMember(o, c)' = IsMember(o, c)
    /\ Announcements(o, c)' = Announcements(o, c)
    /\ Announcing(o, c)' = Announcing(o, c)

Once(o, c) ==
    IF IsMember(o, c) THEN Made(o, c) <= 1 /\ (crashes = 0 => Made(o, c) = 1)
                      ELSE Made(o, c) = 0

LEMMA OnceForAll ==
    /\ AnnouncedOnce <=> \A o \in Offers, c \in Customers : Once(o, c)
    /\ AnnouncedOnce' <=> \A o \in Offers, c \in Customers : Once(o, c)'
  BY DEF AnnouncedOnce, Once, Made

LEMMA OnceFrame ==
    ASSUME NEW o \in Offers, NEW c \in Customers, Once(o, c), SameFor(o, c), UNCHANGED crashes
    PROVE  Once(o, c)'
  BY DEF Once, Made, SameFor

\* A handler that is neither where the announcement is made nor comes there.
LEMMA AnnounceFrame ==
    ASSUME AnnounceInv, TypeInv', UNCHANGED <<number, feed, crashes>>,
           \A h \in Handlers : call'[h] = call[h]
                                 \/ (call[h].at # "announce" /\ call'[h].at # "announce")
    PROVE  AnnounceInv'
  <1>1. ASSUME NEW o \in Offers, NEW c \in Customers PROVE SameFor(o, c)
    BY DEF SameFor, IsMember, Announcements, Announcing, At
  <1>2. QED
    BY <1>1, OnceFrame, OnceForAll DEF AnnounceInv

\* A post appends one message, of its author's.
LEMMA PostAnnounces ==
    ASSUME TypeInv, NEW h \in Handlers, NEW type \in {"joined", "POLL", "other"},
           call[h].at \in {"announce", "send"}, Post(h, type),
           NEW o \in Offers, NEW c \in Customers
    PROVE  /\ Len(feed) + 1 \notin Announcements(o, c)
           /\ Announcements(o, c)' =
                IF type = "joined" /\ call[h].offer = o /\ call[h].by = c
                  THEN Announcements(o, c) \cup {Len(feed) + 1} ELSE Announcements(o, c)
  <1>1. feed \in Seq(Message) /\ Len(feed) \in Nat /\ DOMAIN feed = 1 .. Len(feed)
    BY DEF TypeInv, TypeOK
  <1>2. /\ DOMAIN feed' = 1 .. Len(feed) + 1
        /\ \A i \in 1 .. Len(feed) : feed'[i] = feed[i]
        /\ feed'[Len(feed) + 1] = [offer |-> call[h].offer, by |-> call[h].by,
                                   number |-> call[h].number, type |-> type]
    <2>1. [offer |-> call[h].offer, by |-> call[h].by, number |-> call[h].number,
           type |-> type] \in Message
      BY DEF TypeInv, Locals, At, Message
    <2>2. QED
      BY <1>1, <2>1 DEF Post
  <1>3. QED
    BY <1>1, <1>2 DEF Announcements

LEMMA AnnounceStep == AnnounceInv /\ [Next]_vars => AnnounceInv'
  <1> SUFFICES ASSUME AnnounceInv, [Next]_vars PROVE AnnounceInv'
    OBVIOUS
  <1>0. TypeInv /\ TypeInv' /\ \A o \in Offers, c \in Customers : Once(o, c)
    BY TypeStep, OnceForAll DEF AnnounceInv
  <1>t. /\ call \in [Handlers -> Call]
        /\ number \in [Offers -> [Customers -> Numbers \cup {NoNumber}]]
        /\ NoNumber \notin Numbers
    BY <1>0, ChatAssumption DEF TypeInv, TypeOK, Numbers, NoNumber
  <1>1. ASSUME NEW h \in Handlers, Announce(h) PROVE AnnounceInv'
    <2> DEFINE p == call[h].offer
               d == call[h].by
    <2>1. /\ Post(h, "joined") /\ At(h, "announce") /\ UNCHANGED <<number, crashes>>
          /\ call'[h].at = "idle" /\ \A g \in Handlers \ {h} : call'[g] = call[g]
      BY <1>1, <1>t DEF Announce, Return, Idle, Await, history
    <2>2. ASSUME NEW o \in Offers, NEW c \in Customers PROVE Once(o, c)'
      <3>1. IsMember(o, c)' = IsMember(o, c)
        BY <2>1 DEF IsMember
      <3>2. CASE o = p /\ c = d
        <4>1. /\ Announcements(o, c)' = Announcements(o, c) \cup {Len(feed) + 1}
              /\ Len(feed) + 1 \notin Announcements(o, c)
          BY <1>0, <2>1, <3>2, PostAnnounces DEF At
        <4>2. h \in Announcing(o, c) /\ Announcing(o, c)' = Announcing(o, c) \ {h}
          BY <2>1, <3>2 DEF Announcing, At
        <4>3. Cardinality(Announcements(o, c)') = Cardinality(Announcements(o, c)) + 1
          BY <1>0, <4>1, AnnounceFinite, FS_AddElement
        <4>4. Cardinality(Announcing(o, c)') = Cardinality(Announcing(o, c)) - 1
          BY <1>0, <4>2, AnnounceFinite, FS_RemoveElement
        <4>5. Made(o, c)' = Made(o, c)
          BY <1>0, <4>3, <4>4, AnnounceFinite DEF Made
        <4>6. QED
          BY <1>0, <2>1, <3>1, <4>5 DEF Once
      <3>3. CASE ~(o = p /\ c = d)
        <4>1. Announcements(o, c)' = Announcements(o, c)
          BY <1>0, <2>1, <3>3, PostAnnounces DEF At
        <4>2. Announcing(o, c)' = Announcing(o, c)
          BY <2>1, <3>3 DEF Announcing, At
        <4>3. QED
          BY <1>0, <2>1, <3>1, <4>1, <4>2, OnceFrame DEF SameFor
      <3>4. QED
        BY <3>2, <3>3
    <2>3. QED
      BY <1>0, <2>2, OnceForAll DEF AnnounceInv
  <1>2. ASSUME NEW h \in Handlers, InsertMember(h) PROVE AnnounceInv'
    <2> DEFINE p == call[h].offer
               d == call[h].by
               n == call[h].number
    <2>1. /\ p \in Offers /\ d \in Customers /\ n \in Numbers /\ call[h].at = "insert"
          /\ UNCHANGED <<feed, crashes>>
      BY <1>0, <1>2 DEF InsertMember, TypeInv, Locals, At, history
    <2>2. CASE number' = number /\ Goto(h, "raced")
      <3>1. call'[h].at = "raced" /\ \A g \in Handlers \ {h} : call'[g] = call[g]
        BY <2>2, <1>t, GotoType DEF Awaits
      <3>2. QED
        BY <1>0, <2>1, <2>2, <3>1, AnnounceFrame
    <2>3. CASE ~Refused(h) /\ number' = [number EXCEPT ![p][d] = n] /\ Goto(h, "announce")
      <3>1. /\ call'[h].at = "announce" /\ call'[h].offer = p /\ call'[h].by = d
            /\ \A g \in Handlers \ {h} : call'[g] = call[g]
        BY <2>3, <1>t, GotoType DEF Awaits
      <3>2. \A o \in Offers, c \in Customers :
                number'[o][c] = IF o = p /\ c = d THEN n ELSE number[o][c]
        BY <1>t, <2>1, <2>3
      <3>3. ~IsMember(p, d)
        BY <2>3 DEF Refused
      <3>4. ASSUME NEW o \in Offers, NEW c \in Customers PROVE Once(o, c)'
        <4>0. Announcements(o, c)' = Announcements(o, c)
          BY <2>1 DEF Announcements
        <4>1. CASE o = p /\ c = d
          <5>1. Made(o, c) = 0
            BY <1>0, <3>3, <4>1 DEF Once
          <5>2. Cardinality(Announcements(o, c)) = 0 /\ Cardinality(Announcing(o, c)) = 0
            BY <1>0, <5>1, AnnounceFinite DEF Made
          <5>3. Announcing(o, c) = {}
            BY <1>0, <5>2, AnnounceFinite, FS_EmptySet
          <5>4. Announcing(o, c)' = {h}
            BY <3>1, <4>1, <5>3 DEF Announcing, At
          <5>5. Cardinality(Announcing(o, c)') = 1
            BY <5>4, FS_Singleton
          <5>6. Made(o, c)' = 1
            BY <4>0, <5>2, <5>5 DEF Made
          <5>7. IsMember(o, c)'
            BY <1>t, <2>1, <3>2, <4>1 DEF IsMember
          <5>8. QED
            BY <5>6, <5>7 DEF Once
        <4>2. CASE ~(o = p /\ c = d)
          <5>1. Announcing(o, c)' = Announcing(o, c)
            BY <2>1, <3>1, <4>2 DEF Announcing, At
          <5>2. IsMember(o, c)' = IsMember(o, c)
            BY <3>2, <4>2 DEF IsMember
          <5>3. QED
            BY <1>0, <2>1, <4>0, <5>1, <5>2, OnceFrame DEF SameFor
        <4>3. QED
          BY <4>1, <4>2
      <3>5. QED
        BY <1>0, <3>4, OnceForAll DEF AnnounceInv
    <2>4. QED
      BY <1>2, <2>2, <2>3 DEF InsertMember, KeepNumber
  <1>3. ASSUME NEW h \in Handlers, SendMessage(h) PROVE AnnounceInv'
    <2>1. PICK type \in {"POLL", "other"} : Post(h, type)
      BY <1>3 DEF SendMessage
    <2>2. /\ call[h].at = "send" /\ UNCHANGED <<number, crashes>>
          /\ call'[h].at = "idle" /\ \A g \in Handlers \ {h} : call'[g] = call[g]
      BY <1>3, <1>t DEF SendMessage, Return, Idle, Await, At
    <2>3. ASSUME NEW o \in Offers, NEW c \in Customers PROVE Once(o, c)'
      <3>1. Announcements(o, c)' = Announcements(o, c)
        BY <1>0, <2>1, <2>2, PostAnnounces
      <3>2. Announcing(o, c)' = Announcing(o, c) /\ IsMember(o, c)' = IsMember(o, c)
        BY <2>2 DEF Announcing, At, IsMember
      <3>3. QED
        BY <1>0, <2>2, <3>1, <3>2, OnceFrame DEF SameFor
    <2>4. QED
      BY <1>0, <2>3, OnceForAll DEF AnnounceInv
  <1>4. ASSUME NEW h \in Handlers,
               \/ Join(h) \/ DrawNumber(h) \/ FindRaced(h) \/ StartSend(h) \/ StartVote(h)
               \/ CastVote(h)
        PROVE  AnnounceInv'
    <2>1. UNCHANGED <<number, feed, crashes>> /\ call[h].at # "announce"
      BY <1>4 DEF Join, DrawNumber, FindRaced, StartSend, StartVote, CastVote, chatVars, history, At
    <2>2. \E c : c.at # "announce" /\ call' = [call EXCEPT ![h] = c]
      <3>1. CASE DrawNumber(h)
        <4> DEFINE d == [call[h] EXCEPT !.at = "insert", !.number = NextNumber(call[h].offer)]
        <4>1. call' = [call EXCEPT ![h] = d]
          BY <3>1 DEF DrawNumber
        <4>2. d.at = "insert"
          BY <1>t DEF Call
        <4>3. QED
          BY <4>1, <4>2
      <3>2. CASE Join(h) \/ StartSend(h) \/ StartVote(h)
        BY <3>2 DEF Join, StartSend, StartVote, Await
      <3>3. CASE FindRaced(h) \/ CastVote(h)
        BY <3>3 DEF FindRaced, ReturnRaced, CastVote, Return, Idle, Await
      <3>4. QED
        BY <1>4, <3>1, <3>2, <3>3
    <2>3. QED
      BY <1>0, <1>t, <2>1, <2>2, AnnounceFrame
  <1>5. ASSUME \/ \E c \in Customers, o \in Offers : ShowInterest(c, o)
               \/ \E o \in Offers : OfferChanges(o)
               \/ UNCHANGED vars
        PROVE  AnnounceInv'
    BY <1>0, <1>5, AnnounceFrame DEF ShowInterest, OfferChanges, vars, chatVars, history
  <1>6. CASE Crash
    <2>1. /\ UNCHANGED <<number, feed>> /\ crashes' # 0
          /\ \A h \in Handlers : call'[h].at = "idle"
      BY <1>6 DEF Crash, chatVars, Idle, Await
    <2>2. ASSUME NEW o \in Offers, NEW c \in Customers PROVE Once(o, c)'
      <3>1. /\ Announcements(o, c)' = Announcements(o, c)
            /\ IsMember(o, c)' = IsMember(o, c)
            /\ Announcing(o, c)' = {}
        BY <2>1 DEF Announcements, Announcing, At, IsMember
      <3>2. Cardinality(Announcing(o, c)') = 0
        BY <3>1, FS_EmptySet
      <3>3. Made(o, c)' <= Made(o, c) /\ Made(o, c)' \in Nat /\ Made(o, c) \in Nat
        BY <1>0, <3>1, <3>2, AnnounceFinite DEF Made
      <3>4. QED
        BY <1>0, <2>1, <3>1, <3>3 DEF Once
    <2>3. QED
      BY <1>0, <2>2, OnceForAll DEF AnnounceInv
  <1>7. QED
    BY <1>1, <1>2, <1>3, <1>4, <1>5, <1>6 DEF Next, JoinStep, SpeakStep

\* AnnouncedOnce: however often a customer joins, one announcement is written
\* or under way, or a crash has lost it.
THEOREM AnnouncedOnceHolds == Spec => []AnnouncedOnce
  <1>1. Init => AnnounceInv
    <2>1. ASSUME Init, NEW o \in Offers, NEW c \in Customers PROVE Once(o, c)
      <3>1. Announcements(o, c) = {} /\ Announcing(o, c) = {} /\ ~IsMember(o, c)
        BY <2>1 DEF Init, Announcements, Announcing, IsMember, At, Idle, Await
      <3>2. QED
        BY <3>1, FS_EmptySet DEF Once, Made
    <2>2. QED
      BY <2>1, TypeInit, OnceForAll DEF AnnounceInv
  <1>2. AnnounceInv => AnnouncedOnce
    BY DEF AnnounceInv
  <1>3. QED
    BY <1>1, <1>2, AnnounceStep, PTL DEF Spec
-----------------------------------------------------------------------------
(* What a message can say and what a feed shows, for every catalogue       *)

(* Two times of day that read the same are the same: the clock of twelve   *)
(* hours formatTime writes tells noon from midnight and morning from       *)
(* evening, so nobody is asked to come twelve hours early.                 *)
THEOREM TimesReadApart ==
  ASSUME NEW s \in (0 .. 23) \X (0 .. 59), NEW t \in (0 .. 23) \X (0 .. 59),
         Chat!FormatTime(s) = Chat!FormatTime(t)
  PROVE  s = t
<1> DEFINE H(x) == IF x[1] % 12 = 0 THEN 12 ELSE x[1] % 12
           PM(x) == IF x[1] >= 12 THEN "PM" ELSE "AM"
<1>1. H(s) = H(t) /\ s[2] = t[2] /\ PM(s) = PM(t)
  BY DEF Chat!FormatTime
<1>2. (s[1] >= 12) <=> (t[1] >= 12)
  BY <1>1
<1>3. s[1] \in 0 .. 23 /\ t[1] \in 0 .. 23
  OBVIOUS
<1>4. s[1] % 12 \in 0 .. 11 /\ t[1] % 12 \in 0 .. 11
  BY <1>3
<1>5. s[1] % 12 = t[1] % 12
  BY <1>1, <1>4
<1>6. \A h \in 0 .. 23 : h % 12 = IF h >= 12 THEN h - 12 ELSE h
  OBVIOUS
<1>7. s[1] = t[1]
  BY <1>2, <1>3, <1>5, <1>6
<1> QED
  BY <1>1, <1>7

(* The same selection makes the same poll, in whatever order it was sent:  *)
(* two polls of one template whose options are the same set are stored     *)
(* alike, unless one of them was refused.                                  *)
THEOREM PollForgetsOrder ==
  ASSUME NEW p, NEW q,
         p.templateId = q.templateId, p.templateId # "LOCATION",
         Chat!Elements(p.optionIds) = Chat!Elements(q.optionIds),
         Chat!ResolvePoll(p) # Chat!BadRequest, Chat!ResolvePoll(q) # Chat!BadRequest
  PROVE  Chat!ResolvePoll(p) = Chat!ResolvePoll(q)
BY DEF Chat!ResolvePoll

\* The texts there are: of the catalogues, a date and time, or a place.
Texts ==
    {<<"Proposed", d, Chat!FormatTime(t)>> :
       d \in {<<x[1], x[2], x[3]>> : x \in Int \X Int \X Int},
       t \in (0 .. 23) \X (0 .. 59)}
      \cup {<<"At", Chat!SharedLocation>>}
      \cup {<<"At", Printable[l]>> : l \in DOMAIN Printable \ Suspicious}
      \cup {<<t>> : t \in DOMAIN POLL_TEMPLATES \cup {"LOCATION"}}
      \cup {QUICK_REPLIES[r] : r \in DOMAIN QUICK_REPLIES}

Group == {"TEXT", "DATE_TIME", "LOCATION", "POLL", "QUICK_REPLY"}

(* Nobody says anything in words of their own: whatever the payload, the   *)
(* text renderGroupMessage gives is one the catalogues contain, a date and *)
(* a time, or the name of a place with the control characters removed;     *)
(* free text itself is refused.                                            *)
THEOREM OnlyStructuredText ==
  ASSUME NEW type, NEW p,
         type = "DATE_TIME" => /\ p.date \in (Int \X Int \X Int) \cup {None}
                               /\ p.time \in (Nat \X Nat) \cup {None},
         type = "LOCATION" => p.label \in DOMAIN Printable \cup {None},
         Chat!RenderGroupMessage(type, p) # Chat!BadRequest
  PROVE  /\ Chat!RenderGroupMessage(type, p).text \in Texts
         /\ type # "TEXT"
<1> DEFINE r == Chat!RenderGroupMessage(type, p)
<1>1. CASE type = "DATE_TIME"
  <2>1. Chat!ValidateDateTimePayload(p) /\ r.text = <<"Proposed", p.date, Chat!FormatTime(p.time)>>
    BY <1>1 DEF Chat!RenderGroupMessage, Chat!Rendered
  <2>2. p.date \in Int \X Int \X Int /\ p.time \in (0 .. 23) \X (0 .. 59)
    BY <1>1, <2>1 DEF Chat!ValidateDateTimePayload
  <2>3. p.date = <<p.date[1], p.date[2], p.date[3]>>
    BY <2>2
  <2> QED
    BY <1>1, <2>1, <2>2, <2>3 DEF Texts
<1>2. CASE type = "LOCATION"
  <2>1. Chat!ValidateLocationPayload(p) /\ r.text = <<"At", Chat!SanitizeLabel(p.label)>>
    BY <1>2 DEF Chat!RenderGroupMessage, Chat!Rendered
  <2>2. p.label \in DOMAIN Printable \ Suspicious
    BY <1>2, <2>1 DEF Chat!ValidateLocationPayload
  <2> QED
    BY <1>2, <2>1, <2>2 DEF Texts, Chat!SanitizeLabel
<1>3. CASE type = "POLL"
  <2>1. r = Chat!ResolvePoll(p)
    BY <1>3 DEF Chat!RenderGroupMessage
  <2>2. r.text = <<p.templateId>> /\ p.templateId \in DOMAIN POLL_TEMPLATES \cup {"LOCATION"}
    BY <2>1 DEF Chat!ResolvePoll, Chat!Rendered
  <2> QED
    BY <1>3, <2>2 DEF Texts
<1>4. CASE type = "QUICK_REPLY"
  <2>1. p.replyId \in DOMAIN QUICK_REPLIES /\ r.text = QUICK_REPLIES[p.replyId]
    BY <1>4 DEF Chat!RenderGroupMessage, Chat!Rendered
  <2> QED
    BY <1>4, <2>1 DEF Texts
<1>5. CASE type \notin {"DATE_TIME", "LOCATION", "POLL", "QUICK_REPLY"}
  <2>1. r = Chat!BadRequest
    BY <1>5 DEF Chat!RenderGroupMessage
  <2> QED
    BY <2>1
<1> QED
  BY <1>1, <1>2, <1>3, <1>4, <1>5

\* Nobody has blocked themselves.
NoSelfBlock(blocks) == \A b \in blocks : b[2] # b[3]

(* A member's own messages are never hidden from them, however they block, *)
(* unblock and block again: blockMember refuses the member itself, so the  *)
(* feed getMessages builds always contains what its reader has said.       *)
THEOREM OwnMessagesAlwaysShown ==
  ASSUME NEW blocks, NoSelfBlock(blocks)
  PROVE  /\ \A g, m, t, h : NoSelfBlock(Chat!BlockMember(blocks, g, m, t, h))
         /\ \A g, m, t : NoSelfBlock(Chat!UnblockMember(blocks, g, m, t))
         /\ \A said, cast, g, m : \A i \in DOMAIN said :
              said[i].group = g /\ said[i].by = m
                => i \in DOMAIN Chat!GetMessages(said, cast, blocks, g, m)
<1>1. \A g, m, t, h : NoSelfBlock(Chat!BlockMember(blocks, g, m, t, h))
  BY DEF NoSelfBlock, Chat!BlockMember
<1>2. \A g, m, t : NoSelfBlock(Chat!UnblockMember(blocks, g, m, t))
  BY DEF NoSelfBlock, Chat!UnblockMember
<1>3. ASSUME NEW said, NEW cast, NEW g, NEW m, NEW i \in DOMAIN said,
             said[i].group = g, said[i].by = m
      PROVE  i \in DOMAIN Chat!GetMessages(said, cast, blocks, g, m)
  <2>1. <<g, m, m>> \notin blocks
    BY DEF NoSelfBlock
  <2> QED
    BY <1>3, <2>1 DEF Chat!GetMessages, Chat!Visible
<1> QED
  BY <1>1, <1>2, <1>3

(* Blocking one member changes what one reader sees of one author, in one  *)
(* group, and nothing else; unblocking gives exactly that back.            *)
THEOREM BlockHidesOneAuthor ==
  ASSUME NEW said, NEW cast, NEW blocks, NEW g, NEW m, NEW t, t # m, NEW h, NEW reader,
         <<g, m, t>> \notin blocks
  PROVE  /\ Chat!Visible(said, Chat!BlockMember(blocks, g, m, t, g), h, reader)
              = {i \in Chat!Visible(said, blocks, h, reader) :
                   ~(h = g /\ reader = m /\ said[i].by = t)}
         /\ Chat!UnblockMember(Chat!BlockMember(blocks, g, m, t, g), g, m, t) = blocks
<1>1. Chat!BlockMember(blocks, g, m, t, g) = blocks \cup {<<g, m, t>>}
  BY DEF Chat!BlockMember
<1>2. \A a : <<h, reader, a>> = <<g, m, t>> <=> h = g /\ reader = m /\ a = t
  OBVIOUS
<1> QED
  BY <1>1, <1>2 DEF Chat!Visible, Chat!UnblockMember
=============================================================================
