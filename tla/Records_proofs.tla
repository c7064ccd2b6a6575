---------------------------- MODULE Records_proofs ----------------------------
(***************************************************************************)
(* A column that is read and written back whole keeps what was put in it,  *)
(* for any number of businesses, tickets, files, messages and calls, as    *)
(* long as no two calls rewrite it together.  The reason is that the only  *)
(* call rewriting a column has read it as it still is.  And what a push    *)
(* that fails may and may not do, for every answer of the push service.    *)
(***************************************************************************)
EXTENDS Records, TLAPS

Push == INSTANCE Notifications

Ops == {"none", "upload", "remove", "chat", "reply", "status"}
OnGallery(c) == c.op \in {"upload", "remove"}
OnTicket(c) == c.op \in {"chat", "reply", "status"}

Calls == [op : Ops, on : Businesses \cup Tickets \cup {None},
          fields : SUBSET (Singles \cup {"gallery"} \cup Statuses), file : Nat,
          seen : (SUBSET Nat) \cup Seq(Nat)]

Types ==
    /\ gallery \in [Businesses -> SUBSET Nat] /\ uploaded \in [Businesses -> SUBSET Nat]
    /\ ticket \in [Tickets -> [owner : Users \cup {"guest", None}, status : Statuses,
                               description : Seq(Nat)]]
    /\ said \in [Tickets -> Seq(Nat)]
    /\ sent \in Nat /\ stored \in Nat
    /\ call \in [Handlers -> Calls]

\* A call is about a business's files or about a ticket that has been opened.
Placed(c) ==
    /\ OnGallery(c) => c.on \in Businesses /\ c.seen \in SUBSET Nat
    /\ OnTicket(c) => c.on \in Tickets /\ ticket[c.on].owner # None /\ c.seen \in Seq(Nat)
    /\ c.op \in {"reply", "status"} => c.fields \cap Statuses # {}
AllPlaced == \A h \in Handlers : Placed(call[h])

\* What a call read is what the column still holds.
Current(c) ==
    /\ OnGallery(c) => c.seen = gallery[c.on]
    /\ OnTicket(c) => c.seen = ticket[c.on].description
ReadCurrent ==
    \A h \in Handlers : Rewrites(call[h]) /\ call[h].on \notin overlapped => Current(call[h])

\* A column is rewritten by one call at a time, or has been by several.
Alone ==
    \A g, h \in Handlers :
      (/\ Rewrites(call[g]) /\ Rewrites(call[h])
       /\ call[g].on = call[h].on /\ call[h].on \notin overlapped) => g = h

IInv == Types /\ AllPlaced /\ ReadCurrent /\ Alone /\ GalleryKept /\ RepliesKept

LEMMA Initially == ASSUME RecordsAssumption, Init PROVE IInv
<1>1. Types
  BY DEF Init, Types, Calls, Ops, Idle, NoTicket, Statuses, RecordsAssumption
<1>2. \A h \in Handlers : call[h].op = "none" /\ call[h].fields = {}
  BY DEF Init, Idle
<1>3. AllPlaced /\ ReadCurrent /\ Alone
  <2>1. \A h \in Handlers : ~Rewrites(call[h])
    BY <1>2 DEF Rewrites
  <2>2. \A h \in Handlers : ~OnGallery(call[h]) /\ ~OnTicket(call[h])
    BY <1>2 DEF OnGallery, OnTicket
  <2> QED
    BY <1>2, <2>1, <2>2 DEF AllPlaced, Placed, ReadCurrent, Alone
<1>4. GalleryKept /\ RepliesKept
  BY DEF Init, GalleryKept, RepliesKept, NoTicket
<1> QED
  BY <1>1, <1>3, <1>4 DEF IInv

\* A call that starts from what it has just read.
LEMMA Starts ==
  ASSUME IInv, NEW h \in Handlers, NEW c \in Calls, Placed(c), Current(c), Begin(h, c),
         UNCHANGED <<gallery, single, stored, ticket, sent, uploaded, said>>
  PROVE  IInv'
<1>1. Types'
  BY DEF IInv, Types, Begin
<1>2. /\ call' \in [Handlers -> Calls] /\ call'[h] = c
      /\ \A g \in Handlers : g # h => call'[g] = call[g]
  BY DEF IInv, Types, Begin
<1>3. overlapped \subseteq overlapped'
  BY DEF Begin
<1>4. AllPlaced'
  BY <1>2 DEF IInv, AllPlaced, Placed, OnGallery, OnTicket
<1>5. ReadCurrent'
  BY <1>2, <1>3 DEF IInv, ReadCurrent, Current, OnGallery, OnTicket, Rewrites
<1>6. Alone'
  <2> SUFFICES ASSUME NEW f \in Handlers, NEW g \in Handlers,
                      Rewrites(call[f])', Rewrites(call[g])', call'[f].on = call'[g].on,
                      call'[g].on \notin overlapped', f # g
               PROVE  FALSE
    BY DEF Alone
  <2>1. CASE f # h /\ g # h
    BY <1>2, <1>3, <2>1 DEF IInv, Alone, Rewrites
  <2>2. CASE f = h \/ g = h
    <3>1. PICK k \in Handlers : k # h /\ Rewrites(call[k]) /\ call[k].on = c.on /\ Rewrites(c)
                                  /\ c.on \notin overlapped'
      BY <1>2, <2>2 DEF Rewrites
    <3> QED
      BY <3>1 DEF Begin
  <2> QED
    BY <2>1, <2>2
<1>7. GalleryKept' /\ RepliesKept'
  BY <1>3 DEF IInv, GalleryKept, RepliesKept
<1> QED
  BY <1>1, <1>4, <1>5, <1>6, <1>7 DEF IInv

\* A call that ends, or goes on, without touching a column that is rewritten.
LEMMA LeavesColumns ==
  ASSUME IInv, NEW h \in Handlers, call' \in [Handlers -> Calls],
         \A g \in Handlers : g # h => call'[g] = call[g],
         call'[h].op = "none" \/ (call'[h].op = call[h].op /\ call'[h].on = call[h].on
                                    /\ call'[h].fields = call[h].fields
                                    /\ call'[h].seen = call[h].seen),
         stored' \in Nat, sent' \in Nat,
         ticket' \in [Tickets -> [owner : Users \cup {"guest", None}, status : Statuses,
                                  description : Seq(Nat)]],
         \A t \in Tickets : /\ ticket'[t].owner = ticket[t].owner
                            /\ ticket'[t].description = ticket[t].description,
         UNCHANGED <<gallery, uploaded, said, overlapped>>
  PROVE  IInv'
<1>1. Types'
  BY DEF IInv, Types
<1>2. AllPlaced'
  BY DEF IInv, AllPlaced, Placed, OnGallery, OnTicket
<1>3. \A g \in Handlers : Rewrites(call'[g]) =>
        /\ Rewrites(call[g]) /\ call'[g].on = call[g].on /\ call'[g].seen = call[g].seen
        /\ call'[g].op = call[g].op
  BY DEF Rewrites
<1>5. ReadCurrent'
  BY <1>3 DEF IInv, ReadCurrent, Current, OnGallery, OnTicket, AllPlaced, Placed, Rewrites
<1>6. Alone'
  BY <1>3 DEF IInv, Alone, Rewrites
<1>7. GalleryKept' /\ RepliesKept'
  BY DEF IInv, GalleryKept, RepliesKept
<1> QED
  BY <1>1, <1>2, <1>5, <1>6, <1>7 DEF IInv

\* The only call that rewrites a gallery writes it back with its change, and ends.
LEMMA WritesGallery ==
  ASSUME IInv, NEW h \in Handlers, NEW b \in Businesses, NEW Add \in SUBSET Nat,
         NEW Drop \in SUBSET Nat, OnGallery(call[h]), Rewrites(call[h]), call[h].on = b,
         gallery' = [gallery EXCEPT ![b] = (call[h].seen \cup Add) \ Drop],
         uploaded' = [uploaded EXCEPT ![b] = (@ \cup Add) \ Drop],
         Return(h), UNCHANGED <<stored, ticket, sent, said, overlapped>>
  PROVE  IInv'
<1>0. Idle \in Calls /\ call[h].seen \in SUBSET Nat
  BY DEF Calls, Idle, Ops, IInv, AllPlaced, Placed
<1>1. /\ call' \in [Handlers -> Calls] /\ call'[h] = Idle
      /\ \A g \in Handlers : g # h => call'[g] = call[g]
  BY <1>0 DEF IInv, Types, Return
<1>2. Types'
  BY <1>0, <1>1 DEF IInv, Types
<1>3. AllPlaced'
  BY <1>1 DEF IInv, AllPlaced, Placed, OnGallery, OnTicket, Idle
<1>4. ~Rewrites(Idle)
  BY DEF Rewrites, Idle
<1>5. ReadCurrent'
  <2> SUFFICES ASSUME NEW g \in Handlers, Rewrites(call[g]), g # h,
                      call[g].on \notin overlapped
               PROVE  Current(call[g])'
    BY <1>1, <1>4 DEF ReadCurrent, Rewrites
  <2>1. call[g].on # b /\ Current(call[g]) /\ Placed(call[g])
    BY DEF IInv, Alone, ReadCurrent, AllPlaced
  <2> QED
    BY <1>1, <2>1 DEF IInv, Types, Current, OnGallery, OnTicket, Placed
<1>6. Alone'
  BY <1>1, <1>4 DEF IInv, Alone, Rewrites
<1>7. GalleryKept'
  <2>1. b \notin overlapped => call[h].seen = gallery[b] /\ gallery[b] = uploaded[b]
    BY DEF IInv, ReadCurrent, Current, GalleryKept
  <2> QED
    BY <2>1 DEF IInv, Types, GalleryKept
<1>8. RepliesKept'
  BY DEF IInv, RepliesKept
<1> QED
  BY <1>2, <1>3, <1>5, <1>6, <1>7, <1>8 DEF IInv

\* The only call that appends to a conversation writes it back, and ends.
LEMMA WritesConversation ==
  ASSUME IInv, NEW h \in Handlers, NEW t \in Tickets, NEW s \in Statuses,
         call[h].op \in {"chat", "reply"}, call[h].on = t,
         Say(h, t),
         \/ ticket' = [ticket EXCEPT ![t].description = Append(call[h].seen, sent + 1)]
         \/ ticket' = [ticket EXCEPT ![t].status = s,
                                     ![t].description = Append(call[h].seen, sent + 1)],
         Return(h), UNCHANGED <<gallery, stored, uploaded, overlapped>>
  PROVE  IInv'
<1>0. Idle \in Calls
  BY DEF Calls, Idle, Ops
<1>1. /\ call' \in [Handlers -> Calls] /\ call'[h] = Idle
      /\ \A g \in Handlers : g # h => call'[g] = call[g]
  BY <1>0 DEF IInv, Types, Return
<1>2. /\ ticket' \in [Tickets -> [owner : Users \cup {"guest", None}, status : Statuses,
                                  description : Seq(Nat)]]
      /\ ticket'[t].description = Append(call[h].seen, sent + 1)
      /\ \A u \in Tickets : /\ u # t => ticket'[u] = ticket[u]
                            /\ ticket'[u].owner = ticket[u].owner
  <2>1. Append(call[h].seen, sent + 1) \in Seq(Nat)
    <3>1. call[h].seen \in Seq(Nat)
      BY DEF IInv, AllPlaced, Placed, OnTicket
    <3> QED
      BY <3>1 DEF IInv, Types
  <2>2. ticket[t] \in [owner : Users \cup {"guest", None}, status : Statuses,
                      description : Seq(Nat)]
    BY DEF IInv, Types
  <2>3. CASE ticket' = [ticket EXCEPT ![t].description = Append(call[h].seen, sent + 1)]
    BY <2>1, <2>2, <2>3 DEF IInv, Types
  <2>4. CASE ticket' = [ticket EXCEPT ![t].status = s,
                                      ![t].description = Append(call[h].seen, sent + 1)]
    BY <2>1, <2>2, <2>4 DEF IInv, Types
  <2> QED
    BY <2>3, <2>4
<1>3. /\ said' \in [Tickets -> Seq(Nat)] /\ sent' \in Nat
      /\ said'[t] = Append(said[t], sent + 1) /\ \A u \in Tickets : u # t => said'[u] = said[u]
  BY DEF IInv, Types, Say
<1>4. Types'
  BY <1>1, <1>2, <1>3 DEF IInv, Types
<1>5. AllPlaced'
  <2> SUFFICES ASSUME NEW g \in Handlers PROVE Placed(call[g])'
    BY DEF AllPlaced
  <2>1. CASE g = h
    BY <1>1, <2>1 DEF Placed, OnGallery, OnTicket, Idle
  <2>2. CASE g # h
    <3>1. call'[g] = call[g] /\ Placed(call[g])
      BY <1>1, <2>2 DEF IInv, AllPlaced
    <3>2. \A u \in Tickets : ticket'[u].owner = ticket[u].owner
      BY <1>2
    <3> QED
      BY <3>1, <3>2 DEF Placed, OnGallery, OnTicket
  <2> QED
    BY <2>1, <2>2
<1>6. ~Rewrites(Idle) /\ Rewrites(call[h])
  BY DEF Rewrites, Idle
<1>7. ReadCurrent'
  <2> SUFFICES ASSUME NEW g \in Handlers, Rewrites(call[g]), g # h,
                      call[g].on \notin overlapped
               PROVE  Current(call[g])'
    BY <1>1, <1>6 DEF ReadCurrent, Rewrites
  <2>1. call[g].on # t /\ Current(call[g]) /\ Placed(call[g])
    BY <1>6 DEF IInv, Alone, ReadCurrent, AllPlaced
  <2> QED
    BY <1>1, <1>2, <2>1 DEF Current, OnGallery, OnTicket, Placed
<1>8. Alone'
  BY <1>1, <1>6 DEF IInv, Alone, Rewrites
<1>9. RepliesKept'
  <2>1. t \notin overlapped
          => call[h].seen = ticket[t].description /\ ticket[t].description = said[t]
    BY <1>6 DEF IInv, ReadCurrent, Current, RepliesKept, OnTicket
  <2> QED
    BY <1>2, <1>3, <2>1 DEF IInv, RepliesKept
<1>10. GalleryKept'
  BY DEF IInv, GalleryKept
<1> QED
  BY <1>4, <1>5, <1>7, <1>8, <1>9, <1>10 DEF IInv

LEMMA IdleCall == Idle \in Calls /\ ~Rewrites(Idle)
BY DEF Calls, Idle, Ops, Rewrites

LEMMA UploadBegins ==
  ASSUME IInv, NEW h \in Handlers, UploadMedia(h) \/ UploadDocuments(h) PROVE IInv'
<1>1. PICK b \in Businesses, fields \in SUBSET (Singles \cup {"gallery"}) :
        LET c == [Idle EXCEPT !.op = "upload", !.on = b, !.fields = fields, !.seen = gallery[b]]
        IN  Begin(h, c)
  BY DEF UploadMedia, UploadDocuments, Singles
<1> DEFINE c == [Idle EXCEPT !.op = "upload", !.on = b, !.fields = fields, !.seen = gallery[b]]
<1>2. /\ c \in Calls /\ c.op = "upload" /\ c.on = b /\ c.seen = gallery[b]
  BY DEF IInv, Types, Calls, Ops, Idle
<1>3. gallery[b] \in SUBSET Nat
  BY DEF IInv, Types
<1>4. UNCHANGED <<gallery, single, stored, ticket, sent, uploaded, said>>
  BY DEF UploadMedia, UploadDocuments
<1>5. Begin(h, c)
  BY <1>1
<1> HIDE DEF c
<1>6. Placed(c) /\ Current(c)
  BY <1>2, <1>3 DEF Placed, Current, OnGallery, OnTicket
<1> QED
  BY <1>2, <1>4, <1>5, <1>6, Starts

LEMMA RemovalBegins ==
  ASSUME RecordsAssumption, IInv, NEW h \in Handlers, RemoveGalleryImage(h) PROVE IInv'
<1>1. PICK b \in Businesses, f \in Files :
        Begin(h, [Idle EXCEPT !.op = "remove", !.on = b, !.file = f, !.seen = gallery[b]])
  BY DEF RemoveGalleryImage
<1> DEFINE c == [Idle EXCEPT !.op = "remove", !.on = b, !.file = f, !.seen = gallery[b]]
<1>2. /\ c \in Calls /\ c.op = "remove" /\ c.on = b /\ c.seen = gallery[b]
  <2>1. f \in Nat
    BY RecordsAssumption DEF Files
  <2> QED
    BY <2>1 DEF IInv, Types, Calls, Ops, Idle
<1>3. gallery[b] \in SUBSET Nat
  BY DEF IInv, Types
<1>4. UNCHANGED <<gallery, single, stored, ticket, sent, uploaded, said>>
  BY DEF RemoveGalleryImage
<1>5. Begin(h, c)
  BY <1>1
<1> HIDE DEF c
<1>6. Placed(c) /\ Current(c)
  BY <1>2, <1>3 DEF Placed, Current, OnGallery, OnTicket
<1> QED
  BY <1>2, <1>4, <1>5, <1>6, Starts

LEMMA MessageBegins == ASSUME IInv, NEW h \in Handlers, SendChatMessage(h) PROVE IInv'
<1>1. PICK t \in Tickets :
        /\ Open(t)
        /\ Begin(h, [Idle EXCEPT !.op = "chat", !.on = t, !.seen = ticket[t].description])
  BY DEF SendChatMessage
<1> DEFINE c == [Idle EXCEPT !.op = "chat", !.on = t, !.seen = ticket[t].description]
<1>2. /\ c \in Calls /\ c.op = "chat" /\ c.on = t /\ c.seen = ticket[t].description
      /\ c.fields = {}
  BY DEF IInv, Types, Calls, Ops, Idle
<1>3. ticket[t].description \in Seq(Nat) /\ ticket[t].owner # None
  BY <1>1 DEF IInv, Types, Open
<1>4. Begin(h, c) /\ UNCHANGED <<gallery, single, stored, ticket, sent, uploaded, said>>
  BY <1>1 DEF SendChatMessage
<1> HIDE DEF c
<1>5. Placed(c)
  BY <1>1, <1>2, <1>3 DEF Placed, OnGallery, OnTicket
<1>6. Current(c)
  BY <1>1, <1>2 DEF Current, OnGallery, OnTicket
<1> QED
  BY <1>2, <1>4, <1>5, <1>6, Starts

LEMMA StatusBegins == ASSUME IInv, NEW h \in Handlers, UpdateTicketStatus(h) PROVE IInv'
<1>1. PICK t \in Tickets, status \in Statuses, op \in {"reply", "status"} :
        /\ Open(t)
        /\ Begin(h, [Idle EXCEPT !.op = op, !.on = t, !.fields = {status},
                             !.seen = ticket[t].description])
  BY DEF UpdateTicketStatus
<1> DEFINE c == [Idle EXCEPT !.op = op, !.on = t, !.fields = {status},
                             !.seen = ticket[t].description]
<1>2. /\ c \in Calls /\ c.op = op /\ c.on = t /\ c.seen = ticket[t].description
      /\ c.fields = {status}
  BY DEF IInv, Types, Calls, Ops, Idle
<1>3. ticket[t].description \in Seq(Nat) /\ ticket[t].owner # None
  BY <1>1 DEF IInv, Types, Open
<1>4. Begin(h, c) /\ UNCHANGED <<gallery, single, stored, ticket, sent, uploaded, said>>
  BY <1>1 DEF UpdateTicketStatus
<1> HIDE DEF c
<1>5. Placed(c)
  BY <1>1, <1>2, <1>3 DEF Placed, OnGallery, OnTicket
<1>6. Current(c)
  BY <1>1, <1>2 DEF Current, OnGallery, OnTicket
<1> QED
  BY <1>2, <1>4, <1>5, <1>6, Starts

LEMMA FileStored ==
  ASSUME RecordsAssumption, IInv, NEW h \in Handlers, Store(h) \/ Fail(h) PROVE IInv'
<1>1. CASE Store(h)
  <2>1. call' = [call EXCEPT ![h] = [call[h] EXCEPT !.file = stored + 1]]
    BY <1>1 DEF Store
  <2>2. [call[h] EXCEPT !.file = stored + 1] \in Calls
    <3>1. call[h] \in Calls /\ stored + 1 \in Nat
      BY DEF IInv, Types
    <3> QED
      BY <3>1 DEF Calls
  <2>3. /\ call' \in [Handlers -> Calls] /\ \A g \in Handlers : g # h => call'[g] = call[g]
        /\ call'[h].op = call[h].op /\ call'[h].on = call[h].on
        /\ call'[h].fields = call[h].fields /\ call'[h].seen = call[h].seen
    BY <2>1, <2>2 DEF IInv, Types, Calls
  <2>4. stored' \in Nat /\ UNCHANGED <<gallery, ticket, sent, uploaded, said, overlapped>>
    BY <1>1 DEF Store, IInv, Types, history
  <2> QED
    BY <2>3, <2>4, LeavesColumns DEF IInv, Types
<1>2. CASE Fail(h)
  <2>1. call' \in [Handlers -> Calls] /\ call'[h].op = "none"
        /\ \A g \in Handlers : g # h => call'[g] = call[g]
    BY <1>2, IdleCall DEF Fail, Return, IInv, Types, Idle
  <2> QED
    BY <1>2, <2>1, LeavesColumns DEF Fail, IInv, Types, history
<1> QED
  BY <1>1, <1>2

LEMMA MediaWritten == ASSUME IInv, NEW h \in Handlers, WriteMedia(h) PROVE IInv'
<1>1. call[h].op = "upload" /\ call[h].on \in Businesses /\ call[h].file \in Nat
  BY DEF WriteMedia, IInv, AllPlaced, Placed, OnGallery, Types, Calls
<1> DEFINE b == call[h].on
           Add == {call[h].file}
<1>2. CASE "gallery" \in call[h].fields
  <2>1. /\ gallery' = [gallery EXCEPT ![b] = (call[h].seen \cup Add) \ {}]
        /\ uploaded' = [uploaded EXCEPT ![b] = (@ \cup Add) \ {}]
    <3>1. gallery' = [gallery EXCEPT ![b] = call[h].seen \cup Add]
      BY <1>2 DEF WriteMedia, Appended
    <3>2. uploaded' = [uploaded EXCEPT ![b] = @ \cup Add]
      BY <1>2 DEF WriteMedia
    <3>3. \A x : x \ {} = x
      OBVIOUS
    <3> QED
      BY <3>1, <3>2, <3>3
  <2>2. Rewrites(call[h]) /\ OnGallery(call[h])
    BY <1>1, <1>2 DEF Rewrites, OnGallery
  <2>3. Return(h) /\ UNCHANGED <<stored, ticket, sent, said, overlapped>>
    BY DEF WriteMedia
  <2>4. b \in Businesses /\ Add \in SUBSET Nat /\ {} \in SUBSET Nat
    BY <1>1
  <2> HIDE DEF Add
  <2> QED
    BY <2>1, <2>2, <2>3, <2>4, WritesGallery
<1>3. CASE "gallery" \notin call[h].fields
  <2>1. call' \in [Handlers -> Calls] /\ call'[h].op = "none"
        /\ \A g \in Handlers : g # h => call'[g] = call[g]
    BY IdleCall DEF WriteMedia, Return, IInv, Types, Idle
  <2>2. UNCHANGED <<gallery, uploaded, said, overlapped, stored, sent, ticket>>
    BY <1>3 DEF WriteMedia
  <2> QED
    BY <2>1, <2>2, LeavesColumns DEF IInv, Types
<1> QED
  BY <1>2, <1>3

LEMMA RemovalWritten == ASSUME IInv, NEW h \in Handlers, WriteRemoval(h) PROVE IInv'
<1>1. /\ call[h].op = "remove" /\ call[h].on \in Businesses /\ call[h].file \in Nat
      /\ OnGallery(call[h]) /\ Rewrites(call[h])
  BY DEF WriteRemoval, IInv, AllPlaced, Placed, OnGallery, Rewrites, Types, Calls
<1> DEFINE b == call[h].on
           Drop == {call[h].file}
<1>2. /\ gallery' = [gallery EXCEPT ![b] = (call[h].seen \cup {}) \ Drop]
      /\ uploaded' = [uploaded EXCEPT ![b] = (@ \cup {}) \ Drop]
  <2>1. gallery' = [gallery EXCEPT ![b] = call[h].seen \ Drop]
    BY DEF WriteRemoval
  <2>2. uploaded' = [uploaded EXCEPT ![b] = @ \ Drop]
    BY DEF WriteRemoval
  <2>3. \A x : x \cup {} = x
    OBVIOUS
  <2> QED
    BY <2>1, <2>2, <2>3
<1>3. Return(h) /\ UNCHANGED <<stored, ticket, sent, said, overlapped>>
  BY DEF WriteRemoval
<1>4. b \in Businesses /\ Drop \in SUBSET Nat /\ {} \in SUBSET Nat
  BY <1>1
<1> HIDE DEF Drop
<1> QED
  BY <1>1, <1>2, <1>3, <1>4, WritesGallery

LEMMA MessageWritten == ASSUME IInv, NEW h \in Handlers, WriteMessage(h) PROVE IInv'
<1>1. call[h].op = "chat" /\ call[h].on \in Tickets
  BY DEF WriteMessage, IInv, AllPlaced, Placed, OnTicket
<1>2. "OPEN" \in Statuses
  BY DEF Statuses
<1> QED
  BY <1>1, <1>2, WritesConversation DEF WriteMessage

LEMMA StatusWritten == ASSUME IInv, NEW h \in Handlers, WriteStatus(h) PROVE IInv'
<1> DEFINE t == call[h].on
           s == CHOOSE s \in Statuses : s \in call[h].fields
<1>1. call[h].op \in {"reply", "status"} /\ t \in Tickets
  BY DEF WriteStatus, IInv, AllPlaced, Placed, OnTicket
<1>2. CASE call[h].op = "reply" /\ s \in Statuses
  <2>1. /\ Say(h, t)
        /\ ticket' = [ticket EXCEPT ![t].status = s,
                                    ![t].description = Append(call[h].seen, sent + 1)]
        /\ Return(h) /\ UNCHANGED <<gallery, stored, uploaded, overlapped>>
    BY <1>2 DEF WriteStatus
  <2> HIDE DEF s, t
  <2> QED
    BY <1>1, <1>2, <2>1, WritesConversation DEF t
<1>3. CASE call[h].op = "status" /\ s \in Statuses
  <2>1. /\ ticket' = [ticket EXCEPT ![t].status = s] /\ Return(h)
        /\ UNCHANGED <<gallery, stored, sent, said, uploaded, overlapped>>
    BY <1>3 DEF WriteStatus
  <2>2. call' \in [Handlers -> Calls] /\ call'[h].op = "none"
        /\ \A g \in Handlers : g # h => call'[g] = call[g]
    BY <2>1, IdleCall DEF Return, IInv, Types, Idle
  <2> HIDE DEF s, t
  <2>3. /\ ticket' \in [Tickets -> [owner : Users \cup {"guest", None}, status : Statuses,
                                    description : Seq(Nat)]]
        /\ \A u \in Tickets : /\ ticket'[u].owner = ticket[u].owner
                              /\ ticket'[u].description = ticket[u].description
    BY <1>1, <1>3, <2>1 DEF IInv, Types
  <2> QED
    BY <2>1, <2>2, <2>3, LeavesColumns DEF IInv, Types
<1>4. s \in Statuses
  BY <1>1 DEF IInv, AllPlaced, Placed
<1> QED
  BY <1>1, <1>2, <1>3, <1>4

LEMMA TicketOpened ==
  ASSUME RecordsAssumption, IInv, NEW t \in Tickets,
         CreateTicket(t) \/ CreatePublicTicket(t) \/ CreateChatSession(t)
  PROVE  IInv'
<1>1. PICK owner \in Users \cup {"guest"}, opening \in Seq(Nat) : Create(t, owner, opening)
  <2>1. << >> \in Seq(Nat) /\ <<0>> \in Seq(Nat)
    OBVIOUS
  <2> QED
    BY <2>1 DEF CreateTicket, CreatePublicTicket, CreateChatSession
<1>2. /\ ticket' = [ticket EXCEPT ![t] = [NoTicket EXCEPT !.owner = owner,
                                                        !.description = opening]]
      /\ said' = [said EXCEPT ![t] = opening]
      /\ UNCHANGED <<gallery, single, stored, sent, call, uploaded, overlapped>>
      /\ ticket[t].owner = None
  BY <1>1 DEF Create, Open
<1>3. Types'
  BY <1>2 DEF IInv, Types, NoTicket, Statuses
<1>4. /\ ticket'[t].owner = owner /\ ticket'[t].description = opening
      /\ \A u \in Tickets : u # t => ticket'[u] = ticket[u]
  BY <1>2 DEF IInv, Types, NoTicket
<1>5. \A h \in Handlers : OnTicket(call[h]) => call[h].on # t
  BY <1>2 DEF IInv, AllPlaced, Placed
<1>6. AllPlaced'
  BY <1>2, <1>4, <1>5 DEF IInv, AllPlaced, Placed, OnGallery, OnTicket
<1>7. ReadCurrent' /\ Alone'
  BY <1>2, <1>4, <1>5, <1>6 DEF IInv, ReadCurrent, Alone, Current, OnGallery, OnTicket,
                               Rewrites, AllPlaced, Placed
<1>8. GalleryKept' /\ RepliesKept'
  BY <1>2, <1>4 DEF IInv, Types, GalleryKept, RepliesKept
<1> QED
  BY <1>3, <1>6, <1>7, <1>8 DEF IInv

LEMMA Preserved == ASSUME RecordsAssumption, IInv, [Next]_vars PROVE IInv'
<1>1. CASE Next
  <2>1. ASSUME NEW h \in Handlers, Step(h) PROVE IInv'
    BY <2>1, RecordsAssumption, UploadBegins, RemovalBegins, MessageBegins, StatusBegins,
       FileStored, MediaWritten, RemovalWritten, MessageWritten, StatusWritten
       DEF Step
  <2>2. ASSUME NEW t \in Tickets, CreateTicket(t) \/ CreatePublicTicket(t) \/ CreateChatSession(t)
        PROVE  IInv'
    BY <2>2, TicketOpened
  <2> QED
    BY <1>1, <2>1, <2>2 DEF Next
<1>2. CASE UNCHANGED vars
  BY <1>2 DEF vars, history, IInv, Types, AllPlaced, Placed, ReadCurrent, Current, OnGallery,
              OnTicket, Rewrites, Alone, GalleryKept, RepliesKept
<1> QED
  BY <1>1, <1>2

LEMMA Invariance == Spec => []IInv
<1>1. Init => IInv
  BY Initially, RecordsAssumption
<1>2. IInv /\ [Next]_vars => IInv'
  BY Preserved, RecordsAssumption
<1> QED
  BY <1>1, <1>2, PTL DEF Spec

(* Images added to a gallery accumulate: uploads, removals, uploads of a   *)
(* logo or a document and half-failed uploads lose none and bring none     *)
(* back, unless two calls rewrite one gallery together.                    *)
THEOREM GalleryKeptHolds == Spec => []GalleryKept
<1>1. IInv => GalleryKept
  BY DEF IInv
<1> QED
  BY <1>1, Invariance, PTL

(* A ticket's conversation is all that was said in it, in order, whatever  *)
(* changes of its status are under way, unless two messages are appended   *)
(* to it together.                                                         *)
THEOREM RepliesKeptHolds == Spec => []RepliesKept
<1>1. IInv => RepliesKept
  BY DEF IInv
<1> QED
  BY <1>1, Invariance, PTL
-----------------------------------------------------------------------------
(* A push that fails, for all answers of the push service                  *)

\* The retry loop ends, with one attempt that is the last.
LEMMA LoopEnds ==
  ASSUME NEW answers
  PROVE  LET n == Push!SendToTarget(answers).attempts IN Push!IsLast(n, answers)
<1> DEFINE Ends(n) == Push!IsLast(n, answers)
<1>1. \E n \in 1 .. Push!MAX_SEND_ATTEMPTS : Ends(n)
  <2>1. Push!MAX_SEND_ATTEMPTS = 3
    BY DEF Push!MAX_SEND_ATTEMPTS
  <2>2. CASE ~Push!TryAgain(answers[1])
    <3>1. Ends(1)
      BY <2>1, <2>2 DEF Push!IsLast
    <3> QED
      BY <2>1, <3>1
  <2>3. CASE Push!TryAgain(answers[1]) /\ ~Push!TryAgain(answers[2])
    <3>1. Ends(2)
      BY <2>1, <2>3 DEF Push!IsLast
    <3> QED
      BY <2>1, <3>1
  <2>4. CASE Push!TryAgain(answers[1]) /\ Push!TryAgain(answers[2])
    <3>1. Ends(3)
      BY <2>1, <2>4 DEF Push!IsLast
    <3> QED
      BY <2>1, <3>1
  <2> QED
    BY <2>2, <2>3, <2>4
<1>2. Push!SendToTarget(answers).attempts = CHOOSE n \in 1 .. Push!MAX_SEND_ATTEMPTS : Ends(n)
  BY DEF Push!SendToTarget
<1> QED
  BY <1>1, <1>2

(* A push is tried at most three times and delays its caller by at most    *)
(* 900 ms; it is given up early only for an answer that would not change,  *)
(* so a delivered message is never sent again.                             *)
THEOREM RetryIsBounded ==
  ASSUME NEW answers
  PROVE  LET r == Push!SendToTarget(answers) IN
         /\ r.attempts \in 1 .. 3 /\ r.waited \in {0, 300, 900}
         /\ r.attempts < 3 => ~Push!TryAgain(answers[r.attempts])
         /\ \A k \in 1 .. r.attempts - 1 : answers[k].kind # "ok"
<1> DEFINE r == Push!SendToTarget(answers)
<1>1. Push!IsLast(r.attempts, answers)
  BY LoopEnds
<1>2. r.attempts \in 1 .. 3 /\ (r.attempts < 3 => ~Push!TryAgain(answers[r.attempts]))
  BY <1>1 DEF Push!IsLast, Push!MAX_SEND_ATTEMPTS
<1>3. \A k \in 1 .. r.attempts - 1 : answers[k].kind # "ok"
  BY <1>1 DEF Push!IsLast, Push!TryAgain
<1>4. r.waited = Push!RETRY_BACKOFF_MS * ((r.attempts * (r.attempts - 1)) \div 2)
  BY DEF Push!SendToTarget
<1>5. r.waited \in {0, 300, 900}
  <2>1. CASE r.attempts = 1
    BY <1>4, <2>1 DEF Push!RETRY_BACKOFF_MS
  <2>2. CASE r.attempts = 2
    BY <1>4, <2>2 DEF Push!RETRY_BACKOFF_MS
  <2>3. CASE r.attempts = 3
    BY <1>4, <2>3 DEF Push!RETRY_BACKOFF_MS
  <2> QED
    BY <1>2, <2>1, <2>2, <2>3
<1> QED
  BY <1>2, <1>3, <1>5

(* A registration is deleted only for a device that is dead: its row was   *)
(* the addressee's when the call loaded it, and the push service said,     *)
(* after nothing but passing troubles, that the token itself is the        *)
(* matter.  A push delivered, an overloaded service or a lost network      *)
(* never costs a device its registration, nor does a notification that was *)
(* not stored.                                                             *)
THEOREM OnlyDeadTokensRemoved ==
  ASSUME NEW user, NEW says, NEW world,
         NEW id \in Push!SendNotification(user, says, world).deletes
  PROVE  /\ Push!SendNotification(user, says, world).returns
         /\ \E t \in DOMAIN world.tokens :
              /\ world.tokens[t].id = id /\ world.tokens[t].user = user
              /\ \E n \in 1 .. 3 : /\ Push!IsPermanent(world.answers[t][n])
                                   /\ \A k \in 1 .. n - 1 : Push!TryAgain(world.answers[t][k])
<1>1. world.rowStored /\ \E t \in Push!Dead(user, world) : world.tokens[t].id = id
  BY DEF Push!SendNotification
<1>2. PICK t \in Push!Dead(user, world) : world.tokens[t].id = id
  BY <1>1
<1> DEFINE r == Push!SendToTarget(world.answers[t])
<1>3. t \in Push!TokensOf(user, world.tokens) /\ r.permanentlyFailed
  BY <1>2 DEF Push!Dead, Push!Targets
<1>4. Push!IsLast(r.attempts, world.answers[t])
  BY LoopEnds
<1>5. Push!IsPermanent(world.answers[t][r.attempts])
  BY <1>3 DEF Push!SendToTarget
<1>6. r.attempts \in 1 .. 3 /\ \A k \in 1 .. r.attempts - 1 : Push!TryAgain(world.answers[t][k])
  BY <1>4 DEF Push!IsLast, Push!MAX_SEND_ATTEMPTS
<1>7. Push!SendNotification(user, says, world).returns
  BY <1>1 DEF Push!SendNotification
<1> QED
  BY <1>2, <1>3, <1>5, <1>6, <1>7 DEF Push!TokensOf

(* What was said of a device counts against whoever has it by then: when   *)
(* it is registered again, for the same user or another, between the       *)
(* loading of its row and the deletion, the new registration is the same   *)
(* row and is deleted with it.  Every other device stays registered.       *)
THEOREM RegisteredAgainIsLost ==
  ASSUME NEW tokens, NEW t \in DOMAIN tokens, NEW second, NEW p, NEW newId,
         \A s \in DOMAIN tokens : tokens[s].id = tokens[t].id => s = t
  PROVE  LET later == Push!RegisterPushToken(tokens, second, t, p, newId)
             after == Push!RemoveDeadToken(later, tokens[t].id)
         IN  DOMAIN after = DOMAIN tokens \ {t} /\ \A s \in DOMAIN after : after[s] = tokens[s]
<1> DEFINE later == Push!RegisterPushToken(tokens, second, t, p, newId)
           after == Push!RemoveDeadToken(later, tokens[t].id)
<1>1. DOMAIN later = DOMAIN tokens
  BY DEF Push!RegisterPushToken
<1>2. later[t].id = tokens[t].id /\ \A s \in DOMAIN tokens \ {t} : later[s] = tokens[s]
  BY DEF Push!RegisterPushToken
<1>3. {s \in DOMAIN later : later[s].id # tokens[t].id} = DOMAIN tokens \ {t}
  <2> HIDE DEF later
  <2> QED BY <1>1, <1>2
<1> HIDE DEF later
<1>4. after = [s \in DOMAIN tokens \ {t} |-> later[s]]
  BY <1>3 DEF Push!RemoveDeadToken, Push!Restrict
<1> QED
  BY <1>2, <1>4 DEF later

(* A device that changes hands takes its notifications along: once it is   *)
(* registered for a second user, a push to the first no longer goes to it. *)
THEOREM DeviceFollowsItsUser ==
  ASSUME NEW tokens, NEW t, NEW p, NEW newId, NEW first, NEW second, first # second,
         NEW says, NEW world, world.tokens = Push!RegisterPushToken(tokens, second, t, p, newId),
         t # <<"topic", first>>
  PROVE  t \notin Push!SendNotification(first, says, world).sent
<1>1. t \notin Push!TokensOf(first, world.tokens)
  BY DEF Push!RegisterPushToken, Push!TokensOf
<1>2. t \notin Push!Targets(first, world)
  BY <1>1 DEF Push!Targets
<1> QED
  BY <1>2 DEF Push!SendNotification

(* Nobody touches what was sent to somebody else, and reading or deleting  *)
(* one notification leaves all the others as they are.                     *)
THEOREM OthersKeepTheirs ==
  ASSUME NEW rows, NEW user, NEW id, NEW i \in DOMAIN rows, rows[i].user # user
  PROVE  /\ i \in DOMAIN Push!MarkAsRead(rows, user, id)
         /\ Push!MarkAsRead(rows, user, id)[i] = rows[i]
         /\ i \in DOMAIN Push!DeleteNotification(rows, user, id)
         /\ Push!DeleteNotification(rows, user, id)[i] = rows[i]
<1>1. i \in DOMAIN Push!MarkAsRead(rows, user, id) /\ Push!MarkAsRead(rows, user, id)[i] = rows[i]
  BY DEF Push!MarkAsRead, Push!Owns
<1>2. /\ i \in DOMAIN Push!DeleteNotification(rows, user, id)
      /\ Push!DeleteNotification(rows, user, id)[i] = rows[i]
  BY DEF Push!DeleteNotification, Push!Owns
<1> QED
  BY <1>1, <1>2
=============================================================================
