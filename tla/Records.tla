------------------------------- MODULE Records -------------------------------
(***************************************************************************)
(* Columns that a call reads whole, changes and writes back whole: the     *)
(* gallery of a business's profile and the description of a support        *)
(* ticket, which holds the conversation.  Between the reading and the      *)
(* writing lie uploads or another query.  The calls that leave the column  *)
(* out of their update are modelled beside those that do not.              *)
(***************************************************************************)
EXTENDS Naturals, Sequences

CONSTANTS
    Businesses, Users,
    Handlers,    \* calls the server can have under way together
    MaxFiles,    \* bound: files ever uploaded
    MaxTickets,  \* bound: tickets ever opened
    MaxMessages, \* bound: messages ever sent
    None

ASSUME RecordsAssumption ==
    /\ MaxFiles \in Nat /\ MaxTickets \in Nat /\ MaxMessages \in Nat
    /\ None \notin Businesses \cup Users

Files == 1 .. MaxFiles
Tickets == 1 .. MaxTickets
Messages == 1 .. MaxMessages
Singles == {"logo", "cover_image", "shop_photo", "aadhaar_photo", "pan_photo", "gst_number"}
Statuses == {"OPEN", "IN_PROGRESS", "RESOLVED"}

VARIABLES
    gallery,    \* Business.gallery_images
    single,     \* the business's columns of one file
    stored,     \* the number of the last file uploaded
    ticket,     \* SupportTicket; [owner |-> None] is no ticket
    sent,       \* the number of the last message sent
    call,       \* what each handler is doing
    uploaded,   \* the images added to each gallery and not removed since
    said,       \* what was said in each ticket, in order
    overlapped  \* the records two calls were writing back together

history == <<uploaded, said, overlapped>>
vars == <<gallery, single, stored, ticket, sent, call, history>>

NoTicket == [owner |-> None, status |-> "OPEN", description |-> << >>]
Idle == [op |-> "none", on |-> None, fields |-> {}, file |-> 0, seen |-> << >>]

Init ==
    /\ gallery = [b \in Businesses |-> {}]
    /\ single = [b \in Businesses |-> [f \in Singles |-> 0]]
    /\ stored = 0
    /\ ticket = [t \in Tickets |-> NoTicket]
    /\ sent = 0
    /\ call = [h \in Handlers |-> Idle]
    /\ uploaded = [b \in Businesses |-> {}]
    /\ said = [t \in Tickets |-> << >>]
    /\ overlapped = {}

-----------------------------------------------------------------------------

\* The calls that will write the column back.
Rewrites(c) ==
    \/ c.op \in {"remove", "chat", "reply"}
    \/ c.op = "upload" /\ "gallery" \in c.fields

Begin(h, c) ==
    /\ call[h] = Idle
    /\ call' = [call EXCEPT ![h] = c]
    /\ overlapped' = overlapped \cup
         {r \in {c.on} : Rewrites(c) /\ \E g \in Handlers : call[g].on = r /\ Rewrites(call[g])}
Return(h) == call' = [call EXCEPT ![h] = Idle]

-----------------------------------------------------------------------------
(* BusinessService.uploadMedia, uploadDocuments and removeGalleryImage *)

UploadMedia(h) ==
    /\ \E b \in Businesses, fields \in SUBSET {"logo", "gallery"} \ {{}} :
         Begin(h, [Idle EXCEPT !.op = "upload", !.on = b, !.fields = fields, !.seen = gallery[b]])
    /\ UNCHANGED <<gallery, single, stored, ticket, sent, uploaded, said>>

UploadDocuments(h) ==
    /\ \E b \in Businesses, f \in {"shop_photo", "gst_number"} :
         Begin(h, [Idle EXCEPT !.op = "upload", !.on = b, !.fields = {f}, !.seen = gallery[b]])
    /\ UNCHANGED <<gallery, single, stored, ticket, sent, uploaded, said>>

\* StorageService.uploadFile; one that fails leaves the others stored.
Store(h) ==
    /\ call[h].op = "upload" /\ call[h].file = 0
    /\ stored < MaxFiles
    /\ stored' = stored + 1
    /\ call' = [call EXCEPT ![h].file = stored + 1]
    /\ UNCHANGED <<gallery, single, ticket, sent, history>>

Fail(h) ==
    /\ call[h].op = "upload" /\ call[h].file = 0
    /\ Return(h)
    /\ UNCHANGED <<gallery, single, stored, ticket, sent, history>>

\* The new images are appended to the gallery that was read.
Replacing(seen, f) == {f}
Appended(seen, f) == seen \cup {f}

WriteMedia(h) ==
    /\ call[h].op = "upload" /\ call[h].file # 0
    /\ LET b == call[h].on  f == call[h].file IN
         /\ single' = [single EXCEPT ![b] = [c \in Singles |-> IF c \in call[h].fields THEN f
                                                                                   ELSE @[c]]]
         /\ IF "gallery" \in call[h].fields
              THEN /\ gallery' = [gallery EXCEPT ![b] = Appended(call[h].seen, f)]
                   /\ uploaded' = [uploaded EXCEPT ![b] = @ \cup {f}]
              ELSE UNCHANGED <<gallery, uploaded>>
    /\ Return(h)
    /\ UNCHANGED <<stored, ticket, sent, said, overlapped>>

RemoveGalleryImage(h) ==
    /\ \E b \in Businesses, f \in Files :
         Begin(h, [Idle EXCEPT !.op = "remove", !.on = b, !.file = f, !.seen = gallery[b]])
    /\ UNCHANGED <<gallery, single, stored, ticket, sent, uploaded, said>>

WriteRemoval(h) ==
    /\ call[h].op = "remove"
    /\ LET b == call[h].on  f == call[h].file IN
         /\ gallery' = [gallery EXCEPT ![b] = call[h].seen \ {f}]
         /\ uploaded' = [uploaded EXCEPT ![b] = @ \ {f}]
    /\ Return(h)
    /\ UNCHANGED <<single, stored, ticket, sent, said, overlapped>>

-----------------------------------------------------------------------------
(* SupportService *)

Open(t) == ticket[t].owner # None
Create(t, owner, opening) ==
    /\ ~Open(t) /\ \A u \in Tickets : u < t => Open(u)
    /\ ticket' = [ticket EXCEPT ![t] = [NoTicket EXCEPT !.owner = owner, !.description = opening]]
    /\ said' = [said EXCEPT ![t] = opening]
    /\ UNCHANGED <<gallery, single, stored, sent, call, uploaded, overlapped>>

\* A registered user's ticket, a guest's, and a guest's chat, which the bot
\* opens; the mail after the second may fail and changes nothing.
CreateTicket(t) == \E u \in Users : Create(t, u, << >>)
CreatePublicTicket(t) == Create(t, "guest", << >>)
CreateChatSession(t) == Create(t, "guest", <<0>>)

SendChatMessage(h) ==
    /\ \E t \in Tickets :
         /\ Open(t)
         /\ Begin(h, [Idle EXCEPT !.op = "chat", !.on = t, !.seen = ticket[t].description])
    /\ UNCHANGED <<gallery, single, stored, ticket, sent, uploaded, said>>

\* By the administrator or the ticket's owner.
UpdateTicketStatus(h) ==
    /\ \E t \in Tickets, u \in Users \cup {"Admin"}, status \in Statuses, op \in {"reply", "status"} :
         /\ Open(t)
         /\ u = "Admin" \/ u = ticket[t].owner
         /\ Begin(h, [Idle EXCEPT !.op = op, !.on = t, !.fields = {status},
                                  !.seen = ticket[t].description])
    /\ UNCHANGED <<gallery, single, stored, ticket, sent, uploaded, said>>

\* The description that was read, with the message at its end.
Say(h, t) ==
    /\ sent < MaxMessages
    /\ sent' = sent + 1
    /\ said' = [said EXCEPT ![t] = Append(@, sent + 1)]

WriteMessage(h) ==
    /\ call[h].op = "chat"
    /\ LET t == call[h].on IN
         /\ Say(h, t)
         /\ ticket' = [ticket EXCEPT ![t].description = Append(call[h].seen, sent + 1)]
    /\ Return(h)
    /\ UNCHANGED <<gallery, single, stored, uploaded, overlapped>>

\* The status is written always, the description only with a reply.
WholeRow(h) ==
    /\ call[h].op \in {"reply", "status"}
    /\ LET t == call[h].on  s == CHOOSE s \in Statuses : s \in call[h].fields IN
         IF call[h].op = "reply"
           THEN /\ Say(h, t)
                /\ ticket' = [ticket EXCEPT ![t].status = s,
                                            ![t].description = Append(call[h].seen, sent + 1)]
           ELSE /\ ticket' = [ticket EXCEPT ![t].status = s, ![t].description = call[h].seen]
                /\ UNCHANGED <<sent, said>>
    /\ Return(h)
    /\ UNCHANGED <<gallery, single, stored, uploaded, overlapped>>
WriteStatus(h) ==
    /\ call[h].op \in {"reply", "status"}
    /\ LET t == call[h].on  s == CHOOSE s \in Statuses : s \in call[h].fields IN
         IF call[h].op = "reply"
           THEN /\ Say(h, t)
                /\ ticket' = [ticket EXCEPT ![t].status = s,
                                            ![t].description = Append(call[h].seen, sent + 1)]
           ELSE /\ ticket' = [ticket EXCEPT ![t].status = s]
                /\ UNCHANGED <<sent, said>>
    /\ Return(h)
    /\ UNCHANGED <<gallery, single, stored, uploaded, overlapped>>

-----------------------------------------------------------------------------

Step(h) ==
    \/ UploadMedia(h) \/ UploadDocuments(h) \/ Store(h) \/ Fail(h) \/ WriteMedia(h)
    \/ RemoveGalleryImage(h) \/ WriteRemoval(h)
    \/ SendChatMessage(h) \/ UpdateTicketStatus(h) \/ WriteMessage(h) \/ WriteStatus(h)

Next ==
    \/ \E t \in Tickets : CreateTicket(t) \/ CreatePublicTicket(t) \/ CreateChatSession(t)
    \/ \E h \in Handlers : Step(h)

Spec == Init /\ [][Next]_vars

-----------------------------------------------------------------------------
(* Properties *)

\* A gallery holds the images added to it and not removed, unless two calls
\* were rewriting it together; uploads of a logo or a document beside it do
\* not count ("repeated upload calls over time accumulate images").
GalleryKept == \A b \in Businesses : b \notin overlapped => gallery[b] = uploaded[b]

\* A ticket's conversation is what was said in it, in that order, unless two
\* messages were being appended together; a change of its status alone, at
\* whatever moment, loses none (sendChatMessage, updateTicketStatus).
RepliesKept == \A t \in Tickets : t \notin overlapped => ticket[t].description = said[t]
=============================================================================
