----------------------------- MODULE ChatMessages -----------------------------
(***************************************************************************)
(* What may be said, and what is shown of it.  A message of a group chat   *)
(* or of a lead is never the sender's own words: it is made of a catalogue *)
(* entry, a date and a time, or a place.  A text is a tuple of the parts   *)
(* it is put together from; a refused call has no text.  The feed of a     *)
(* group is a function of its messages, ballots and blocks.                *)
(***************************************************************************)
EXTENDS Integers, Sequences, FiniteSets

CONSTANTS
    QUICK_REPLIES,           \* id |-> text
    POLL_TEMPLATES,          \* id |-> its option ids in order, of all but LOCATION
    LEAD_MESSAGE_TEMPLATES,  \* key |-> its category, type, text, events and what it needs
    CATEGORY_ORDER,
    Blank,                   \* labels with nothing in them but white space
    Suspicious,              \* labels that read like contact details
    Printable,               \* label |-> it without its control characters, cut off
    None

MIN_POLL_OPTIONS == 2
MAX_POLL_OPTIONS == 6
SharedLocation == "Shared location"

Elements(s) == {s[k] : k \in DOMAIN s}
Distinct(s) == \A j, k \in DOMAIN s : j # k => s[j] # s[k]

-----------------------------------------------------------------------------
(* Dates and times.  Date.UTC rolls a day over that its month has not got, *)
(* and takes a year of two digits for one of the twentieth century         *)

IsLeap(y) == y % 4 = 0 /\ (y % 100 # 0 \/ y % 400 = 0)
\* Days before 1 January of y, and in y before month k; years and months from 0.
YearStart(y) == 365 * y + (y + 3) \div 4 - (y + 99) \div 100 + (y + 399) \div 400
MonthStart(y, k) == <<0, 31, 59, 90, 120, 151, 181, 212, 243, 273, 304, 334>>[k + 1]
                      + (IF k > 1 /\ IsLeap(y) THEN 1 ELSE 0)

UTC(y, m, d) ==
    LET full == IF y \in 0 .. 99 THEN 1900 + y ELSE y
        year == full + (m - 1) \div 12
    IN YearStart(year) + MonthStart(year, (m - 1) % 12) + d - 1

FromUTC(n) ==
    LET year == CHOOSE y \in (n \div 366) .. (n \div 365) :
                  YearStart(y) <= n /\ n < YearStart(y + 1)
        day == n - YearStart(year)
        month == CHOOSE k \in 0 .. 11 : /\ MonthStart(year, k) <= day
                                        /\ k < 11 => day < MonthStart(year, k + 1)
    IN <<year, month + 1, day - MonthStart(year, month) + 1>>

IsValidCalendarDate(y, m, d) == FromUTC(UTC(y, m, d)) = <<y, m, d>>

\* Four, two and two digits of a date, two and two of a time; None for other strings.
ValidateDateTimePayload(p) ==
    /\ p.date # None /\ p.time # None
    /\ p.time[1] \in 0 .. 23 /\ p.time[2] \in 0 .. 59
    /\ IsValidCalendarDate(p.date[1], p.date[2], p.date[3])

FormatTime(t) == <<IF t[1] % 12 = 0 THEN 12 ELSE t[1] % 12, t[2],
                   IF t[1] >= 12 THEN "PM" ELSE "AM">>

-----------------------------------------------------------------------------
(* Places *)

InRange(p) == p.lat \in -90 .. 90 /\ p.lng \in -180 .. 180

ValidateLocationPayload(p) ==
    /\ InRange(p)
    /\ p.label # None /\ p.label \notin Blank
    /\ p.source \in {"CURRENT", "MAP_PICK"}
    /\ p.label \notin Suspicious

\* A label of control characters alone is not blank, but empty without them.
SanitizeLabel(label) ==
    IF Printable[label] \in Blank THEN SharedLocation ELSE Printable[label]

Shared(p) == [lat |-> p.lat, lng |-> p.lng, label |-> SanitizeLabel(p.label), source |-> p.source]

-----------------------------------------------------------------------------
(* renderGroupMessage *)

Rendered(type, text, payload) == [type |-> type, text |-> text, payload |-> payload]
BadRequest == Rendered(None, None, None)

FewEnough(s) == Len(s) \in MIN_POLL_OPTIONS .. MAX_POLL_OPTIONS

\* The catalogue's order, not the sender's.
Selected(options, ids) == SelectSeq(options, LAMBDA o : o \in ids)

ResolvePoll(p) ==
    LET catalogue == POLL_TEMPLATES[p.templateId]
        Poll(options, ids, locations) ==
          Rendered("POLL", <<p.templateId>>,
                   [templateId |-> p.templateId, options |-> options,
                    optionIds |-> ids, locations |-> locations])
        places == p.templateId = "LOCATION"
    IN IF /\ places /\ p.options # None /\ FewEnough(p.options)
          /\ \A k \in DOMAIN p.options : ValidateLocationPayload(p.options[k])
         THEN Poll([k \in DOMAIN p.options |-> SanitizeLabel(p.options[k].label)],
                   None, [k \in DOMAIN p.options |-> Shared(p.options[k])])
       ELSE IF /\ p.templateId \in DOMAIN POLL_TEMPLATES /\ ~places
               /\ p.optionIds # None /\ FewEnough(p.optionIds) /\ Distinct(p.optionIds)
               /\ Elements(p.optionIds) \subseteq Elements(catalogue)
         THEN LET ids == Selected(catalogue, Elements(p.optionIds)) IN Poll(ids, ids, None)
       ELSE BadRequest

RenderGroupMessage(type, p) ==
    CASE type = "DATE_TIME" /\ ValidateDateTimePayload(p) ->
           Rendered("DATE_TIME", <<"Proposed", p.date, FormatTime(p.time)>>,
                    [date |-> p.date, time |-> p.time])
      [] type = "LOCATION" /\ ValidateLocationPayload(p) ->
           Rendered("LOCATION", <<"At", SanitizeLabel(p.label)>>, Shared(p))
      [] type = "POLL" -> ResolvePoll(p)
      [] type = "QUICK_REPLY" /\ p.replyId \in DOMAIN QUICK_REPLIES ->
           Rendered("QUICK_REPLY", QUICK_REPLIES[p.replyId],
                    [replyId |-> p.replyId, text |-> QUICK_REPLIES[p.replyId]])
      [] OTHER -> BadRequest

-----------------------------------------------------------------------------
(* The messages of a lead *)

HasLeadAccess(lead, caller) ==
    \/ caller.role = "Customer" /\ lead.customer = caller.id
    \/ caller.role = "Business" /\ lead.shop = caller.id

\* The payload is stored as it came, once it is valid.
RenderLeadMessage(key, p) ==
    LET t == LEAD_MESSAGE_TEMPLATES[key] IN
    IF key \notin DOMAIN LEAD_MESSAGE_TEMPLATES THEN BadRequest
    ELSE CASE t.needs = "nothing" -> Rendered(t.type, t.text, None)
           [] t.needs = "date and time" /\ ValidateDateTimePayload(p) ->
                Rendered(t.type, <<t.text, p.date, FormatTime(p.time)>>, p)
           [] t.needs = "place" /\ InRange(p) -> Rendered(t.type, t.text, p)
           [] OTHER -> BadRequest

NotSent == [row |-> None, events |-> {}]

\* The row, and the events logged for it, which may get lost.
SendLeadMessage(lead, caller, key, p) ==
    LET rendered == RenderLeadMessage(key, p)
        sender == IF caller.role = "Business" THEN "BUSINESS" ELSE "CUSTOMER"
    IN IF ~HasLeadAccess(lead, caller) \/ rendered = BadRequest THEN NotSent
       ELSE [row |-> [lead |-> lead.id, sender |-> sender, says |-> rendered],
             events |-> {<<lead.id, sender, key, e>> : e \in LEAD_MESSAGE_TEMPLATES[key].events}]

Labels(category) ==
    {k \in DOMAIN LEAD_MESSAGE_TEMPLATES : LEAD_MESSAGE_TEMPLATES[k].category = category}
GetPublicTemplateCatalog ==
    [k \in DOMAIN CATEGORY_ORDER |-> [category |-> CATEGORY_ORDER[k],
                                      items |-> Labels(CATEGORY_ORDER[k])]]

-----------------------------------------------------------------------------
(* Blocks: pairs of the blocking and the blocked member, in their group    *)

BlockMember(blocks, group, member, target, targetGroup) ==
    IF target = member \/ targetGroup # group THEN blocks
    ELSE blocks \cup {<<group, member, target>>}
UnblockMember(blocks, group, member, target) == blocks \ {<<group, member, target>>}

Report(group, member, target, message) ==
    [group |-> group, reporter |-> member, target |-> target, message |-> message]
ReportMessage(reports, group, member, m, id) ==
    IF m.group # group THEN reports
    ELSE Append(reports, Report(group, member, m.by, id))
ReportMember(reports, group, member, target, targetGroup) ==
    IF targetGroup # group THEN reports
    ELSE Append(reports, Report(group, member, target, None))

-----------------------------------------------------------------------------
(* getMessages, over messages in the order they were created, and ballots  *)
(* that are unique on message and member                                   *)

Placeholder == "no longer shown"

\* From before the catalogues: free text, and polls with options of free text,
\* which are not shown, though ballots cast on them are.
IsLegacyText(m) == m.type = "TEXT" /\ ~m.system
IsLegacyPoll(m) == m.type = "POLL" /\ m.templateId = None

Visible(feed, blocks, group, member) ==
    {i \in DOMAIN feed : /\ feed[i].group = group
                         /\ <<group, member, feed[i].by>> \notin blocks}

OptionsOf(m) == IF IsLegacyPoll(m) THEN {} ELSE 1 .. m.options

\* Every option has its count, options nobody chose too.
Tallies(i, m, votes) ==
    LET Ballots(o) == {v \in votes : v.message = i /\ v.option = o}
        chosen == {v.option : v \in {w \in votes : w.message = i}}
    IN [o \in OptionsOf(m) \cup chosen |-> Cardinality(Ballots(o))]
MyVote(i, member, votes) ==
    {v.option : v \in {w \in votes : w.message = i /\ w.by = member}}

Shown(feed, votes, i, member) ==
    LET m == feed[i] IN
    [text |-> IF IsLegacyText(m) \/ IsLegacyPoll(m) THEN Placeholder ELSE m.text,
     isMine |-> m.by = member,
     options |-> IF m.type = "POLL" THEN OptionsOf(m) ELSE {},
     tallies |-> IF m.type = "POLL" THEN Tallies(i, m, votes) ELSE <<>>,
     myVote |-> IF m.type = "POLL" THEN MyVote(i, member, votes) ELSE {}]

GetMessages(feed, votes, blocks, group, member) ==
    [i \in Visible(feed, blocks, group, member) |-> Shown(feed, votes, i, member)]

\* What the merchant sees of the groups: how many, and how many since midnight.
GetBusinessGroupSummary(offers, members, startOfToday) ==
    [o \in offers |->
       [activeMembers |-> Cardinality({m \in members : m.group = o}),
        todayGrowth |-> Cardinality({m \in members : m.group = o /\ m.joined >= startOfToday})]]
=============================================================================
