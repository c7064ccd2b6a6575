----------------------------- MODULE MC_GroupChat -----------------------------
(***************************************************************************)
(* Two groups, two customers, two calls at a time.  The two members there  *)
(* can be share a group, where they race, or not, so that each sees a      *)
(* foreign poll; one ballot is followed until it is cast again.  And what  *)
(* the messages say, on a small catalogue.                                 *)
(***************************************************************************)
EXTENDS GroupChat, TLC

TwoInterests == Cardinality(leads) <= 2
OneBallot == Cardinality(votes) <= 1

Symmetry ==
    Permutations(Offers) \cup Permutations(Customers) \cup Permutations(Handlers)
        \cup Permutations(Options)
-----------------------------------------------------------------------------

M == INSTANCE ChatMessages WITH
       QUICK_REPLIES <- [r \in {"INTERESTED"} |-> <<"I'm interested in this.">>],
       POLL_TEMPLATES <- [t \in {"TIME"} |-> <<"MORNING", "AFTERNOON", "EVENING">>],
       LEAD_MESSAGE_TEMPLATES <- <<>>, CATEGORY_ORDER <- <<>>,
       Blank <- {"", " "}, Suspicious <- {"call me"},
       Printable <- [l \in {"", " ", "call me", "cafe", "control"} |->
                       IF l = "control" THEN "" ELSE l]

DaysIn(y, m) == CASE m \in {4, 6, 9, 11} -> 30
                  [] m = 2 -> IF M!IsLeap(y) THEN 29 ELSE 28
                  [] OTHER -> 31

\* A date goes round through UTC unchanged exactly when it is in the calendar
\* and its year has three digits or more.
ASSUME CalendarDatesOnly ==
    \A y \in {0, 99, 100, 1900, 2000, 2026, 2028, 9999},
      m \in 0 .. 14, d \in (0 .. 32) \cup {60, 99} :
        M!IsValidCalendarDate(y, m, d)
          <=> y >= 100 /\ m \in 1 .. 12 /\ d \in 1 .. DaysIn(y, m)

\* A poll offers exactly the options picked for it, in the catalogue's order.
Picks == UNION {[1 .. n -> {"MORNING", "AFTERNOON", "EVENING", "NIGHT"}] : n \in 0 .. 5}
ASSUME PollsOfferWhatWasPicked ==
    \A ids \in Picks :
        LET poll == M!ResolvePoll([templateId |-> "TIME", optionIds |-> ids]) IN
        IF Len(ids) >= 2 /\ Cardinality(M!Elements(ids)) = Len(ids) /\ "NIGHT" \notin M!Elements(ids)
          THEN /\ Len(poll.payload.options) = Len(ids)
               /\ M!Elements(poll.payload.options) = M!Elements(ids)
               /\ poll.payload.options[1] = "AFTERNOON" => "MORNING" \notin M!Elements(ids)
               /\ poll.payload.options[Len(ids)] = "AFTERNOON" => "EVENING" \notin M!Elements(ids)
          ELSE poll = M!BadRequest

\* The tallies of a poll add up to the members who voted, one ballot each.
Ballots == [message : {1}, by : {1, 2, 3}, option : {1, 2}]
Poll(template) == [type |-> "POLL", system |-> FALSE, group |-> 1, by |-> 1,
                   templateId |-> template, options |-> 2, text |-> <<template>>]
ASSUME TalliesCountMembers ==
    \A cast \in SUBSET Ballots, t \in {"TIME", None} :
        (\A v, w \in cast : v.by = w.by => v = w) =>
          LET shown == M!GetMessages(<<Poll(t)>>, cast, {}, 1, 2)[1]
              Count(o) == IF o \in DOMAIN shown.tallies THEN shown.tallies[o] ELSE 0
          IN /\ Count(1) + Count(2) = Cardinality({v.by : v \in cast})
             /\ shown.options \subseteq DOMAIN shown.tallies
             /\ Cardinality(shown.myVote) <= 1
=============================================================================
