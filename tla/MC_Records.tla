------------------------------ MODULE MC_Records ------------------------------
(***************************************************************************)
(* A business or a ticket at a time; three files, three messages.  And the *)
(* retries of a push, for everything the service may answer.               *)
(***************************************************************************)
EXTENDS Records, TLC

\* One of the two records is followed at a time.
OneKind == stored > 0 \/ (\E h \in Handlers : call[h].on \in Businesses) => ~\E t \in Tickets : Open(t)

Symmetry == Permutations(Handlers)

-----------------------------------------------------------------------------

N == INSTANCE Notifications

Answers == [kind : {"network error", "ok"}, status : {None}, errorCode : {None}]
             \cup [kind : {"error"}, status : {"NOT_FOUND", "INTERNAL", "UNAUTHENTICATED", None},
                   errorCode : {"UNREGISTERED", "QUOTA_EXCEEDED", None}]

\* The loop of sendToTarget, from an attempt on, after waiting so long.
Loop(answers) ==
    LET from[n \in 1 .. 3, waited \in {0, 300, 900}] ==
          LET a == answers[n]
              stop == [attempts |-> n, waited |-> waited,
                       delivered |-> a.kind = "ok",
                       permanentlyFailed |-> /\ a.kind = "error"
                                             /\ \/ a.status \in N!PERMANENT_TOKEN_STATUSES
                                                \/ a.errorCode \in N!PERMANENT_TOKEN_STATUSES]
          IN IF a.kind = "ok" \/ n = 3 \/ stop.permanentlyFailed THEN stop
             ELSE IF a.kind = "error" /\ a.status \notin N!TRANSIENT_STATUSES THEN stop
             ELSE from[n + 1, waited + 300 * n]
    IN from[1, 0]

\* The attempt Notifications calls the last is where the loop returns.
ASSUME RetriesAsTheLoop ==
    \A answers \in [1 .. 3 -> Answers] : N!SendToTarget(answers) = Loop(answers)
=============================================================================
