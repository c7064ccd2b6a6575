----------------------------- MODULE Notifications -----------------------------
(***************************************************************************)
(* Telling a user something: the row of the notification first, whatever   *)
(* becomes of the push, and then one message for each of the user's        *)
(* devices, tried again while the service has a passing trouble.  A call   *)
(* is a function of what the database and the push service answer it.      *)
(***************************************************************************)
EXTENDS Integers, Sequences, FiniteSets, Functions

CONSTANTS Users, None

PERMANENT_TOKEN_STATUSES == {"UNREGISTERED", "NOT_FOUND", "INVALID_ARGUMENT", "SENDER_ID_MISMATCH"}
TRANSIENT_STATUSES == {"UNAVAILABLE", "INTERNAL", "RESOURCE_EXHAUSTED", "QUOTA_EXCEEDED"}
MAX_SEND_ATTEMPTS == 3
RETRY_BACKOFF_MS == 300

-----------------------------------------------------------------------------
(* sendToTarget.  The answers are those the attempts would get, in order   *)

Statuses == PERMANENT_TOKEN_STATUSES \cup TRANSIENT_STATUSES \cup {"UNAUTHENTICATED", None}
Answer == [kind : {"network error", "ok", "error"}, status : Statuses, errorCode : Statuses]

IsPermanent(a) ==
    a.kind = "error" /\ {a.status, a.errorCode} \cap PERMANENT_TOKEN_STATUSES # {}
\* The error's code is not asked whether it is transient.
TryAgain(a) ==
    \/ a.kind = "network error"
    \/ a.kind = "error" /\ ~IsPermanent(a) /\ a.status \in TRANSIENT_STATUSES

IsLast(n, answers) ==
    /\ n \in 1 .. MAX_SEND_ATTEMPTS
    /\ n = MAX_SEND_ATTEMPTS \/ ~TryAgain(answers[n])
    /\ \A k \in 1 .. n - 1 : TryAgain(answers[k])

SendToTarget(answers) ==
    LET n == CHOOSE n \in 1 .. MAX_SEND_ATTEMPTS : IsLast(n, answers) IN
    [attempts |-> n,
     waited |-> RETRY_BACKOFF_MS * ((n * (n - 1)) \div 2),
     delivered |-> answers[n].kind = "ok",
     permanentlyFailed |-> IsPermanent(answers[n])]

-----------------------------------------------------------------------------
(* sendNotification.  A token is registered for one user at a time, in a   *)
(* row of its own; a call has loaded the rows long before it deletes some  *)

TokensOf(user, tokens) == {t \in DOMAIN tokens : tokens[t].user = user}

\* The credentials are looked up once and kept; without an access token nothing is sent.
GetFcmAuth(world) ==
    world.cachedAuth \/ (world.credentials /\ world.projectId # None)
CanPush(world) == ~world.useMock /\ GetFcmAuth(world) /\ world.accessToken

\* The tokens a call sends to; when they cannot be loaded it finds none.
Targets(user, world) ==
    IF world.tokensLoad THEN TokensOf(user, world.tokens) ELSE {}

Dead(user, world) ==
    {t \in Targets(user, world) : SendToTarget(world.answers[t]).permanentlyFailed}

\* The row is deleted by its id, whatever it says by then.
RemoveDeadToken(tokens, id) == Restrict(tokens, {t \in DOMAIN tokens : tokens[t].id # id})

SendNotification(user, says, world) ==
    IF ~world.rowStored
      THEN [returns |-> FALSE, rows |-> world.rows, sent |-> {}, deletes |-> {}]
      ELSE [returns |-> TRUE,
            rows |-> Append(world.rows, [user |-> user, says |-> says, isRead |-> FALSE]),
            sent |-> CASE ~CanPush(world) -> {}
                       [] CanPush(world) /\ Targets(user, world) # {} -> Targets(user, world)
                       [] OTHER -> {<<"topic", user>>},
            deletes |-> IF CanPush(world) THEN {world.tokens[t].id : t \in Dead(user, world)}
                        ELSE {}]

-----------------------------------------------------------------------------
(* What a user does with their notifications, rows by their id, and with   *)
(* the device they sign in on                                              *)

Owns(rows, user, id) == id \in DOMAIN rows /\ rows[id].user = user

MarkAsRead(rows, user, id) ==
    IF id = None
      THEN [i \in DOMAIN rows |-> IF rows[i].user = user THEN [rows[i] EXCEPT !.isRead = TRUE]
                                  ELSE rows[i]]
      ELSE IF Owns(rows, user, id) THEN [rows EXCEPT ![id].isRead = TRUE] ELSE rows

DeleteNotification(rows, user, id) ==
    IF Owns(rows, user, id) THEN [i \in DOMAIN rows \ {id} |-> rows[i]] ELSE rows

\* A token known already keeps its row, and the row its id.
RegisterPushToken(tokens, user, token, platform, newId) ==
    [t \in DOMAIN tokens \cup {token} |->
       IF t # token THEN tokens[t]
       ELSE [id |-> IF token \in DOMAIN tokens THEN tokens[token].id ELSE newId,
             user |-> user, platform |-> platform]]
=============================================================================
