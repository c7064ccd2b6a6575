----------------------------- MODULE MC_Accounts -----------------------------
(***************************************************************************)
(* Two mobiles and one e-mail, two calls at a time, three subscriptions.   *)
(* Profiles and e-mails are explored until a second subscription is sold,  *)
(* the clock ticks or the server crashes; a second sign-up before any      *)
(* purchase but a trial.                                                   *)
(***************************************************************************)
EXTENDS Accounts, TLC

CONSTANTS m1, m2

Plain(i) == accounts[i].email = None /\ ~accounts[i].password /\ accounts[i].status = "PENDING"

SubscriptionsOnly ==
    sold >= 2 \/ crashes = 1 \/ now = 1 =>
      /\ \A i \in Ids \ {1} : Plain(i)
      /\ accounts[1].email = DefaultEmail /\ 1 \notin sessions
      /\ \A h \in Handlers : call[h].at \in {"idle", "trial", "renew", "link"}

SignUpsOnly ==
    LET second == created = 3 \/ \E h \in Handlers : call[h].mobile = m2
                    \/ \E i \in Ids : accounts[i].mobile = m2
    IN second => /\ \A i \in Ids \ {1} : ~accounts[i].password /\ accounts[i].status = "PENDING"
                 /\ \A h \in Handlers : ~call[h].password /\ call[h].at # "renew"
                 /\ now = 0 /\ crashes = 0 /\ renewals = {} /\ sold <= 1 /\ 1 \notin sessions

Symmetry == Permutations(Handlers)
=============================================================================
