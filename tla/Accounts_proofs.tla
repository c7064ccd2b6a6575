--------------------------- MODULE Accounts_proofs ---------------------------
(***************************************************************************)
(* What sign-up and the purchase of a subscription promise, for any number *)
(* of accounts, subscriptions and calls under way.  A purchase writes the  *)
(* subscription and the link in two queries; as long as a business has one *)
(* purchase under way, what it read or wrote last is the latest.           *)
(***************************************************************************)
EXTENDS Accounts, TLAPS

Purchase == {"trial", "renew", "link"}

\* What a call has with it where it stands.
Placed(c) ==
    /\ c.at \in {"create", "look_up_1", "look_up_2", "look_up_3", "look_up_4"}
         => c.role \in {"Customer", "Business"}
    /\ c.at \in Purchase =>
         /\ c.account \in 1 .. created
         /\ accounts[c.account].role \in {"Business", "none"}
    /\ c.at \in {"renew", "link"} =>
         /\ c.sub \in 1 .. sold
         /\ Owner(c.account) => subscriptions[c.sub].business = c.account
AllPlaced == \A h \in Handlers : Placed(call[h])

\* Numbers are given once; a subscription goes with its business.
Numbered ==
    /\ \A i \in Ids : i > created => accounts[i] = NoAccount
    /\ \A s \in SubIds : /\ s > sold => subscriptions[s] = NoSubscription
                         /\ subscriptions[s] # NoSubscription => Owner(subscriptions[s].business)
    /\ renewals \subseteq 1 .. sold

\* One purchase of a business at a time, about its latest subscription.
Single(i) ==
    i \notin overlapped =>
        /\ \A g, h \in Purchasing(i) : g = h
        /\ Owner(i) => \A h \in Purchasing(i) : call[h].at \in {"renew", "link"} =>
                           IsLatest(call[h].sub, SubsOf(i))

\* The row names the latest, but while the link to it is being written.
Standing(i) ==
    Owner(i) /\ i \notin cut \cup overlapped /\ (\A h \in Purchasing(i) : call[h].at # "link")
        => IsLatest(accounts[i].subscription_id, SubsOf(i))

IInv ==
    /\ TypeOK
    /\ AllPlaced
    /\ Numbered
    /\ TrialStands
    /\ \A i \in Ids : Single(i) /\ Standing(i)
    /\ RenewalFollowsOn
-----------------------------------------------------------------------------
(* Type correctness *)

LEMMA IdleIsACall == ASSUME AccountsAssumption PROVE Idle \in Call
<1>1. 0 \in 0 .. MaxAccounts /\ 0 \in MaybeSub
  BY DEF AccountsAssumption, MaybeSub
<1> QED
  BY <1>1 DEF Idle, Call, Roles

LEMMA Initially == ASSUME AccountsAssumption, Init PROVE IInv
<1>1. TypeOK
  <2>1. accounts \in [Ids -> Account \cup {NoAccount}]
    <3>1. 0 \in MaybeSub /\ DefaultEmail \in Emails
      BY DEF AccountsAssumption, MaybeSub
    <3>2. [NoAccount EXCEPT !.role = "Admin", !.email = DefaultEmail, !.password = TRUE]
            \in Account
      BY <3>1 DEF NoAccount, Account, Roles, Statuses
    <3> QED
      BY <3>2 DEF Init, Seeded
  <2> QED
    BY <2>1, IdleIsACall DEF Init, TypeOK, AccountsAssumption, Ids, MaybeSub
<1>2. AllPlaced
  BY DEF Init, AllPlaced, Placed, Idle, Purchase
<1>3. Numbered
  BY DEF Init, Numbered, Seeded, Ids
<1>4. \A i \in Ids : ~Owner(i) /\ Purchasing(i) = {}
  BY DEF Init, Owner, Exists, Seeded, NoAccount, Purchasing, Idle
<1>5. TrialStands /\ RenewalFollowsOn /\ \A i \in Ids : Single(i) /\ Standing(i)
  BY <1>4 DEF Init, TrialStands, RenewalFollowsOn, Single, Standing
<1> QED
  BY <1>1, <1>2, <1>3, <1>5 DEF IInv

\* A row's e-mail, password or status is written where the row is there, and
\* nothing else changes.
Edited(i) ==
    \/ \E e \in Emails \cup {None} : accounts' = [accounts EXCEPT ![i].email = e]
    \/ accounts' = [accounts EXCEPT ![i].password = TRUE]
    \/ \E status \in Statuses : accounts' = [accounts EXCEPT ![i].status = status]
    \/ accounts' = accounts

LEMMA RowEdited ==
  ASSUME TypeOK, NEW i \in Ids, Exists(i), Edited(i)
  PROVE  /\ accounts' \in [Ids -> Account \cup {NoAccount}]
         /\ \A j \in Ids : /\ accounts'[j].role = accounts[j].role
                           /\ accounts'[j].subscription_id = accounts[j].subscription_id
                           /\ accounts[j].role = "none" => accounts'[j] = accounts[j]
<1>1. accounts[i] \in Account
  BY DEF TypeOK, Exists, NoAccount
<1>2. CASE \E e \in Emails \cup {None} : accounts' = [accounts EXCEPT ![i].email = e]
  BY <1>1, <1>2 DEF TypeOK, Account, Exists
<1>3. CASE accounts' = [accounts EXCEPT ![i].password = TRUE]
  BY <1>1, <1>3 DEF TypeOK, Account, Exists
<1>4. CASE \E status \in Statuses : accounts' = [accounts EXCEPT ![i].status = status]
  BY <1>1, <1>4 DEF TypeOK, Account, Exists
<1>5. CASE accounts' = accounts
  BY <1>5 DEF TypeOK
<1> QED
  BY <1>2, <1>3, <1>4, <1>5 DEF Edited

LEMMA PurchaseCall ==
  ASSUME AccountsAssumption, NEW where \in Purchase, NEW i \in 0 .. MaxAccounts, NEW s \in MaybeSub
  PROVE  [Idle EXCEPT !.at = where, !.account = i, !.sub = s] \in Call
<1>1. Idle \in Call
  BY IdleIsACall
<1> QED
  BY <1>1 DEF Idle, Call, Purchase

\* What a sale writes.
LEMMA SaleTyped ==
  ASSUME AccountsAssumption, TypeOK, NEW h \in Handlers, NEW i \in Ids, NEW plan \in Plans,
         NEW start \in Nat, Sell(h, i, plan, start)
  PROVE  /\ subscriptions' \in [SubIds -> Subscription \cup {NoSubscription}]
         /\ sold' \in MaybeSub /\ call' \in [Handlers -> Call]
         /\ overlapped' \subseteq Ids
<1>1. sold + 1 \in SubIds /\ sold + 1 \in MaybeSub
  BY DEF Sell, TypeOK, AccountsAssumption, SubIds, MaybeSub
<1>2. start + Period \in Nat
  BY DEF AccountsAssumption
<1>3. [business |-> i, plan |-> plan, start |-> start, expiry |-> start + Period] \in Subscription
  BY <1>2 DEF Subscription
<1>4. [Idle EXCEPT !.at = "link", !.account = i, !.sub = sold + 1] \in Call
  <2>1. i \in 0 .. MaxAccounts
    BY DEF Ids, AccountsAssumption
  <2> QED
    BY <1>1, <2>1, PurchaseCall DEF Purchase
<1> QED
  BY <1>1, <1>3, <1>4 DEF Sell, TypeOK, NotesOverlap

\* What renew reads of the subscription it renews.
LEMMA RenewedIsThere ==
  ASSUME AccountsAssumption, TypeOK, AllPlaced, NEW h \in Handlers, At(h, "renew"),
         Owner(call[h].account)
  PROVE  /\ call[h].sub \in SubIds /\ subscriptions[call[h].sub] \in Subscription
         /\ NextStart(call[h].sub) \in Nat
         /\ subscriptions[call[h].sub].expiry <= NextStart(call[h].sub)
         /\ subscriptions[call[h].sub].business = call[h].account
<1>1. call[h].sub \in SubIds /\ subscriptions[call[h].sub].business = call[h].account
  BY DEF AllPlaced, Placed, At, TypeOK, SubIds, MaybeSub, AccountsAssumption
<1>2. subscriptions[call[h].sub] \in Subscription
  BY <1>1 DEF TypeOK, NoSubscription, Owner, Exists, Ids
<1>3. now \in Nat /\ subscriptions[call[h].sub].expiry \in Nat
  BY <1>2 DEF TypeOK, Subscription, AccountsAssumption
<1> QED
  BY <1>1, <1>2, <1>3 DEF NextStart, Active, SubIds, AccountsAssumption

LEMMA TypeStep ==
  ASSUME AccountsAssumption, TypeOK, AllPlaced, [Next]_vars
  PROVE  TypeOK'
<1>i. Idle \in Call
  BY IdleIsACall
<1>t. /\ accounts \in [Ids -> Account \cup {NoAccount}] /\ created \in 0 .. MaxAccounts
      /\ subscriptions \in [SubIds -> Subscription \cup {NoSubscription}] /\ sold \in MaybeSub
      /\ now \in 0 .. MaxTime /\ sessions \subseteq Ids /\ call \in [Handlers -> Call]
      /\ renewals \subseteq SubIds /\ overlapped \subseteq Ids /\ cut \subseteq Ids
      /\ crashes \in 0 .. MaxCrashes
  BY DEF TypeOK
<1>1. ASSUME NEW h \in Handlers, Register(h) PROVE TypeOK'
  <2>1. PICK role \in {"Customer", "Business"}, m \in Mobiles, e \in Emails \cup {None},
             p \in BOOLEAN :
          call' = [call EXCEPT ![h] = [Idle EXCEPT !.at = "create", !.role = role, !.mobile = m,
                                                   !.email = e, !.password = p]]
    BY <1>1 DEF Register, Begin
  <2>2. call' \in [Handlers -> Call]
    BY <1>t, <1>i, <2>1 DEF Call, Idle, Roles
  <2> QED
    BY <1>t, <1>1, <2>2 DEF TypeOK, Register, tables, history
<1>2. ASSUME NEW h \in Handlers, Create(h) PROVE TypeOK'
  <2>1. created + 1 \in Ids /\ created + 1 \in 0 .. MaxAccounts /\ created + 1 \in Nat
    BY <1>t, <1>2 DEF Create, Ids, AccountsAssumption
  <2>2. call[h] \in Call /\ call[h].role \in {"Customer", "Business"}
    BY <1>t, <1>2 DEF Create, At, AllPlaced, Placed
  <2>3. [role |-> call[h].role, mobile |-> call[h].mobile, email |-> call[h].email,
         password |-> call[h].password, status |-> "PENDING", subscription_id |-> 0] \in Account
    BY <2>2 DEF Call, Account, Statuses, MaybeSub, AccountsAssumption, Roles
  <2>4. [Idle EXCEPT !.at = "trial", !.account = created + 1] \in Call
    BY <1>i, <2>1 DEF Call, Idle
  <2>5. accounts' \in [Ids -> Account \cup {NoAccount}] /\ created' \in 0 .. MaxAccounts
    BY <1>t, <1>2, <2>1, <2>3 DEF Create
  <2>6. call' \in [Handlers -> Call] /\ sessions' \subseteq Ids
    BY <1>t, <1>i, <1>2, <2>1, <2>4 DEF Create, Return
  <2> QED
    BY <1>t, <1>2, <2>5, <2>6 DEF TypeOK, Create, history
<1>3. ASSUME NEW h \in Handlers, Collides(h) \/ RowGone(h) PROVE TypeOK'
  BY <1>t, <1>i, <1>3 DEF TypeOK, Collides, RowGone, Return, tables, history
<1>4. ASSUME NEW h \in Handlers, Trial(h) PROVE TypeOK'
  <2>1. now \in Nat /\ Basic \in Plans /\ call[h].account \in Ids
    BY <1>t, <1>4 DEF AccountsAssumption, Trial, Owner, Exists
  <2>2. Sell(h, call[h].account, Basic, now)
    BY <1>4 DEF Trial
  <2>3. /\ subscriptions' \in [SubIds -> Subscription \cup {NoSubscription}]
        /\ sold' \in MaybeSub /\ call' \in [Handlers -> Call] /\ overlapped' \subseteq Ids
    BY <2>1, <2>2, SaleTyped
  <2> QED
    BY <1>t, <1>4, <2>3 DEF TypeOK, Trial
<1>5. ASSUME NEW h \in Handlers, Link(h) PROVE TypeOK'
  <2>1. call[h].account \in Ids /\ accounts[call[h].account] \in Account /\ call[h].sub \in MaybeSub
    BY <1>t, <1>5 DEF Link, Owner, Exists, NoAccount, Call
  <2>2. accounts' \in [Ids -> Account \cup {NoAccount}]
    BY <1>t, <1>5, <2>1 DEF Link, Linked, Account
  <2>3. call' \in [Handlers -> Call] /\ sessions' \subseteq Ids
    BY <1>t, <1>i, <1>5, <2>1 DEF Link, Return
  <2> QED
    BY <1>t, <1>5, <2>2, <2>3 DEF TypeOK, Link, history
<1>6. ASSUME NEW h \in Handlers, GoogleUpsert(h) PROVE TypeOK'
  <2>1. PICK role \in {"Customer", "Business"}, m \in Mobiles \cup {None}, e \in Emails :
          call' = [call EXCEPT ![h] = [Idle EXCEPT !.at = "look_up_1", !.role = role, !.mobile = m,
                                                   !.email = e]]
    BY <1>6 DEF GoogleUpsert, Begin
  <2>2. call' \in [Handlers -> Call]
    BY <1>t, <1>i, <2>1 DEF Call, Idle, Roles
  <2> QED
    BY <1>t, <1>6, <2>2 DEF TypeOK, GoogleUpsert, tables, history
<1>7. ASSUME NEW h \in Handlers, GoogleFound(h) PROVE TypeOK'
  <2>1. PICK i \in FoundAt(h) :
          \/ call' = [call EXCEPT ![h] = Idle] /\ (sessions' = sessions \/ sessions' = sessions \cup {i})
          \/ call' = [call EXCEPT ![h].at = "adopt", ![h].account = i] /\ sessions' = sessions
    BY <1>7 DEF GoogleFound, Return
  <2>2. i \in Ids /\ i \in 0 .. MaxAccounts
    BY DEF FoundAt, LookUp, Ids, AccountsAssumption
  <2>3. call' \in [Handlers -> Call] /\ sessions' \subseteq Ids
    BY <1>t, <1>i, <2>1, <2>2 DEF Call
  <2> QED
    BY <1>t, <1>7, <2>3 DEF TypeOK, GoogleFound, tables, history
<1>8. ASSUME NEW h \in Handlers, GoogleMissed(h) PROVE TypeOK'
  <2>1. \A n \in DOMAIN After : After[n] \in {"look_up_2", "look_up_3", "look_up_4"}
    BY DEF After
  <2>2. call' \in [Handlers -> Call]
    BY <1>t, <1>i, <1>8, <2>1 DEF GoogleMissed, Goto, Return, Call
  <2> QED
    BY <1>t, <1>8, <2>2 DEF TypeOK, GoogleMissed, tables, history
<1>9. ASSUME NEW h \in Handlers, Adopt(h) \/ WriteEmail(h) PROVE TypeOK'
  <2>1. call[h].account \in Ids /\ Exists(call[h].account) /\ call[h].email \in Emails \cup {None}
    BY <1>t, <1>9 DEF Adopt, WriteEmail, Exists, Call
  <2>2. Edited(call[h].account)
    BY <1>9, <2>1 DEF Edited, Adopt, WriteEmail, SetEmail
  <2>3. accounts' \in [Ids -> Account \cup {NoAccount}]
    BY <2>1, <2>2, RowEdited
  <2>4. call' \in [Handlers -> Call] /\ sessions' \subseteq Ids
    BY <1>t, <1>i, <1>9, <2>1 DEF Adopt, WriteEmail, Return
  <2> QED
    BY <1>t, <1>9, <2>3, <2>4 DEF TypeOK, Adopt, WriteEmail, history
<1>10. ASSUME NEW h \in Handlers, UpdateBusiness(h) PROVE TypeOK'
  <2>1. PICK i \in sessions, e \in Emails :
          call' = [call EXCEPT ![h] = [Idle EXCEPT !.at = "set_email", !.account = i, !.email = e]]
    BY <1>10 DEF UpdateBusiness, Begin
  <2>2. i \in 0 .. MaxAccounts
    BY <1>t, <2>1 DEF Ids, AccountsAssumption
  <2>3. call' \in [Handlers -> Call]
    BY <1>t, <1>i, <2>1, <2>2 DEF Call, Idle
  <2> QED
    BY <1>t, <1>10, <2>3 DEF TypeOK, UpdateBusiness, tables, history
<1>11. ASSUME NEW h \in Handlers, Subscribe(h) PROVE TypeOK'
  <2>1. PICK i \in sessions, plan \in Plans : Owner(i) /\ Sell(h, i, plan, now)
    BY <1>11 DEF Subscribe
  <2>2. i \in Ids /\ now \in Nat
    BY <1>t DEF AccountsAssumption
  <2>3. /\ subscriptions' \in [SubIds -> Subscription \cup {NoSubscription}]
        /\ sold' \in MaybeSub /\ call' \in [Handlers -> Call] /\ overlapped' \subseteq Ids
    BY <2>1, <2>2, SaleTyped
  <2> QED
    BY <1>t, <1>11, <2>3 DEF TypeOK, Subscribe
<1>12. ASSUME NEW h \in Handlers, Renew(h) PROVE TypeOK'
  <2>1. PICK i \in sessions, s \in SubIds :
          /\ call' = [call EXCEPT ![h] = [Idle EXCEPT !.at = "renew", !.account = i, !.sub = s]]
          /\ NotesOverlap(h, i)
    BY <1>12 DEF Renew, Begin
  <2>2. i \in Ids /\ i \in 0 .. MaxAccounts /\ s \in MaybeSub
    BY <1>t, <2>1 DEF Ids, SubIds, MaybeSub, AccountsAssumption
  <2>3. call' \in [Handlers -> Call] /\ overlapped' \subseteq Ids
    BY <1>t, <1>i, <2>1, <2>2 DEF Call, Idle, NotesOverlap
  <2> QED
    BY <1>t, <1>12, <2>3 DEF TypeOK, Renew, tables
<1>13. ASSUME NEW h \in Handlers, RenewPaid(h) PROVE TypeOK'
  <2>1. /\ call[h].account \in Ids
        /\ Sell(h, call[h].account, subscriptions[call[h].sub].plan, NextStart(call[h].sub))
    BY <1>13 DEF RenewPaid, Owner, Exists
  <2>2. /\ subscriptions[call[h].sub] \in Subscription /\ NextStart(call[h].sub) \in Nat
    BY <1>13, RenewedIsThere DEF RenewPaid
  <2>3. subscriptions[call[h].sub].plan \in Plans
    BY <2>2 DEF Subscription
  <2>4. /\ subscriptions' \in [SubIds -> Subscription \cup {NoSubscription}]
        /\ sold' \in MaybeSub /\ call' \in [Handlers -> Call] /\ overlapped' \subseteq Ids
    BY <2>1, <2>2, <2>3, SaleTyped
  <2>5. sold + 1 \in SubIds
    BY <1>t, <2>1 DEF Sell, SubIds, MaybeSub, AccountsAssumption
  <2> QED
    BY <1>t, <1>13, <2>4, <2>5 DEF TypeOK, RenewPaid
<1>14. ASSUME NEW i \in Ids, Open(i) PROVE TypeOK'
  BY <1>t, <1>14 DEF TypeOK, Open, tables, history
<1>15. ASSUME NEW i \in Ids, UpdateProfile(i) \/ UpdateCustomer(i) PROVE TypeOK'
  <2>1. Exists(i) /\ Edited(i)
    BY <1>15 DEF UpdateProfile, UpdateCustomer, SetEmail, Edited, Exists
  <2>2. accounts' \in [Ids -> Account \cup {NoAccount}]
    BY <2>1, RowEdited
  <2> QED
    BY <1>t, <1>15, <2>2 DEF TypeOK, UpdateProfile, UpdateCustomer, history
<1>16. ASSUME NEW i \in Ids, NEW status \in Statuses, VerifyBusiness(i, status) PROVE TypeOK'
  <2>1. Exists(i) /\ Edited(i)
    BY <1>16 DEF VerifyBusiness, Edited, Owner
  <2>2. accounts' \in [Ids -> Account \cup {NoAccount}]
    BY <2>1, RowEdited
  <2> QED
    BY <1>t, <1>16, <2>2 DEF TypeOK, VerifyBusiness, history
<1>17. ASSUME NEW i \in Ids, DeleteAccount(i) PROVE TypeOK'
  BY <1>t, <1>17 DEF TypeOK, DeleteAccount, history
<1>18. CASE Tick
  BY <1>t, <1>18 DEF TypeOK, Tick, tables, history, AccountsAssumption
<1>19. CASE Crash
  BY <1>t, <1>i, <1>19 DEF TypeOK, Crash, tables, AccountsAssumption
<1>20. CASE UNCHANGED vars
  BY <1>t, <1>20 DEF TypeOK, vars, tables, history
<1> QED
  BY <1>1, <1>2, <1>3, <1>4, <1>5, <1>6, <1>7, <1>8, <1>9, <1>10, <1>11, <1>12, <1>13, <1>14,
     <1>15, <1>16, <1>17, <1>18, <1>19, <1>20
  DEF Next, Step, VerifyOtp, Login, LookUp

-----------------------------------------------------------------------------
(* Steps beside the purchases *)

\* No purchase is touched, but that of a business whose row is gone.
Aside ==
    /\ UNCHANGED <<created, subscriptions, sold, renewals, overlapped, cut>>
    /\ \A i \in Ids : /\ accounts'[i].role = accounts[i].role
                      /\ accounts'[i].subscription_id = accounts[i].subscription_id
                      /\ accounts[i].role = "none" => accounts'[i] = accounts[i]
    /\ \A h \in Handlers :
         /\ call'[h].at \in Purchase => call'[h] = call[h]
         /\ call[h].at \in Purchase => call'[h] = call[h] \/ ~Exists(call[h].account)
         /\ call'[h].at \in {"create", "look_up_1", "look_up_2", "look_up_3", "look_up_4"}
              => call'[h].role \in {"Customer", "Business"}

LEMMA AsideKeeps == ASSUME AccountsAssumption, IInv, TypeOK', Aside PROVE IInv'
<1>1. \A i : /\ Exists(i)' <=> Exists(i)
             /\ Owner(i)' <=> Owner(i)
  BY DEF Aside, Exists, Owner
<1>2. \A i : SubsOf(i)' = SubsOf(i)
  BY DEF Aside, SubsOf
<1>3. \A i : Purchasing(i)' \subseteq Purchasing(i)
  BY DEF Aside, Purchasing, Purchase
<1>4. \A i : Owner(i) => Purchasing(i)' = Purchasing(i)
  BY DEF Aside, Purchasing, Purchase, Owner
<1>5. \A i, h : h \in Purchasing(i)' => h \in Handlers /\ call'[h] = call[h]
  BY DEF Aside, Purchasing, Purchase
<1>6. AllPlaced'
  <2> SUFFICES ASSUME NEW h \in Handlers PROVE Placed(call[h])'
    BY DEF AllPlaced
  <2>1. CASE call'[h].at \in Purchase
    <3>1. call'[h] = call[h] /\ call[h].at \in Purchase
      BY <2>1 DEF Aside
    <3>2. Placed(call[h]) /\ call[h].account \in Ids
      BY <3>1 DEF IInv, AllPlaced, Placed, TypeOK, Ids, AccountsAssumption
    <3> QED
      BY <1>1, <3>1, <3>2 DEF Placed, Purchase, Aside
  <2>2. CASE call'[h].at \notin Purchase
    BY <2>2 DEF Placed, Purchase, Aside
  <2> QED
    BY <2>1, <2>2
<1>7. Numbered'
  <2>1. \A i \in Ids : i > created' => accounts'[i] = NoAccount
    <3>1. \A i \in Ids : i > created => accounts[i] = NoAccount
      BY DEF IInv, Numbered
    <3>2. NoAccount.role = "none"
      BY DEF NoAccount
    <3> QED
      BY <3>1, <3>2 DEF Aside
  <2> QED
    BY <1>1, <2>1 DEF IInv, Numbered, Aside
<1>8. TrialStands'
  BY <1>1, <1>2, <1>4 DEF IInv, TrialStands, Aside
<1>9. ASSUME NEW i \in Ids PROVE Single(i)' /\ Standing(i)'
  <2>1. Single(i)'
    BY <1>1, <1>2, <1>3, <1>5 DEF IInv, Single, Aside, IsLatest
  <2>2. Standing(i)'
    BY <1>1, <1>2, <1>4, <1>5 DEF IInv, Standing, Aside, IsLatest
  <2> QED
    BY <2>1, <2>2
<1>10. RenewalFollowsOn'
  BY <1>2 DEF IInv, RenewalFollowsOn, Aside, IsLatest
<1> QED
  BY <1>6, <1>7, <1>8, <1>9, <1>10 DEF IInv

-----------------------------------------------------------------------------
(* A sale, which trial, subscribe and renew end in *)

\* The business whose purchase it is has no other call about another
\* business, and a renewal follows on from the subscription it read.
Sale(h, i, plan, start) ==
    /\ Owner(i) /\ Sell(h, i, plan, start)
    /\ \/ At(h, "idle")
       \/ At(h, "trial") /\ call[h].account = i
       \/ At(h, "renew") /\ call[h].account = i
    /\ \/ renewals' = renewals
       \/ /\ At(h, "renew") /\ renewals' = renewals \cup {sold + 1}
          /\ subscriptions[call[h].sub].expiry <= start
          /\ subscriptions[call[h].sub].plan = plan
    /\ UNCHANGED <<accounts, created, cut>>

LEMMA SaleKeeps ==
  ASSUME AccountsAssumption, IInv, TypeOK', NEW h \in Handlers, NEW i \in Ids,
         NEW plan, NEW start, Sale(h, i, plan, start)
  PROVE  IInv'
<1>t. sold \in Nat /\ sold + 1 \in SubIds /\ sold' = sold + 1 /\ created \in Nat
  BY DEF IInv, TypeOK, Sale, Sell, SubIds, MaybeSub, AccountsAssumption
<1>s. /\ subscriptions'[sold + 1].business = i
      /\ subscriptions'[sold + 1].plan = plan /\ subscriptions'[sold + 1].start = start
      /\ \A s \in SubIds : s # sold + 1 => subscriptions'[s] = subscriptions[s]
  BY <1>t DEF IInv, TypeOK, Sale, Sell
<1>c. /\ call'[h].at = "link" /\ call'[h].account = i /\ call'[h].sub = sold + 1
      /\ \A g \in Handlers : g # h => call'[g] = call[g]
  BY DEF IInv, TypeOK, Sale, Sell, Idle
<1>o. \A j : (Owner(j)' <=> Owner(j)) /\ (Exists(j)' <=> Exists(j))
  BY DEF Sale, Owner, Exists
<1>n. subscriptions[sold + 1] = NoSubscription
  BY <1>t DEF IInv, Numbered
<1>1. SubsOf(i)' = SubsOf(i) \cup {sold + 1} /\ sold + 1 \notin SubsOf(i)
  BY <1>t, <1>s, <1>n DEF SubsOf, NoSubscription, Ids
<1>2. \A j : j # i => SubsOf(j)' = SubsOf(j) \/ j \notin Ids
  BY <1>t, <1>s, <1>n DEF SubsOf, NoSubscription, Ids
<1>3. \A j : \A s \in SubsOf(j) : j \in Ids => s \in Nat /\ s <= sold
  BY <1>t DEF IInv, Numbered, SubsOf, SubIds, NoSubscription, Ids
<1>4. Purchasing(i)' = Purchasing(i) \cup {h}
  BY <1>c DEF Purchasing
<1>5. \A j \in Ids : j # i => Purchasing(j)' = Purchasing(j)
  BY <1>c DEF Purchasing, Sale, At
<1>6. /\ i \notin overlapped' => i \notin overlapped /\ Purchasing(i) \subseteq {h}
      /\ \A j : j # i => (j \in overlapped' <=> j \in overlapped)
  BY DEF Sale, Sell, NotesOverlap
<1>7. AllPlaced'
  <2> SUFFICES ASSUME NEW g \in Handlers PROVE Placed(call[g])'
    BY DEF AllPlaced
  <2>1. CASE g = h
    <3>1. i \in 1 .. created
      BY <1>t DEF Sale, Owner, Exists, IInv, Numbered, NoAccount, Ids
    <3>2. sold + 1 \in 1 .. sold'
      BY <1>t
    <3> QED
      BY <1>c, <1>s, <2>1, <3>1, <3>2 DEF Placed, Purchase, Sale, Owner
  <2>2. CASE g # h
    <3>1. Placed(call[g]) /\ call'[g] = call[g]
      BY <1>c, <2>2 DEF IInv, AllPlaced
    <3>2. \A s \in 1 .. sold : /\ s \in 1 .. sold' /\ s \in SubIds /\ s # sold + 1
                               /\ subscriptions'[s] = subscriptions[s]
      BY <1>t, <1>s DEF SubIds, AccountsAssumption
    <3>3. UNCHANGED <<accounts, created>>
      BY DEF Sale
    <3> QED
      BY <1>o, <3>1, <3>2, <3>3 DEF Placed
  <2> QED
    BY <2>1, <2>2
<1>8. Numbered'
  <2>1. \A j \in Ids : j > created' => accounts'[j] = NoAccount
    BY DEF IInv, Numbered, Sale
  <2>2. ASSUME NEW s \in SubIds
        PROVE  /\ s > sold' => subscriptions'[s] = NoSubscription
               /\ subscriptions'[s] # NoSubscription => Owner(subscriptions[s].business)'
    <3>1. CASE s = sold + 1
      BY <1>t, <1>s, <1>o, <3>1 DEF Sale
    <3>2. CASE s # sold + 1
      BY <1>t, <1>s, <1>o, <3>2 DEF IInv, Numbered, SubIds
    <3> QED
      BY <3>1, <3>2
  <2>3. renewals' \subseteq 1 .. sold'
    <3>1. renewals \subseteq 1 .. sold
      BY DEF IInv, Numbered
    <3>2. renewals' \subseteq renewals \cup {sold + 1}
      BY DEF Sale
    <3> QED
      BY <1>t, <3>1, <3>2
  <2> QED
    BY <2>1, <2>2, <2>3 DEF Numbered
<1>9. TrialStands'
  <2> SUFFICES ASSUME NEW j \in Ids, Owner(j)'
               PROVE  SubsOf(j)' # {} \/ Purchasing(j)' # {} \/ j \in cut'
    BY DEF TrialStands
  <2>1. CASE j = i
    BY <1>1, <2>1
  <2>2. CASE j # i
    BY <1>2, <1>5, <1>o, <2>2 DEF IInv, TrialStands, Sale
  <2> QED
    BY <2>1, <2>2
<1>10. ASSUME NEW j \in Ids PROVE Single(j)'
  <2>1. CASE j = i
    <3> SUFFICES ASSUME i \notin overlapped'
                 PROVE  /\ \A f, g \in Purchasing(i)' : f = g
                        /\ \A g \in Purchasing(i)' : IsLatest(call'[g].sub, SubsOf(i)')
      BY <2>1 DEF Single, IsLatest
    <3>1. Purchasing(i)' = {h}
      BY <1>4, <1>6
    <3>2. \A s \in SubsOf(i)' : s <= sold + 1
      BY <1>t, <1>1, <1>3
    <3>3. IsLatest(sold + 1, SubsOf(i)')
      BY <1>1, <3>2 DEF IsLatest
    <3> QED
      BY <1>c, <3>1, <3>3
  <2>2. CASE j # i
    <3>1. Purchasing(j)' = Purchasing(j) /\ SubsOf(j)' = SubsOf(j)
      BY <1>2, <1>5, <2>2
    <3>2. \A g \in Purchasing(j) : call'[g] = call[g]
      BY <1>c, <2>2, <3>1 DEF Purchasing
    <3>3. Single(j) /\ (j \in overlapped' <=> j \in overlapped)
      BY <1>6, <2>2 DEF IInv
    <3> QED
      BY <1>o, <3>1, <3>2, <3>3 DEF Single, IsLatest
  <2> QED
    BY <2>1, <2>2
<1>11. ASSUME NEW j \in Ids PROVE Standing(j)'
  <2>1. CASE j = i
    BY <1>4, <1>c, <2>1 DEF Standing
  <2>2. CASE j # i
    <3>1. Purchasing(j)' = Purchasing(j) /\ SubsOf(j)' = SubsOf(j)
      BY <1>2, <1>5, <2>2
    <3>2. \A g \in Purchasing(j) : call'[g] = call[g]
      BY <1>c, <2>2, <3>1 DEF Purchasing
    <3>3. Standing(j) /\ (j \in overlapped' <=> j \in overlapped) /\ UNCHANGED <<accounts, cut>>
      BY <1>6, <2>2 DEF IInv, Sale
    <3> QED
      BY <1>o, <3>1, <3>2, <3>3 DEF Standing, IsLatest
  <2> QED
    BY <2>1, <2>2
<1>12. RenewalFollowsOn'
  <2> SUFFICES ASSUME NEW t \in renewals', NEW s \in SubIds,
                      subscriptions'[t].business \in Ids \ overlapped',
                      IsLatest(s, {u \in SubsOf(subscriptions[t].business)' : u < t})
               PROVE  /\ subscriptions'[s].expiry <= subscriptions'[t].start
                      /\ subscriptions'[s].plan = subscriptions'[t].plan
    BY DEF RenewalFollowsOn, IsLatest
  <2>1. CASE t # sold + 1
    <3>1. t \in renewals /\ t \in SubIds /\ t <= sold /\ subscriptions'[t] = subscriptions[t]
      BY <1>t, <1>s, <2>1 DEF Sale, IInv, Numbered, TypeOK
    <3>2. PICK j : j = subscriptions[t].business
      OBVIOUS
    <3>3. {u \in SubsOf(j)' : u < t} = {u \in SubsOf(j) : u < t}
      BY <1>t, <1>1, <1>2, <3>1, <3>2 DEF SubIds
    <3>4. j \notin overlapped
      BY <1>6, <3>1, <3>2
    <3>5. s # 0 /\ IsLatest(s, {u \in SubsOf(j) : u < t})
      BY <3>1, <3>2, <3>3 DEF SubIds
    <3>6. s < t
      BY <3>5 DEF IsLatest
    <3>7. subscriptions'[s] = subscriptions[s]
      BY <1>t, <1>s, <3>1, <3>6 DEF SubIds
    <3> QED
      BY <3>1, <3>2, <3>4, <3>5, <3>7 DEF IInv, RenewalFollowsOn
  <2>2. CASE t = sold + 1
    <3>1. t \notin renewals
      BY <1>t, <2>2 DEF IInv, Numbered
    <3>2. /\ At(h, "renew") /\ subscriptions[call[h].sub].expiry <= start
          /\ subscriptions[call[h].sub].plan = plan /\ call[h].account = i
      BY <3>1 DEF Sale, At
    <3>3. h \in Purchasing(i) /\ i \notin overlapped /\ Owner(i)
      BY <1>s, <1>6, <2>2, <3>2 DEF Purchasing, At, Sale
    <3>4. IsLatest(call[h].sub, SubsOf(i))
      BY <3>2, <3>3 DEF IInv, Single, At
    <3>5. {u \in SubsOf(i)' : u < t} = SubsOf(i)
      BY <1>t, <1>1, <1>3, <2>2
    <3>6. IsLatest(s, SubsOf(i))
      BY <1>s, <2>2, <3>5
    <3>7. s = call[h].sub
      BY <1>3, <3>4, <3>6 DEF IsLatest, SubIds
    <3>8. s # sold + 1
      BY <1>t, <1>3, <3>6 DEF IsLatest, SubIds
    <3> QED
      BY <1>s, <2>2, <3>2, <3>7, <3>8
  <2> QED
    BY <2>1, <2>2
<1> QED
  BY <1>7, <1>8, <1>9, <1>10, <1>11, <1>12 DEF IInv

-----------------------------------------------------------------------------
(* The other steps of a purchase *)

\* The number of a new account was never used: it has no subscription and
\* no call is about it.
LEMMA CreateKeeps ==
  ASSUME AccountsAssumption, IInv, TypeOK', NEW h \in Handlers, Create(h)
  PROVE  IInv'
<1>0. PICK n : n = created + 1
  OBVIOUS
<1>t. created \in Nat /\ n \in Ids /\ created' = n /\ n > created
  BY <1>0 DEF IInv, TypeOK, Create, Ids, AccountsAssumption
<1>a. /\ accounts'[n].role = call[h].role /\ accounts'[n].subscription_id = 0
      /\ \A i \in Ids : i # n => accounts'[i] = accounts[i]
      /\ accounts[n] = NoAccount
  BY <1>0, <1>t DEF IInv, TypeOK, Numbered, Create
<1>r. call[h].role \in {"Customer", "Business"}
  BY DEF Create, At, IInv, AllPlaced, Placed
<1>u. UNCHANGED <<subscriptions, sold, renewals, overlapped, cut>>
  BY DEF Create, history
<1>c. /\ call[h].at = "create"
      /\ \/ call'[h].at = "trial" /\ call'[h].account = n /\ call[h].role = "Business"
         \/ call'[h] = Idle /\ call[h].role = "Customer"
      /\ \A g \in Handlers : g # h => call'[g] = call[g]
  <2>1. \/ /\ call[h].role = "Business"
           /\ call' = [call EXCEPT ![h] = [Idle EXCEPT !.at = "trial", !.account = n]]
        \/ call[h].role = "Customer" /\ call' = [call EXCEPT ![h] = Idle]
    BY <1>0, <1>r DEF Create, Return, OnTrial
  <2>2. call \in [Handlers -> Call]
    BY DEF IInv, TypeOK
  <2> QED
    BY <2>1, <2>2 DEF Create, At, Idle
<1>o. \A i \in Ids : i # n => (Owner(i)' <=> Owner(i))
  BY <1>a DEF Owner, Exists
<1>f. ~Owner(n)
  BY <1>a DEF Owner, NoAccount
<1>1. \A i : SubsOf(i)' = SubsOf(i)
  BY <1>u DEF SubsOf
<1>2. SubsOf(n) = {}
  <2> SUFFICES ASSUME NEW s \in SubIds, subscriptions[s].business = n PROVE FALSE
    BY DEF SubsOf
  <2>1. subscriptions[s] # NoSubscription
    BY <1>t DEF NoSubscription, Ids
  <2> QED
    BY <1>f, <2>1 DEF IInv, Numbered
<1>3. \A i \in Ids : i # n => Purchasing(i)' = Purchasing(i)
  BY <1>c DEF Purchasing, Idle
<1>4. /\ \A g \in Purchasing(n)' : g = h /\ call'[g].at = "trial"
      /\ call[h].role = "Business" => h \in Purchasing(n)'
  <2>1. \A g \in Handlers : call[g].at \in Purchase => call[g].account # n
    BY <1>t DEF IInv, AllPlaced, Placed, Purchase
  <2> QED
    BY <1>c, <2>1 DEF Purchasing, Purchase, Idle
<1>5. AllPlaced'
  <2> SUFFICES ASSUME NEW g \in Handlers PROVE Placed(call[g])'
    BY DEF AllPlaced
  <2>1. CASE g = h
    <3>1. n \in 1 .. created'
      BY <1>t DEF Ids
    <3> QED
      BY <1>a, <1>c, <2>1, <3>1 DEF Placed, Purchase, Idle
  <2>2. CASE g # h
    <3>1. Placed(call[g]) /\ call'[g] = call[g]
      BY <1>c, <2>2 DEF IInv, AllPlaced
    <3>2. call[g].at \in Purchase =>
            call[g].account \in 1 .. created' /\ call[g].account \in Ids /\ call[g].account # n
      BY <1>t, <3>1 DEF Placed, Ids
    <3> QED
      BY <1>a, <1>o, <1>u, <3>1, <3>2 DEF Placed, Purchase
  <2> QED
    BY <2>1, <2>2
<1>6. Numbered'
  <2>1. \A i \in Ids : i > created' => accounts'[i] = NoAccount
    <3>1. \A i \in Ids : i > created => accounts[i] = NoAccount
      BY DEF IInv, Numbered
    <3> QED
      BY <1>0, <1>t, <1>a, <3>1 DEF Ids
  <2>2. ASSUME NEW s \in SubIds, subscriptions[s] # NoSubscription
        PROVE  Owner(subscriptions[s].business)'
    <3>1. Owner(subscriptions[s].business)
      BY <2>2 DEF IInv, Numbered
    <3>2. subscriptions[s].business # n /\ subscriptions[s].business \in Ids
      BY <1>f, <3>1 DEF Owner, Exists
    <3> QED
      BY <1>a, <1>u, <3>1, <3>2 DEF Owner, Exists
  <2> QED
    BY <1>u, <2>1, <2>2 DEF IInv, Numbered
<1>7. TrialStands'
  <2> SUFFICES ASSUME NEW i \in Ids, Owner(i)'
               PROVE  SubsOf(i)' # {} \/ Purchasing(i)' # {} \/ i \in cut'
    BY DEF TrialStands
  <2>1. CASE i = n
    BY <1>a, <1>4, <2>1 DEF Owner
  <2>2. CASE i # n
    BY <1>o, <1>u, <1>1, <1>3, <2>2 DEF IInv, TrialStands
  <2> QED
    BY <2>1, <2>2
<1>8. ASSUME NEW i \in Ids PROVE Single(i)' /\ Standing(i)'
  <2>1. CASE i = n
    <3>1. IsLatest(accounts'[n].subscription_id, SubsOf(n)')
      BY <1>a, <1>1, <1>2 DEF IsLatest
    <3> QED
      BY <1>4, <2>1, <3>1 DEF Single, Standing, IsLatest
  <2>2. CASE i # n
    <3>1. /\ Purchasing(i)' = Purchasing(i) /\ SubsOf(i)' = SubsOf(i)
          /\ accounts'[i] = accounts[i] /\ (Owner(i)' <=> Owner(i))
      BY <1>a, <1>o, <1>1, <1>3, <2>2
    <3>2. \A g \in Purchasing(i) : call'[g] = call[g]
      BY <1>c DEF Purchasing
    <3> QED
      BY <1>u, <3>1, <3>2 DEF IInv, Single, Standing, IsLatest
  <2> QED
    BY <2>1, <2>2
<1>9. RenewalFollowsOn'
  BY <1>u, <1>1 DEF IInv, RenewalFollowsOn, IsLatest
<1> QED
  BY <1>5, <1>6, <1>7, <1>8, <1>9 DEF IInv

\* The link written is the latest, if no other purchase was under way.
LEMMA LinkKeeps ==
  ASSUME AccountsAssumption, IInv, TypeOK', NEW h \in Handlers, Link(h)
  PROVE  IInv'
<1>0. PICK i : i = call[h].account
  OBVIOUS
<1>a. /\ i \in Ids /\ Owner(i)
      /\ accounts'[i].subscription_id = call[h].sub
      /\ \A j \in Ids : accounts'[j].role = accounts[j].role
      /\ \A j \in Ids : j # i => accounts'[j] = accounts[j]
  BY <1>0 DEF IInv, TypeOK, Link, Linked, Owner, Exists, Account, NoAccount
<1>u. UNCHANGED <<created, subscriptions, sold, renewals, overlapped, cut>>
  BY DEF Link, history
<1>c. /\ call[h].at = "link" /\ call'[h] = Idle
      /\ \A g \in Handlers : g # h => call'[g] = call[g]
  BY DEF IInv, TypeOK, Link, At, Return
<1>o. \A j : (Owner(j)' <=> Owner(j)) /\ (Exists(j)' <=> Exists(j))
  BY <1>a DEF Owner, Exists
<1>1. \A j : SubsOf(j)' = SubsOf(j)
  BY <1>u DEF SubsOf
<1>2. /\ h \in Purchasing(i) /\ Purchasing(i)' = Purchasing(i) \ {h}
      /\ \A j : j # i => Purchasing(j)' = Purchasing(j)
  BY <1>0, <1>c DEF Purchasing, Idle
<1>3. \A j : \A g \in Purchasing(j)' : call'[g] = call[g]
  BY <1>c DEF Purchasing, Idle
<1>4. call[h].sub \in SubsOf(i)
  BY <1>0, <1>a, <1>c DEF IInv, TypeOK, AllPlaced, Placed, SubsOf, SubIds, MaybeSub,
                          AccountsAssumption
<1>5. AllPlaced'
  <2> SUFFICES ASSUME NEW g \in Handlers PROVE Placed(call[g])'
    BY DEF AllPlaced
  <2>1. CASE g = h
    BY <1>c, <2>1 DEF Placed, Purchase, Idle
  <2>2. CASE g # h
    <3>1. Placed(call[g]) /\ call'[g] = call[g]
      BY <1>c, <2>2 DEF IInv, AllPlaced
    <3>2. call[g].at \in Purchase => call[g].account \in Ids
      BY <3>1 DEF Placed, IInv, TypeOK, Ids, AccountsAssumption
    <3> QED
      BY <1>a, <1>o, <1>u, <3>1, <3>2 DEF Placed, Purchase
  <2> QED
    BY <2>1, <2>2
<1>6. Numbered'
  <2>1. \A j \in Ids : j > created' => accounts'[j] = NoAccount
    <3>1. \A j \in Ids : j > created => accounts[j] = NoAccount
      BY DEF IInv, Numbered
    <3>2. accounts[i] # NoAccount
      BY <1>a DEF Owner, Exists, NoAccount
    <3> QED
      BY <1>a, <1>u, <3>1, <3>2
  <2> QED
    BY <1>o, <1>u, <2>1 DEF IInv, Numbered
<1>7. TrialStands'
  <2> SUFFICES ASSUME NEW j \in Ids, Owner(j)'
               PROVE  SubsOf(j)' # {} \/ Purchasing(j)' # {} \/ j \in cut'
    BY DEF TrialStands
  <2>1. CASE j = i
    BY <1>1, <1>4, <2>1
  <2>2. CASE j # i
    BY <1>o, <1>u, <1>1, <1>2, <2>2 DEF IInv, TrialStands
  <2> QED
    BY <2>1, <2>2
<1>8. ASSUME NEW j \in Ids PROVE Single(j)'
  <2>1. Purchasing(j)' \subseteq Purchasing(j)
    BY <1>2
  <2>2. Single(j)
    BY DEF IInv
  <2> QED
    BY <1>o, <1>u, <1>1, <1>3, <2>1, <2>2 DEF Single, IsLatest
<1>9. ASSUME NEW j \in Ids PROVE Standing(j)'
  <2>1. CASE j = i
    <3> SUFFICES ASSUME i \notin overlapped
                 PROVE  IsLatest(accounts'[i].subscription_id, SubsOf(i)')
      BY <1>u, <2>1 DEF Standing, IsLatest
    <3>1. IsLatest(call[h].sub, SubsOf(i))
      BY <1>a, <1>c, <1>2 DEF IInv, Single
    <3> QED
      BY <1>a, <1>1, <3>1
  <2>2. CASE j # i
    <3>1. Purchasing(j)' = Purchasing(j) /\ accounts'[j] = accounts[j] /\ Standing(j)
      BY <1>a, <1>2, <2>2 DEF IInv
    <3> QED
      BY <1>o, <1>u, <1>1, <1>3, <3>1 DEF Standing, IsLatest
  <2> QED
    BY <2>1, <2>2
<1>10. RenewalFollowsOn'
  BY <1>u, <1>1 DEF IInv, RenewalFollowsOn, IsLatest
<1> QED
  BY <1>5, <1>6, <1>7, <1>8, <1>9, <1>10 DEF IInv

\* renew reads the latest subscription and goes to the payment.
LEMMA RenewKeeps ==
  ASSUME AccountsAssumption, IInv, TypeOK', NEW h \in Handlers, Renew(h)
  PROVE  IInv'
<1>0. PICK i \in sessions, s \in SubIds :
        /\ Owner(i) /\ IsLatest(s, SubsOf(i)) /\ At(h, "idle")
        /\ call' = [call EXCEPT ![h] = [Idle EXCEPT !.at = "renew", !.account = i, !.sub = s]]
        /\ NotesOverlap(h, i)
  BY DEF Renew, Begin
<1>u. UNCHANGED <<accounts, created, subscriptions, sold, renewals, cut>>
  BY DEF Renew, tables
<1>t. i \in Ids /\ created \in Nat
  BY DEF IInv, TypeOK
<1>c. /\ call'[h].at = "renew" /\ call'[h].account = i /\ call'[h].sub = s
      /\ \A g \in Handlers : g # h => call'[g] = call[g]
  BY <1>0 DEF IInv, TypeOK, Idle
<1>o. \A j : (Owner(j)' <=> Owner(j)) /\ (Exists(j)' <=> Exists(j))
  BY <1>u DEF Owner, Exists
<1>1. \A j : SubsOf(j)' = SubsOf(j)
  BY <1>u DEF SubsOf
<1>2. /\ Purchasing(i)' = Purchasing(i) \cup {h} /\ h \notin Purchasing(i)
      /\ \A j : j # i => Purchasing(j)' = Purchasing(j)
  BY <1>0, <1>c DEF Purchasing, At
<1>3. /\ i \notin overlapped' => i \notin overlapped /\ Purchasing(i) = {}
      /\ \A j : j # i => (j \in overlapped' <=> j \in overlapped)
  BY <1>0, <1>2 DEF NotesOverlap
<1>4. s \in SubsOf(i)
  BY <1>0 DEF IsLatest, SubIds
<1>5. AllPlaced'
  <2> SUFFICES ASSUME NEW g \in Handlers PROVE Placed(call[g])'
    BY DEF AllPlaced
  <2>1. CASE g = h
    <3>1. i \in 1 .. created
      BY <1>0, <1>t DEF Owner, Exists, IInv, Numbered, NoAccount, Ids
    <3>2. subscriptions[s] # NoSubscription /\ subscriptions[s].business = i
      BY <1>4, <1>t DEF SubsOf, NoSubscription, Ids
    <3>3. s \in 1 .. sold
      BY <3>2 DEF IInv, Numbered, TypeOK, SubIds, MaybeSub, AccountsAssumption
    <3> QED
      BY <1>0, <1>u, <1>c, <2>1, <3>1, <3>2, <3>3 DEF Placed, Purchase, Owner
  <2>2. CASE g # h
    <3>1. Placed(call[g]) /\ call'[g] = call[g]
      BY <1>c, <2>2 DEF IInv, AllPlaced
    <3> QED
      BY <1>o, <1>u, <3>1 DEF Placed
  <2> QED
    BY <2>1, <2>2
<1>6. Numbered'
  BY <1>o, <1>u DEF IInv, Numbered
<1>7. TrialStands'
  BY <1>o, <1>u, <1>1, <1>2 DEF IInv, TrialStands
<1>8. ASSUME NEW j \in Ids PROVE Single(j)' /\ Standing(j)'
  <2>1. CASE j = i
    <3>1. Single(i)'
      BY <1>0, <1>c, <1>1, <1>2, <1>3 DEF Single, IsLatest
    <3>2. \A g \in Purchasing(i) : call'[g] = call[g]
      BY <1>c, <1>2 DEF Purchasing
    <3>3. Standing(i)
      BY <1>t DEF IInv
    <3>4. Standing(i)'
      BY <1>o, <1>u, <1>1, <1>2, <1>3, <3>2, <3>3 DEF Standing, IsLatest
    <3> QED
      BY <2>1, <3>1, <3>4
  <2>2. CASE j # i
    <3>1. Purchasing(j)' = Purchasing(j) /\ Single(j) /\ Standing(j)
      BY <1>2, <2>2 DEF IInv
    <3>2. h \notin Purchasing(j)
      BY <1>c, <2>2, <3>1 DEF Purchasing
    <3>3. \A g \in Purchasing(j) : call'[g] = call[g]
      BY <1>c, <3>2 DEF Purchasing
    <3> QED
      BY <1>o, <1>u, <1>1, <1>3, <2>2, <3>1, <3>3 DEF Single, Standing, IsLatest
  <2> QED
    BY <2>1, <2>2
<1>9. RenewalFollowsOn'
  <2>1. overlapped \subseteq overlapped'
    BY <1>0 DEF NotesOverlap
  <2> QED
    BY <1>u, <1>1, <2>1 DEF IInv, RenewalFollowsOn, IsLatest
<1> QED
  BY <1>5, <1>6, <1>7, <1>8, <1>9 DEF IInv

-----------------------------------------------------------------------------
(* Deletions and crashes *)

LEMMA DeleteKeeps ==
  ASSUME AccountsAssumption, IInv, TypeOK', NEW i \in Ids, DeleteAccount(i)
  PROVE  IInv'
<1>a. /\ accounts'[i] = NoAccount /\ accounts[i] # NoAccount
      /\ \A j \in Ids : j # i => accounts'[j] = accounts[j]
  BY DEF IInv, TypeOK, DeleteAccount, NoAccount
<1>s. \A s \in SubIds : subscriptions'[s] = IF subscriptions[s].business = i THEN NoSubscription
                                                                         ELSE subscriptions[s]
  BY DEF DeleteAccount, SubsOf
<1>u. UNCHANGED <<created, sold, call, renewals, overlapped, cut>>
  BY DEF DeleteAccount, history
<1>o. ~Owner(i)' /\ \A j : j # i => (Owner(j)' <=> Owner(j))
  BY <1>a DEF Owner, Exists, NoAccount
<1>1. \A j \in Ids : j # i => SubsOf(j)' = SubsOf(j)
  BY <1>s DEF SubsOf, NoSubscription, Ids
<1>2. \A j : Purchasing(j)' = Purchasing(j)
  BY <1>u DEF Purchasing
<1>3. AllPlaced'
  <2> SUFFICES ASSUME NEW g \in Handlers PROVE Placed(call[g])'
    BY DEF AllPlaced
  <2>1. Placed(call[g]) /\ call'[g] = call[g]
    BY <1>u DEF IInv, AllPlaced
  <2>2. call[g].at \in Purchase => call[g].account \in Ids
    BY <2>1 DEF Placed, IInv, TypeOK, Ids, AccountsAssumption
  <2>3. call[g].at \in {"renew", "link"} => call[g].sub \in SubIds
    BY <2>1 DEF Placed, IInv, TypeOK, SubIds, MaybeSub, AccountsAssumption
  <2>4. call[g].at \in Purchase => accounts'[call[g].account].role \in {"Business", "none"}
    BY <1>a, <2>1, <2>2 DEF Placed, NoAccount
  <2>5. call[g].at \in {"renew", "link"} =>
          (Owner(call[g].account)' => subscriptions'[call[g].sub].business = call[g].account)
    BY <1>s, <1>o, <1>u, <2>1, <2>3 DEF Placed
  <2> QED
    BY <1>u, <2>1, <2>4, <2>5 DEF Placed, Purchase
<1>4. Numbered'
  <2>1. \A j \in Ids : j > created' => accounts'[j] = NoAccount
    BY <1>a, <1>u DEF IInv, Numbered
  <2>2. \A s \in SubIds : s > sold' => subscriptions'[s] = NoSubscription
    BY <1>s, <1>u DEF IInv, Numbered
  <2>3. ASSUME NEW s \in SubIds, subscriptions'[s] # NoSubscription
        PROVE  Owner(subscriptions[s].business)'
    <3>1. subscriptions[s].business # i /\ subscriptions'[s] = subscriptions[s]
      BY <1>s, <2>3
    <3>2. Owner(subscriptions[s].business)
      BY <2>3, <3>1 DEF IInv, Numbered
    <3> QED
      BY <1>a, <3>1, <3>2 DEF Owner, Exists
  <2>4. renewals' \subseteq 1 .. sold'
    BY <1>u DEF IInv, Numbered
  <2> QED
    BY <2>1, <2>2, <2>3, <2>4 DEF Numbered
<1>5. TrialStands'
  BY <1>o, <1>u, <1>1, <1>2 DEF IInv, TrialStands
<1>6. ASSUME NEW j \in Ids PROVE Single(j)' /\ Standing(j)'
  <2>1. CASE j = i
    BY <1>o, <1>u, <1>2, <2>1 DEF IInv, Single, Standing
  <2>2. CASE j # i
    <3>1. SubsOf(j)' = SubsOf(j) /\ accounts'[j] = accounts[j] /\ Single(j) /\ Standing(j)
      BY <1>a, <1>1, <2>2 DEF IInv
    <3> QED
      BY <1>o, <1>u, <1>2, <2>2, <3>1 DEF Single, Standing, IsLatest
  <2> QED
    BY <2>1, <2>2
<1>7. RenewalFollowsOn'
  <2> SUFFICES ASSUME NEW t \in renewals', NEW s \in SubIds,
                      subscriptions'[t].business \in Ids \ overlapped',
                      IsLatest(s, {u \in SubsOf(subscriptions[t].business)' : u < t})
               PROVE  /\ subscriptions'[s].expiry <= subscriptions'[t].start
                      /\ subscriptions'[s].plan = subscriptions'[t].plan
    BY DEF RenewalFollowsOn, IsLatest
  <2>1. t \in renewals /\ t \in SubIds
    BY <1>u DEF IInv, TypeOK
  <2>2. subscriptions[t].business # i /\ subscriptions'[t] = subscriptions[t]
    BY <1>s, <2>1 DEF NoSubscription, Ids
  <2>3. PICK j : j = subscriptions[t].business
    OBVIOUS
  <2>4. j \in Ids \ overlapped /\ SubsOf(j)' = SubsOf(j)
    BY <1>u, <1>1, <2>2, <2>3
  <2>5. s # 0 /\ IsLatest(s, {u \in SubsOf(j) : u < t})
    BY <2>2, <2>3, <2>4 DEF SubIds
  <2>6. subscriptions[s].business = j /\ subscriptions'[s] = subscriptions[s]
    BY <1>s, <2>2, <2>3, <2>5 DEF IsLatest, SubsOf
  <2> QED
    BY <2>1, <2>2, <2>3, <2>4, <2>5, <2>6 DEF IInv, RenewalFollowsOn
<1> QED
  BY <1>3, <1>4, <1>5, <1>6, <1>7 DEF IInv

LEMMA CrashKeeps == ASSUME AccountsAssumption, IInv, TypeOK', Crash PROVE IInv'
<1>u. /\ UNCHANGED <<tables, renewals, overlapped>>
      /\ cut' = cut \cup {i \in Ids : Purchasing(i) # {}}
      /\ \A h \in Handlers : call'[h] = Idle
  BY DEF Crash
<1>o. \A j : Owner(j)' <=> Owner(j)
  BY <1>u DEF Owner, Exists, tables
<1>1. \A j : SubsOf(j)' = SubsOf(j) /\ Purchasing(j)' = {}
  BY <1>u DEF SubsOf, Purchasing, Idle, tables
<1>2. AllPlaced'
  BY <1>u DEF AllPlaced, Placed, Purchase, Idle
<1>3. Numbered'
  BY <1>o, <1>u DEF IInv, Numbered, tables
<1>4. TrialStands'
  BY <1>o, <1>u, <1>1 DEF IInv, TrialStands
<1>5. ASSUME NEW j \in Ids PROVE Single(j)' /\ Standing(j)'
  <2>1. Single(j)'
    BY <1>1 DEF Single
  <2>2. Standing(j)'
    <3>1. j \notin cut' => Purchasing(j) = {} /\ j \notin cut
      BY <1>u
    <3>2. Standing(j)
      BY DEF IInv
    <3> QED
      BY <1>o, <1>u, <1>1, <3>1, <3>2 DEF Standing, IsLatest, tables
  <2> QED
    BY <2>1, <2>2
<1>6. RenewalFollowsOn'
  BY <1>u, <1>1 DEF IInv, RenewalFollowsOn, IsLatest, tables
<1> QED
  BY <1>2, <1>3, <1>4, <1>5, <1>6 DEF IInv

-----------------------------------------------------------------------------
(* Every step, and what follows *)

\* A step is a step of a purchase, the deletion of an account, a crash, or
\* is beside the purchases.
LEMMA StepKinds ==
  ASSUME AccountsAssumption, IInv, [Next]_vars
  PROVE  \/ Aside \/ Crash
         \/ \E h \in Handlers : Create(h) \/ Link(h) \/ Renew(h)
         \/ \E h \in Handlers, i \in Ids : \E plan, start : Sale(h, i, plan, start)
         \/ \E i \in Ids : DeleteAccount(i)
<1>c. call \in [Handlers -> Call]
  BY DEF IInv, TypeOK
<1>r. \A h \in Handlers :
        call[h].at \in {"create", "look_up_1", "look_up_2", "look_up_3", "look_up_4"}
          => call[h].role \in {"Customer", "Business"}
  BY DEF IInv, AllPlaced, Placed
<1>1. ASSUME NEW h \in Handlers, Register(h) \/ GoogleUpsert(h) \/ UpdateBusiness(h) PROVE Aside
  <2>1. /\ call[h].at = "idle" /\ \A g \in Handlers : g # h => call'[g] = call[g]
        /\ \/ call'[h].at \in {"create", "look_up_1"} /\ call'[h].role \in {"Customer", "Business"}
           \/ call'[h].at = "set_email"
    BY <1>c, <1>1 DEF Register, GoogleUpsert, UpdateBusiness, Begin, At, Idle
  <2>2. UNCHANGED <<tables, history>>
    BY <1>1 DEF Register, GoogleUpsert, UpdateBusiness
  <2> QED
    BY <1>r, <2>1, <2>2 DEF Aside, Purchase, tables, history
<1>3. ASSUME NEW h \in Handlers, Collides(h) \/ GoogleFound(h) \/ GoogleMissed(h) PROVE Aside
  <2>1. /\ call[h].at \notin Purchase /\ \A g \in Handlers : g # h => call'[g] = call[g]
        /\ \/ call'[h].at \in {"idle", "adopt"}
           \/ /\ call'[h].at \in {"create", "look_up_2", "look_up_3", "look_up_4"}
              /\ call'[h].role \in {"Customer", "Business"}
    <3>1. CASE Collides(h)
      BY <1>c, <3>1 DEF Collides, Return, At, Idle, Purchase
    <3>2. CASE GoogleFound(h)
      <4>1. FoundAt(h) # {}
        BY <3>2 DEF GoogleFound
      <4>2. call[h].at \in {"look_up_1", "look_up_2", "look_up_3", "look_up_4"}
        BY <4>1 DEF FoundAt
      <4>3. \/ call' = [call EXCEPT ![h] = Idle]
            \/ \E i \in FoundAt(h) : call' = [call EXCEPT ![h].at = "adopt", ![h].account = i]
        BY <3>2 DEF GoogleFound, Return
      <4> QED
        BY <1>c, <4>2, <4>3 DEF Idle, Purchase, Call
    <3>3. CASE GoogleMissed(h)
      <4>1. call[h].at \in {"look_up_1", "look_up_2", "look_up_3", "look_up_4"}
        BY <3>3 DEF GoogleMissed, After
      <4>2. \A n \in DOMAIN After : After[n] \in {"look_up_2", "look_up_3", "look_up_4"}
        BY DEF After
      <4>3. call[h].role \in {"Customer", "Business"}
        BY <1>r, <4>1
      <4>4. \/ call' = [call EXCEPT ![h] = Idle]
            \/ \E where \in {"create", "look_up_2", "look_up_3", "look_up_4"} :
                 call' = [call EXCEPT ![h].at = where]
        BY <3>3, <4>2 DEF GoogleMissed, Goto, Return
      <4> QED
        BY <1>c, <4>1, <4>3, <4>4 DEF Idle, Purchase, Call
    <3> QED
      BY <1>3, <3>1, <3>2, <3>3
  <2>2. UNCHANGED <<tables, history>>
    BY <1>3 DEF Collides, GoogleFound, GoogleMissed
  <2> QED
    BY <1>r, <2>1, <2>2 DEF Aside, Purchase, tables, history
<1>4. ASSUME NEW h \in Handlers, RowGone(h) PROVE Aside
  <2>1. /\ call'[h] = Idle /\ \A g \in Handlers : g # h => call'[g] = call[g]
        /\ ~Exists(call[h].account)
    BY <1>c, <1>4 DEF RowGone, Return
  <2> QED
    BY <1>r, <1>4, <2>1 DEF Aside, RowGone, Purchase, Idle, tables, history
<1>5. ASSUME NEW h \in Handlers, Trial(h)
      PROVE  \E i \in Ids : \E plan, start : Sale(h, i, plan, start)
  <2>1. Sale(h, call[h].account, Basic, now) /\ call[h].account \in Ids
    BY <1>5 DEF Sale, Trial, Owner, Exists
  <2> QED
    BY <2>1
<1>7. ASSUME NEW h \in Handlers, Adopt(h) \/ WriteEmail(h) PROVE Aside
  <2>1. /\ call[h].account \in Ids /\ Exists(call[h].account) /\ Edited(call[h].account)
        /\ call[h].at \notin Purchase /\ call'[h] = Idle
        /\ \A g \in Handlers : g # h => call'[g] = call[g]
    <3>1. call[h].account \in Ids /\ Exists(call[h].account) /\ call[h].email \in Emails \cup {None}
      BY <1>c, <1>7 DEF Adopt, WriteEmail, Exists, Call
    <3>2. Edited(call[h].account)
      BY <1>7, <3>1 DEF Edited, Adopt, WriteEmail, SetEmail
    <3> QED
      BY <1>c, <1>7, <3>1, <3>2 DEF Adopt, WriteEmail, Return, At, Purchase
  <2>2. \A j \in Ids : /\ accounts'[j].role = accounts[j].role
                       /\ accounts'[j].subscription_id = accounts[j].subscription_id
                       /\ accounts[j].role = "none" => accounts'[j] = accounts[j]
    BY <2>1, RowEdited DEF IInv
  <2> QED
    BY <1>r, <1>7, <2>1, <2>2 DEF Aside, Adopt, WriteEmail, Purchase, Idle, history
<1>8. ASSUME NEW h \in Handlers, Subscribe(h)
      PROVE  \E i \in Ids : \E plan, start : Sale(h, i, plan, start)
  <2>1. PICK i \in sessions, plan \in Plans : Owner(i) /\ Sell(h, i, plan, now)
    BY <1>8 DEF Subscribe
  <2>2. Sale(h, i, plan, now) /\ i \in Ids
    BY <1>8, <2>1 DEF Sale, Subscribe, Owner, Exists
  <2> QED
    BY <2>2
<1>10. ASSUME NEW h \in Handlers, RenewPaid(h)
       PROVE  \E i \in Ids : \E plan, start : Sale(h, i, plan, start)
  <2>1. subscriptions[call[h].sub].expiry <= NextStart(call[h].sub)
    BY <1>10, RenewedIsThere DEF RenewPaid, IInv
  <2>2. /\ Sale(h, call[h].account, subscriptions[call[h].sub].plan, NextStart(call[h].sub))
        /\ call[h].account \in Ids
    BY <1>10, <2>1 DEF Sale, RenewPaid, Owner, Exists
  <2> QED
    BY <2>2
<1>11. ASSUME NEW i \in Ids, Open(i) PROVE Aside
  BY <1>r, <1>11 DEF Aside, Open, tables, history, Purchase
<1>12. ASSUME NEW i \in Ids, UpdateProfile(i) \/ UpdateCustomer(i)
                               \/ \E status \in Statuses : VerifyBusiness(i, status)
       PROVE  Aside
  <2>1. Exists(i) /\ Edited(i)
    BY <1>12 DEF UpdateProfile, UpdateCustomer, VerifyBusiness, SetEmail, Edited, Exists, Owner
  <2>2. \A j \in Ids : /\ accounts'[j].role = accounts[j].role
                       /\ accounts'[j].subscription_id = accounts[j].subscription_id
                       /\ accounts[j].role = "none" => accounts'[j] = accounts[j]
    BY <2>1, RowEdited DEF IInv
  <2> QED
    BY <1>r, <1>12, <2>2
    DEF Aside, UpdateProfile, UpdateCustomer, VerifyBusiness, Purchase, history
<1>13. Tick \/ UNCHANGED vars => Aside
  BY <1>r DEF Aside, Tick, vars, tables, history, Purchase
<1> QED
  BY <1>1, <1>3, <1>4, <1>5, <1>7, <1>8, <1>10, <1>11, <1>12, <1>13
  DEF Next, Step, VerifyOtp, Login, LookUp

LEMMA StepKeeps == ASSUME AccountsAssumption, IInv, [Next]_vars PROVE IInv'
<1>1. TypeOK'
  BY TypeStep DEF IInv
<1> QED
  BY <1>1, StepKinds, AsideKeeps, CrashKeeps, CreateKeeps, LinkKeeps, RenewKeeps, SaleKeeps,
     DeleteKeeps

LEMMA Inductive == Spec => []IInv
<1>1. Init => IInv
  BY AccountsAssumption, Initially
<1>2. IInv /\ [Next]_vars => IInv'
  BY AccountsAssumption, StepKeeps
<1> QED
  BY <1>1, <1>2, PTL DEF Spec

\* The accounts, the subscriptions and what every call has read of them are
\* of their types: what register, googleUpsert, the profiles and
\* SubscriptionService write is what the tables may hold.
THEOREM TypeCorrect == Spec => []TypeOK
<1>1. IInv => TypeOK
  BY DEF IInv
<1> QED
  BY <1>1, Inductive, PTL

\* register writes the business, its trial and the link in three queries: a
\* business has a subscription unless its sign-up is under way or a crash
\* cut it short, whatever sign-ins, profiles and deletions do beside it.
THEOREM TrialAlwaysStands == Spec => []TrialStands
<1>1. IInv => TrialStands
  BY DEF IInv
<1> QED
  BY <1>1, Inductive, PTL

\* The subscription_id that subscribe and renew link is the latest
\* subscription, the one getCurrent shows, once the business's purchases are
\* over, unless two of them overlapped or a crash cut one short.
THEOREM CurrentAlwaysLatest == Spec => []CurrentIsLatest
<1>1. IInv => CurrentIsLatest
  BY DEF IInv, Standing, CurrentIsLatest
<1> QED
  BY <1>1, Inductive, PTL

\* renew reads the latest subscription, waits for the payment and then
\* extends it: the new one starts no earlier than the old one ends and has
\* its plan, unless another purchase of the business ran beside it.
THEOREM RenewalAlwaysFollowsOn == Spec => []RenewalFollowsOn
<1>1. IInv => RenewalFollowsOn
  BY DEF IInv
<1> QED
  BY <1>1, Inductive, PTL
-----------------------------------------------------------------------------
(* The link only moves on *)

\* A business is linked to no subscription but one of its own.
OwnLink(i) == Owner(i) => accounts[i].subscription_id \in SubsOf(i) \cup {0}

MovesForward(i) ==
    Owner(i) /\ Owner(i)' /\ i \notin overlapped'
      => accounts[i].subscription_id <= accounts'[i].subscription_id

\* A sale adds one subscription and takes none away.
LEMMA SaleAdds ==
  ASSUME AccountsAssumption, IInv, NEW h \in Handlers, NEW j \in Ids, NEW plan, NEW start,
         Sale(h, j, plan, start), NEW i \in Ids
  PROVE  SubsOf(i) \subseteq SubsOf(i)'
<1>1. sold + 1 \in SubIds /\ sold \in Nat
  BY DEF IInv, TypeOK, Sale, Sell, SubIds, MaybeSub, AccountsAssumption
<1>2. subscriptions[sold + 1] = NoSubscription
  BY <1>1 DEF IInv, Numbered
<1>3. sold + 1 \notin SubsOf(i)
  BY <1>2 DEF SubsOf, NoSubscription, Ids
<1>4. \A s \in SubIds : s # sold + 1 => subscriptions'[s] = subscriptions[s]
  BY DEF IInv, TypeOK, Sale, Sell
<1> QED
  BY <1>3, <1>4 DEF SubsOf

\* The link of a business that has one purchase under way is to its latest
\* subscription, of which the one linked so far is a predecessor.
LEMMA LinkMovesOn ==
  ASSUME AccountsAssumption, IInv, NEW h \in Handlers, Link(h), NEW i \in Ids, OwnLink(i)
  PROVE  OwnLink(i)' /\ MovesForward(i)
<1>0. PICK j : j = call[h].account
  OBVIOUS
<1>1. /\ j \in Ids /\ Owner(j)
      /\ accounts'[j].subscription_id = call[h].sub
      /\ \A k \in Ids : accounts'[k].role = accounts[k].role
      /\ \A k \in Ids : k # j => accounts'[k] = accounts[k]
  BY <1>0 DEF IInv, TypeOK, Link, Linked, Owner, Exists, Account, NoAccount
<1>2. SubsOf(i)' = SubsOf(i) /\ overlapped' = overlapped /\ (Owner(i)' <=> Owner(i))
  BY <1>1 DEF Link, SubsOf, Owner, Exists, history
<1>3. call[h].at = "link" /\ h \in Purchasing(j)
  BY <1>0 DEF Link, At, Purchasing
<1>4. call[h].sub \in SubsOf(j)
  BY <1>0, <1>1, <1>3 DEF IInv, TypeOK, AllPlaced, Placed, SubsOf, SubIds, MaybeSub,
                          AccountsAssumption
<1>5. CASE i # j
  <2>1. accounts'[i] = accounts[i]
    BY <1>1, <1>5
  <2>2. Owner(i) => accounts[i].subscription_id \in Nat
    BY DEF OwnLink, SubsOf, SubIds
  <2> QED
    BY <1>2, <2>1, <2>2 DEF OwnLink, MovesForward
<1>6. CASE i = j
  <2>1. OwnLink(i)'
    BY <1>1, <1>2, <1>4, <1>6 DEF OwnLink
  <2>2. ASSUME i \notin overlapped
        PROVE  accounts[i].subscription_id <= call[h].sub
    <3>1. IsLatest(call[h].sub, SubsOf(i))
      BY <1>1, <1>3, <1>6, <2>2 DEF IInv, Single
    <3>2. accounts[i].subscription_id \in SubsOf(i) \cup {0} /\ call[h].sub \in Nat
      BY <1>1, <1>4, <1>6 DEF OwnLink, SubsOf, SubIds
    <3> QED
      BY <3>1, <3>2 DEF IsLatest
  <2> QED
    BY <1>1, <1>2, <1>6, <2>1, <2>2 DEF MovesForward
<1> QED
  BY <1>5, <1>6

\* Steps that leave the link of a business alone and take none of its
\* subscriptions away.
LEMMA LinkLeftAlone ==
  ASSUME NEW i \in Ids, OwnLink(i), Owner(i)' => Owner(i),
         Owner(i)' => accounts'[i].subscription_id = accounts[i].subscription_id,
         Owner(i)' => SubsOf(i) \subseteq SubsOf(i)'
  PROVE  OwnLink(i)' /\ MovesForward(i)
<1>1. Owner(i) => accounts[i].subscription_id \in Nat
  BY DEF OwnLink, SubsOf, SubIds
<1> QED
  BY <1>1 DEF OwnLink, MovesForward

LEMMA ForwardStep ==
  ASSUME AccountsAssumption, IInv, [Next]_vars, NEW i \in Ids, OwnLink(i)
  PROVE  OwnLink(i)' /\ MovesForward(i)
<1>1. CASE Aside
  <2>1. /\ accounts'[i].subscription_id = accounts[i].subscription_id
        /\ SubsOf(i)' = SubsOf(i) /\ (Owner(i)' <=> Owner(i))
    BY <1>1 DEF Aside, SubsOf, Owner, Exists
  <2> QED
    BY <2>1, LinkLeftAlone
<1>2. CASE Crash \/ \E h \in Handlers : Renew(h)
  <2>1. UNCHANGED tables
    BY <1>2 DEF Crash, Renew
  <2>2. accounts' = accounts /\ SubsOf(i)' = SubsOf(i) /\ (Owner(i)' <=> Owner(i))
    BY <2>1 DEF tables, SubsOf, Owner, Exists
  <2> QED
    BY <2>2, LinkLeftAlone
<1>3. ASSUME NEW h \in Handlers, NEW j \in Ids, NEW plan, NEW start, Sale(h, j, plan, start)
      PROVE  OwnLink(i)' /\ MovesForward(i)
  <2>1. accounts' = accounts /\ (Owner(i)' <=> Owner(i))
    BY <1>3 DEF Sale, Owner, Exists
  <2>2. SubsOf(i) \subseteq SubsOf(i)'
    BY <1>3, SaleAdds
  <2> QED
    BY <2>1, <2>2, LinkLeftAlone
<1>4. ASSUME NEW h \in Handlers, Create(h) PROVE OwnLink(i)' /\ MovesForward(i)
  <2>0. PICK n : n = created + 1
    OBVIOUS
  <2>1. n \in Ids /\ n > created
    BY <1>4, <2>0 DEF IInv, TypeOK, Create, Ids, AccountsAssumption
  <2>2. /\ accounts'[n].subscription_id = 0
        /\ \A k \in Ids : k # n => accounts'[k] = accounts[k]
        /\ accounts[n] = NoAccount
    BY <1>4, <2>0, <2>1 DEF IInv, TypeOK, Numbered, Create
  <2>3. SubsOf(i)' = SubsOf(i)
    BY <1>4 DEF Create, SubsOf
  <2>4. CASE i = n
    BY <2>2, <2>4 DEF OwnLink, MovesForward, Owner, Exists, NoAccount
  <2>5. CASE i # n
    <3>1. accounts'[i] = accounts[i] /\ (Owner(i)' <=> Owner(i))
      BY <2>2, <2>5 DEF Owner, Exists
    <3> QED
      BY <2>3, <3>1, LinkLeftAlone
  <2> QED
    BY <2>4, <2>5
<1>5. ASSUME NEW j \in Ids, DeleteAccount(j) PROVE OwnLink(i)' /\ MovesForward(i)
  <2>1. /\ accounts'[j] = NoAccount
        /\ \A k \in Ids : k # j => accounts'[k] = accounts[k]
    BY <1>5 DEF IInv, TypeOK, DeleteAccount
  <2>2. CASE i = j
    <3>1. ~Owner(i)'
      BY <2>1, <2>2 DEF Owner, NoAccount
    <3> QED
      BY <3>1 DEF OwnLink, MovesForward
  <2>3. CASE i # j
    <3>1. accounts'[i] = accounts[i] /\ (Owner(i)' <=> Owner(i))
      BY <2>1, <2>3 DEF Owner, Exists
    <3>2. SubsOf(i) \subseteq SubsOf(i)'
      BY <1>5, <2>3 DEF DeleteAccount, SubsOf
    <3> QED
      BY <3>1, <3>2, LinkLeftAlone
  <2> QED
    BY <2>2, <2>3
<1>6. ASSUME NEW h \in Handlers, Link(h) PROVE OwnLink(i)' /\ MovesForward(i)
  BY <1>6, LinkMovesOn
<1> QED
  BY <1>1, <1>2, <1>3, <1>4, <1>5, <1>6, StepKinds

\* subscribe, renew and register write the link blindly, after the payment:
\* as long as a business has one purchase at a time, no step of any call
\* puts it back to an older subscription, or to none, whatever deletions,
\* profiles, sign-ups and crashes come between.
THEOREM LinkAlwaysMovesForward == Spec => LinkMovesForward
<1>1. Init => \A i \in Ids : OwnLink(i)
  BY DEF Init, Seeded, OwnLink, Owner, NoAccount, Exists
<1>2. IInv /\ (\A i \in Ids : OwnLink(i)) /\ [Next]_vars => (\A i \in Ids : OwnLink(i))'
  BY AccountsAssumption, ForwardStep
<1>3. IInv /\ (\A i \in Ids : OwnLink(i)) /\ [Next]_vars
        => [\A i \in Ids : Owner(i) /\ Owner(i)' /\ i \notin overlapped'
              => accounts[i].subscription_id <= accounts'[i].subscription_id]_vars
  BY AccountsAssumption, ForwardStep DEF MovesForward
<1> QED
  BY <1>1, <1>2, <1>3, Inductive, PTL DEF Spec, LinkMovesForward
=============================================================================
