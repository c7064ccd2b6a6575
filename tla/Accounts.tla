------------------------------- MODULE Accounts -------------------------------
(***************************************************************************)
(* Accounts, sign-in and subscriptions.  Customers, businesses and the     *)
(* administrator are three tables; here they are one, numbered in the      *)
(* order of creation, whose uniqueness constraints hold per role.  A call  *)
(* that is refused or throws changes nothing more, and one whose row is    *)
(* gone throws.  A token is never revoked.  Codes, and the mobile's proof  *)
(* before register, are LoginCodes.                                        *)
(***************************************************************************)
EXTENDS Integers, FiniteSets

CONSTANTS
    Mobiles, Emails,
    DefaultEmail,   \* the seeded administrator's
    Plans, Basic,   \* the plans sold; the one given on trial
    Period,         \* durationDays, in ticks of the clock
    Handlers,       \* calls the server can have under way together
    MaxAccounts, MaxSubscriptions, MaxTime, MaxCrashes, \* bounds
    None

ASSUME AccountsAssumption ==
    /\ DefaultEmail \in Emails /\ Basic \in Plans
    /\ Period \in Nat /\ MaxAccounts \in Nat \ {0}
    /\ MaxSubscriptions \in Nat /\ MaxTime \in Nat /\ MaxCrashes \in Nat
    /\ None \notin Mobiles \cup Emails \cup Plans

Ids == 1 .. MaxAccounts
SubIds == 1 .. MaxSubscriptions
MaybeSub == 0 .. MaxSubscriptions
Roles == {"Customer", "Business", "Admin"}
Statuses == {"PENDING", "APPROVED", "REJECTED"}

VARIABLES
    accounts,      \* Customer, Business and Admin
    created,       \* the number of the last account created
    subscriptions, \* Subscription
    sold,          \* the number of the last subscription created
    now,
    sessions,      \* the accounts a token has been signed for
    call,          \* what each handler is doing
    renewals,      \* the subscriptions renew created
    overlapped,    \* businesses two purchases of which were under way together
    cut,           \* businesses a crash cut a purchase of short
    crashes

tables == <<accounts, created, subscriptions, sold>>
history == <<renewals, overlapped, cut, crashes>>
vars == <<tables, now, sessions, call, history>>

Account == [role : Roles, mobile : Mobiles \cup {None}, email : Emails \cup {None},
            password : BOOLEAN, status : Statuses,
            subscription_id : MaybeSub]
NoAccount == [role |-> "none", mobile |-> None, email |-> None, password |-> FALSE,
              status |-> "PENDING", subscription_id |-> 0]

Subscription == [business : Ids, plan : Plans, start : Nat, expiry : Nat]
NoSubscription == [business |-> 0, plan |-> None, start |-> 0, expiry |-> 0]

Call == [at : {"idle", "create", "look_up_1", "look_up_2", "look_up_3", "look_up_4", "adopt",
               "trial", "renew", "link", "set_email"},
         role : Roles \cup {"none"}, mobile : Mobiles \cup {None}, email : Emails \cup {None},
         password : BOOLEAN, account : 0 .. MaxAccounts, sub : MaybeSub]
Idle == [at |-> "idle", role |-> "none", mobile |-> None, email |-> None, password |-> FALSE,
         account |-> 0, sub |-> 0]

TypeOK ==
    /\ accounts \in [Ids -> Account \cup {NoAccount}]
    /\ created \in 0 .. MaxAccounts
    /\ subscriptions \in [SubIds -> Subscription \cup {NoSubscription}]
    /\ sold \in MaybeSub
    /\ now \in 0 .. MaxTime
    /\ sessions \subseteq Ids
    /\ call \in [Handlers -> Call]
    /\ renewals \subseteq SubIds /\ overlapped \subseteq Ids /\ cut \subseteq Ids
    /\ crashes \in 0 .. MaxCrashes

\* onModuleInit seeds the first administrator.
Seeded == [i \in Ids |-> IF i = 1 THEN [NoAccount EXCEPT !.role = "Admin", !.email = DefaultEmail,
                                                        !.password = TRUE]
                                  ELSE NoAccount]

Init ==
    /\ accounts = Seeded /\ created = 1
    /\ subscriptions = [s \in SubIds |-> NoSubscription] /\ sold = 0
    /\ now = 0 /\ sessions = {} /\ crashes = 0
    /\ call = [h \in Handlers |-> Idle]
    /\ renewals = {} /\ overlapped = {} /\ cut = {}

-----------------------------------------------------------------------------
(* The shape of a call, and the tables *)

At(h, where) == call[h].at = where
Begin(h, c) == At(h, "idle") /\ call' = [call EXCEPT ![h] = c]
Goto(h, where) == call' = [call EXCEPT ![h].at = where]
Return(h) == call' = [call EXCEPT ![h] = Idle]

LookUp(role, field, v) == {i \in Ids : v # None /\ accounts[i].role = role /\ accounts[i][field] = v}
EmailFree(role, e, i) == LookUp(role, "email", e) \subseteq {i}
Exists(i) == i \in Ids /\ accounts[i].role # "none"
Owner(i) == Exists(i) /\ accounts[i].role = "Business"

SubsOf(i) == {s \in SubIds : subscriptions[s].business = i}
IsLatest(s, subs) == IF subs = {} THEN s = 0 ELSE s \in subs /\ \A t \in subs : t <= s

\* assertBusinessMayAuthenticate: of the merchants only a rejected one.
Admitted(i) == accounts[i].role = "Business" => accounts[i].status # "REJECTED"

SetEmailAfresh(i, e) ==
    /\ EmailFree(accounts[i].role, e, i)
    /\ accounts' = [accounts EXCEPT ![i].email = e, ![i].subscription_id = 0]
SetEmail(i, e) ==
    /\ EmailFree(accounts[i].role, e, i)
    /\ accounts' = [accounts EXCEPT ![i].email = e]

-----------------------------------------------------------------------------
(* AuthService.register *)

Register(h) ==
    /\ \E role \in {"Customer", "Business"}, m \in Mobiles, e \in Emails \cup {None},
          p \in BOOLEAN :
         /\ LookUp(role, "mobile", m) = {}
         /\ Begin(h, [Idle EXCEPT !.at = "create", !.role = role, !.mobile = m, !.email = e,
                                  !.password = p])
    /\ UNCHANGED <<tables, now, sessions, history>>

NeverOnTrial(role) == FALSE
OnTrial(role) == role = "Business"

\* The password is hashed in between: what was free may be taken now.
Create(h) ==
    /\ At(h, "create")
    /\ created < MaxAccounts
    /\ LET c == call[h]  i == created + 1 IN
         /\ LookUp(c.role, "mobile", c.mobile) = {}
         /\ EmailFree(c.role, c.email, 0)
         /\ created' = i
         /\ accounts' = [accounts EXCEPT ![i] =
                           [role |-> c.role, mobile |-> c.mobile, email |-> c.email,
                            password |-> c.password, status |-> "PENDING",
                            subscription_id |-> 0]]
         /\ IF OnTrial(c.role)
              THEN /\ call' = [call EXCEPT ![h] = [Idle EXCEPT !.at = "trial", !.account = i]]
                   /\ UNCHANGED sessions
              ELSE Return(h) /\ sessions' = sessions \cup {i}
    /\ UNCHANGED <<subscriptions, sold, now, history>>

Collides(h) ==
    /\ At(h, "create")
    /\ LET c == call[h] IN
         LookUp(c.role, "mobile", c.mobile) # {} \/ ~EmailFree(c.role, c.email, 0)
    /\ Return(h)
    /\ UNCHANGED <<tables, now, sessions, history>>

Purchasing(i) == {h \in Handlers : call[h].account = i /\ call[h].at \in {"trial", "renew", "link"}}
NotesOverlap(h, i) ==
    overlapped' = IF Purchasing(i) \subseteq {h} THEN overlapped ELSE overlapped \cup {i}

\* subscription.create: refused by the foreign key of a business that is gone.
Sell(h, i, plan, start) ==
    /\ sold < MaxSubscriptions
    /\ sold' = sold + 1
    /\ subscriptions' = [subscriptions EXCEPT ![sold + 1] =
         [business |-> i, plan |-> plan, start |-> start, expiry |-> start + Period]]
    /\ call' = [call EXCEPT ![h] = [Idle EXCEPT !.at = "link", !.account = i, !.sub = sold + 1]]
    /\ NotesOverlap(h, i)

Trial(h) ==
    /\ At(h, "trial")
    /\ Owner(call[h].account)
    /\ Sell(h, call[h].account, Basic, now)
    /\ UNCHANGED <<accounts, created, now, sessions, renewals, cut, crashes>>

FirstLinked(i, s) ==
    IF accounts[i].subscription_id = 0 THEN [accounts EXCEPT ![i].subscription_id = s]
                                       ELSE accounts
Linked(i, s) == [accounts EXCEPT ![i].subscription_id = s]

\* business.update, by its id; register ends with a token, a purchase was
\* made with one.
Link(h) ==
    /\ At(h, "link")
    /\ Owner(call[h].account)
    /\ accounts' = Linked(call[h].account, call[h].sub)
    /\ sessions' = sessions \cup {call[h].account}
    /\ Return(h)
    /\ UNCHANGED <<created, subscriptions, sold, now, history>>

\* The row a call is about was deleted under it.
RowGone(h) ==
    /\ call[h].at \in {"adopt", "trial", "renew", "link", "set_email"}
    /\ ~Exists(call[h].account)
    /\ Return(h)
    /\ UNCHANGED <<tables, now, sessions, history>>

-----------------------------------------------------------------------------
(* Signing in *)

Open(i) ==
    /\ Admitted(i)
    /\ sessions' = sessions \cup {i}
    /\ UNCHANGED <<tables, now, call, history>>

\* verifyOtp, once the code is right: a customer before a merchant.
VerifyOtp(m) ==
    LET customers == LookUp("Customer", "mobile", m) IN
    \E i \in IF customers # {} THEN customers ELSE LookUp("Business", "mobile", m) : Open(i)

\* login: the account the identifier names, with the right password.  An
\* administrator comes before a merchant with a password, and that one
\* before a customer.
Login(field, v) ==
    LET With(role) == {i \in LookUp(role, field, v) : accounts[i].password} IN
    \E i \in Ids :
      /\ i \in With("Admin") \/ (With("Admin") = {} /\ i \in With("Business"))
           \/ (With("Admin") \cup With("Business") = {} /\ i \in With("Customer"))
      /\ Open(i)

-----------------------------------------------------------------------------
(* AuthService.googleUpsert: four look-ups, each a query *)

GoogleUpsert(h) ==
    /\ \E role \in {"Customer", "Business"}, m \in Mobiles \cup {None}, e \in Emails :
         Begin(h, [Idle EXCEPT !.at = "look_up_1", !.role = role, !.mobile = m, !.email = e])
    /\ UNCHANGED <<tables, now, sessions, history>>

After == [n \in {"look_up_1", "look_up_2", "look_up_3"} |->
            CASE n = "look_up_1" -> "look_up_2"
              [] n = "look_up_2" -> "look_up_3"
              [] n = "look_up_3" -> "look_up_4"]
FoundAt(h) ==
    LET c == call[h] IN
    CASE c.at = "look_up_1" -> LookUp("Customer", "email", c.email)
      [] c.at = "look_up_2" -> LookUp("Customer", "mobile", c.mobile)
      [] c.at = "look_up_3" -> LookUp("Business", "email", c.email)
      [] c.at = "look_up_4" -> LookUp("Business", "mobile", c.mobile)
      [] OTHER -> {}

GoogleFound(h) ==
    /\ \E i \in FoundAt(h) :
         IF ~Admitted(i)
           THEN Return(h) /\ UNCHANGED sessions
           ELSE IF accounts[i].email = call[h].email
             THEN Return(h) /\ sessions' = sessions \cup {i}
             ELSE /\ call' = [call EXCEPT ![h].at = "adopt", ![h].account = i]
                  /\ UNCHANGED sessions
    /\ UNCHANGED <<tables, now, history>>

\* Nobody: a new account once the details a sign-up needs are there.
GoogleMissed(h) ==
    /\ call[h].at \in DOMAIN After \cup {"look_up_4"}
    /\ FoundAt(h) = {}
    /\ \/ call[h].at \in DOMAIN After /\ Goto(h, After[call[h].at])
       \/ call[h].at = "look_up_4" /\ call[h].mobile # None /\ Goto(h, "create")
       \/ call[h].at = "look_up_4" /\ Return(h)
    /\ UNCHANGED <<tables, now, sessions, history>>

\* The Google account's e-mail replaces the row's.
Adopt(h) ==
    /\ At(h, "adopt")
    /\ LET i == call[h].account IN
         /\ Exists(i)
         /\ \/ SetEmail(i, call[h].email) /\ sessions' = sessions \cup {i}
            \/ /\ ~EmailFree(accounts[i].role, call[h].email, i)
               /\ UNCHANGED <<accounts, sessions>>
    /\ Return(h)
    /\ UNCHANGED <<created, subscriptions, sold, now, history>>

-----------------------------------------------------------------------------
(* What a token's holder does *)

\* AuthService.updateProfile: no other table is asked about the e-mail.
UpdateProfile(i) ==
    /\ i \in sessions /\ Exists(i)
    /\ \/ \E e \in Emails \cup {None} : SetEmail(i, e)
       \/ accounts' = [accounts EXCEPT ![i].password = TRUE]
    /\ UNCHANGED <<created, subscriptions, sold, now, sessions, call, history>>

\* CustomerService.updateProfile.
UpdateCustomer(i) ==
    /\ i \in sessions /\ accounts[i].role = "Customer"
    /\ \E e \in Emails : SetEmail(i, e)
    /\ UNCHANGED <<created, subscriptions, sold, now, sessions, call, history>>

\* BusinessService.updateProfile: the e-mail is looked up in the three
\* tables at once, and written by a later query.
UpdateBusiness(h) ==
    /\ \E i \in sessions, e \in Emails :
         /\ accounts[i].role = "Business"
         /\ \A role \in Roles : EmailFree(role, e, i)
         /\ Begin(h, [Idle EXCEPT !.at = "set_email", !.account = i, !.email = e])
    /\ UNCHANGED <<tables, now, sessions, history>>

WriteEmail(h) ==
    /\ At(h, "set_email")
    /\ LET i == call[h].account IN
         /\ Exists(i)
         /\ \/ SetEmail(i, call[h].email)
            \/ ~EmailFree("Business", call[h].email, i) /\ UNCHANGED accounts
    /\ Return(h)
    /\ UNCHANGED <<created, subscriptions, sold, now, sessions, history>>

\* deleteAccount; a business's subscriptions go with it.
DeleteAccount(i) ==
    /\ i \in sessions /\ accounts[i].role \in {"Customer", "Business"}
    /\ accounts' = [accounts EXCEPT ![i] = NoAccount]
    /\ subscriptions' = [s \in SubIds |-> IF s \in SubsOf(i) THEN NoSubscription
                                                             ELSE subscriptions[s]]
    /\ UNCHANGED <<created, sold, now, sessions, call, history>>

\* DashboardService.verifyBusiness, by the administrator.
VerifyBusiness(i, status) ==
    /\ \E a \in sessions : accounts[a].role = "Admin"
    /\ Owner(i)
    /\ accounts' = [accounts EXCEPT ![i].status = status]
    /\ UNCHANGED <<created, subscriptions, sold, now, sessions, call, history>>

-----------------------------------------------------------------------------
(* SubscriptionService; the payment is always found good *)

Active(s) == s # 0 /\ now < subscriptions[s].expiry

Subscribe(h) ==
    /\ At(h, "idle")
    /\ \E i \in sessions, plan \in Plans : Owner(i) /\ Sell(h, i, plan, now)
    /\ UNCHANGED <<accounts, created, now, sessions, renewals, cut, crashes>>

Renew(h) ==
    /\ \E i \in sessions, s \in SubIds :
         /\ Owner(i) /\ IsLatest(s, SubsOf(i))
         /\ Begin(h, [Idle EXCEPT !.at = "renew", !.account = i, !.sub = s])
         /\ NotesOverlap(h, i)
    /\ UNCHANGED <<tables, now, sessions, renewals, cut, crashes>>

\* It follows on from the one read before the payment, while that one lasts.
FromToday(s) == now
NextStart(s) == IF Active(s) THEN subscriptions[s].expiry ELSE now
RenewPaid(h) ==
    /\ At(h, "renew")
    /\ Owner(call[h].account)
    /\ LET s == call[h].sub IN Sell(h, call[h].account, subscriptions[s].plan, NextStart(s))
    /\ renewals' = renewals \cup {sold + 1}
    /\ UNCHANGED <<accounts, created, now, sessions, cut, crashes>>

-----------------------------------------------------------------------------

Tick ==
    /\ now < MaxTime
    /\ now' = now + 1
    /\ UNCHANGED <<tables, sessions, call, history>>

\* The server dies: every call under way ends where it is.
Crash ==
    /\ crashes < MaxCrashes
    /\ crashes' = crashes + 1
    /\ cut' = cut \cup {i \in Ids : Purchasing(i) # {}}
    /\ call' = [h \in Handlers |-> Idle]
    /\ UNCHANGED <<tables, now, sessions, renewals, overlapped>>

Step(h) ==
    \/ Register(h) \/ Create(h) \/ Collides(h) \/ Trial(h) \/ Link(h) \/ RowGone(h)
    \/ GoogleUpsert(h) \/ GoogleFound(h) \/ GoogleMissed(h) \/ Adopt(h)
    \/ UpdateBusiness(h) \/ WriteEmail(h)
    \/ Subscribe(h) \/ Renew(h) \/ RenewPaid(h)

Next ==
    \/ \E h \in Handlers : Step(h)
    \/ \E m \in Mobiles : VerifyOtp(m) \/ Login("mobile", m)
    \/ \E e \in Emails : Login("email", e)
    \/ \E i \in Ids : UpdateProfile(i) \/ UpdateCustomer(i) \/ DeleteAccount(i)
    \/ \E i \in Ids, status \in Statuses : VerifyBusiness(i, status)
    \/ Tick \/ Crash

Spec == Init /\ [][Next]_vars

-----------------------------------------------------------------------------
(* Properties *)

\* register and googleUpsert write the business, its trial and the link in
\* three queries: a business has a subscription unless its sign-up is still
\* under way or was cut short, whatever its owner does meanwhile.
TrialStands ==
    \A i \in Ids :
        Owner(i) => SubsOf(i) # {} \/ Purchasing(i) # {} \/ i \in cut

\* The subscription a business is linked to (subscription_id) is the one
\* every reader takes for current, the latest (getCurrent, renew), unless a
\* purchase is under way, was cut short, or overlapped another.
CurrentIsLatest ==
    \A i \in Ids :
        Owner(i) /\ Purchasing(i) = {} /\ i \notin cut \cup overlapped
          => IsLatest(accounts[i].subscription_id, SubsOf(i))

\* The link only ever moves on: as long as a business has one purchase at a
\* time, no step of any call puts it back to an older subscription or to
\* none, though each purchase writes it blindly, after its payment, over
\* what it has become (register, subscribe, renew).
LinkMovesForward ==
    [][\A i \in Ids :
         Owner(i) /\ Owner(i)' /\ i \notin overlapped'
           => accounts[i].subscription_id <= accounts'[i].subscription_id]_vars

\* A renewal starts no earlier than what it renews ends and keeps its plan,
\* so a merchant who renews early loses nothing, unless two purchases of
\* the business overlapped (renew reads the latest before the payment).
RenewalFollowsOn ==
    \A t \in renewals :
      LET i == subscriptions[t].business
          earlier == {s \in SubsOf(i) : s < t}
      IN \A s \in SubIds :
           i \in Ids \ overlapped /\ IsLatest(s, earlier)
             => /\ subscriptions[s].expiry <= subscriptions[t].start
                /\ subscriptions[s].plan = subscriptions[t].plan
=============================================================================
