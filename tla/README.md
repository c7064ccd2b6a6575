# Pairley backend: a verification project

TLA+ models of the backend in `src/` (NestJS, Prisma, PostgreSQL), the TLC runs
that check them on small instances, and the theorems TLAPS proves about them
for every instance. `PROJECT.json` lists the components, runs, mutants,
findings, hazards and theorems, and maps each definition to the lines it models.

The server is one Node process (or several) over one database. A handler is a
sequence of queries; at each `await` anything else may run. Few handlers use a
transaction, and most of the ones that do check their conditions before it. The
project is about what remains true nevertheless, and it names, as runs expected
to fail, the sentences in the code that do not.

## 1. Inventory

| Component | State | Operations | Interacts with | Hard behaviour |
|---|---|---|---|---|
| Entitlement engine (`entitlement/`) | EntitlementPolicy, EntitlementGrant, the audit rows it counts | create, update, delete policy; grant credits; resolve; evaluate | lead unlock, the administrator's approval of a business, the clock | a decision made of up to four queries, used by a later transaction |
| Lead unlocking (`lead/`) | Lead.unlocked_at, LeadUnlockAudit | unlockLead, getLead, getLeads; structured messages | entitlement | overlapping requests, crash, double charge |
| Offer lifecycle (`offer/`, `dashboard/`) | Offer, OfferVersion | create, edit, status, archive, delete, moderate; hourly expiry sweep | matching, chat, publishers | counted version numbers, stale sweep, crash between two queries |
| Show Interest (`offer/`) | OfferInterest, Lead, Offer.joined_people | expressInterest, createLead, declareReadyToBuy, updateInterestStatus | offer lifecycle, account deletion (cascade) | several customers filling the pool together |
| Business claims (`discovery/claim-request`) | ClaimRequest, Business owner columns, OtpVerification | request, approve, reject, send code, verify and transfer, expiry on read | consolidation, login codes of the same mobile | re-checks outside the transaction, lockout, unique mobile |
| Consolidation (`discovery/business-consolidation`) | Business status, Offer.business_id | consolidate | claims | merge during a claim |
| Group chat (`group-chat/`) | OfferGroupMember, -Counter, -Message, -PollVote, -Block, -Report | join, send, vote, read, report, block | Lead (membership), offer status | number drawing, double click, chat of an ended offer |
| AI offers publishing (`ai-offers-from-online/`) | AiOfferFromOnline row and its status machine | import, correct, match, publish, publishSelected, reject | draft creation, Offer Publisher, duplicate detection | resumable pipeline of a dozen queries |
| Offer Publisher (`offer-publisher/`, `offer-draft-creation`) | Offer drafts, placeholder businesses | draft, edit, approve, reject, publish, delete | offers, businesses | status decisions from stale reads |
| Authentication (`auth/`) | OtpVerification, Customer, Business, Admin | send and verify code, register, Google, profile, delete account | claims, subscriptions | lockout counted on the latest code, calls that share it; one table of codes for three purposes; registration in three queries |
| Subscriptions, payment | Subscription, Business.subscription_id | subscribe, renew, current | registration | renewals that read before they pay, crash between purchase and link |
| Business profile and media | Business columns, gallery arrays | profile, WhatsApp number, uploads | leads by WhatsApp | stale number marked verified, lost gallery entries |
| Support | SupportTicket.description | create, append message, status | none | lost update |
| Duplicate detection | none | check | publishing | best of several scores, thresholds |
| Offer visibility and listing | none | getDetails, listOffers, category counts | leads, businesses, the follow-up setting | one rule for the notice and another for the columns; filtering after paging |
| Notifications | Notification, PushToken | send, mark read, delete, register a device | every component | retries, dead devices |
| Dashboard, storage, WhatsApp, taxonomy, saved offers, health, scripts | little or none | reporting, I/O, lookups | all | failures are caught and logged |

What makes each correct, in a sentence:

- **Entitlement and unlocking**: `unlockLead` and `getLead` show contact details
  only to who paid (the notifications of `expressInterest` and
  `getInterestedCustomers` name the same customers to the merchant unpaid), an
  audit row accounts for every unlock and for nothing else, quota and credits
  are exceeded by no more than the requests that were under way together.
- **Offer lifecycle**: the history says what happened, its rows sharing a number
  only when their writers overlapped, and an offer past its end leaves the
  shelves.
- **Matching**: an offer closes when enough people joined, not before, and
  leaves no one behind who joined it.
- **Claims and consolidation**: a business changes hands only through a claim an
  administrator approved at some time, and a failed transfer leaves no trace.
- **Group chat**: anonymity rests on numbers that are stable and distinct; a
  chat is read-only once its offer has ended.
- **Publishing**: a queue row that is published again after a failure makes no
  second offer, PUBLISHED is said only of what went live, and what goes live was
  approved after its last edit.
- **Authentication**: a code is good once, whatever it was sent for; guessing
  ends; a merchant has a trial as soon as the sign-up is through.
- **Subscriptions**: the subscription a business is linked to is the latest, and
  a renewal takes away no paid time.
- **Profile and support**: a number marked verified was proved; a column that is
  read and written back whole loses nothing to a single writer.
- **Messages**: nobody says anything in words of their own, a block hides
  exactly one author from one reader.
- **Visibility**: contact details go to whom the rules entitle, and the page
  never says otherwise; a list has the same limits as the pages it links to.
- **Duplicates**: what is certainly a duplicate is never outvoted by what is
  merely alike.
- **Notifications**: a push ends in bounded time and costs no living device its
  registration.

## 2. Modules

| Module | Models | Composes |
|---|---|---|
| `Entitlement` | policies, grants, approvals; resolving a policy; counting | |
| `LeadUnlock` | `unlockLead`, `getLead`, crashes | EXTENDS `Entitlement` |
| `UnlockLedger` | what unlocking promises (abstract specification) | implemented by `LeadUnlock` |
| `LeadUnlock_proofs` | theorems | EXTENDS `LeadUnlock` |
| `OfferLifecycle` | one offer, its versions, every writer, the sweep | |
| `OfferMatch` | customers joining that offer | EXTENDS `OfferLifecycle` |
| `OfferMatch_proofs` | theorems, of the offer's life, of matching and of `OfferVisibility` | EXTENDS `OfferMatch` |
| `BusinessClaim` | claims, transfer and consolidation over shared businesses | |
| `BusinessRegister` | what claiming and merging promise together (abstract specification) | implemented by `BusinessClaim` |
| `BusinessClaim_proofs` | theorems | EXTENDS `BusinessClaim` |
| `GroupChat` | membership, messages, polls | |
| `GroupChat_proofs` | theorems, also of `ChatMessages` | EXTENDS `GroupChat` |
| `OfferPublishing` | the queue of offers found online, publication, drafts | |
| `OfferPublishing_proofs` | theorems, also of `Duplicates` | EXTENDS `OfferPublishing` |
| `LoginCodes` | one-time codes of sign-in, claims and WhatsApp numbers; lockout | |
| `LoginCodes_proofs` | theorems | EXTENDS `LoginCodes` |
| `Accounts` | customers, merchants, the administrator; sign-up, Google, log-in, profiles, trial, purchases, renewals | |
| `Accounts_proofs` | theorems | EXTENDS `Accounts` |
| `Records` | galleries, documents and support tickets, read and written back whole | |
| `Records_proofs` | theorems, also of `Notifications` | EXTENDS `Records` |
| `ChatMessages` | what group and lead messages may say; polls; reports, blocks, feed, tallies, summary (pure) | instantiated by `MC_GroupChat`, `GroupChat_proofs` |
| `OfferVisibility` | an offer's page and the lists (pure) | instantiated by `MC_OfferMatch`, `OfferMatch_proofs` |
| `Duplicates` | the duplicate check (pure) | instantiated by `MC_OfferPublishing`, `OfferPublishing_proofs` |
| `Notifications` | storing and pushing a notification, devices (pure) | instantiated by `MC_Records`, `Records_proofs` |
| `MC_*` | instances for TLC | EXTENDS the module they name |

**How code becomes actions.** A table is a variable; a row is a record with the
columns the properties tell apart. A handler's program counter is the `await` it
stands at, and what it has read sits in locals until it returns. Consecutive
code between two awaits is one action; a Prisma `$transaction` is one action
(`Commit`, `Transfer`, `Merge`). A check that fails ends the call. Two awaits
share an action only where nothing the second reads can have changed since the
first (in `GroupChat`, membership is never withdrawn; messages are never edited)
or where nothing observable lies between. A crash loses the calls under way and
keeps the tables.

- `Entitlement`/`LeadUnlock`. `ReadLead` is the first read of `unlockLead`
  with its two early returns; `ReadPolicies` and `ReadBusiness` are the two
  queries of `resolvePolicy`; `CountQuota`, `ReadGrants`, `CountSpent` and
  `JudgeBalance` the branches of `evaluate` (the two queries of `creditBalance`
  run together, so either comes first); `Commit` is the transaction. Time is
  the calendar month, the granularity of quotas; policy windows fall on month
  boundaries. The sum of the grants is a number of credit units: those of the
  grants that give, less those of the grants that take back. `asOf` is the `new Date()` of the engine's last step. `revealed`
  is a history variable: what `maskLead` has let out.
- `OfferLifecycle`. All writers share the shape read, count versions, write a
  snapshot, update; `form` says what a call asked for. Moderation skips the
  history and permanent deletion removes it. `Sweep` is the scheduler: it runs
  again and again. The versions are a sequence in the order written, so the
  counted `version_no` can be compared with the place in history; `began` and
  `since`, the rows there were when a call began, are for the property alone.
- `OfferMatch`. `expressInterest` and `createLead` share their four pool
  queries; only the first compares with the target and closes the offer.
  Every pool insert obeys the unique key and both foreign keys. The offer's
  deletion empties the pool (`Cascade`), a deleted account leaves it.
- `BusinessClaim`. `call[h]` is what one call is doing. `WriteVerdict` is the
  update by id of approve, reject, expiry and lockout. `codes` holds the mobiles
  with a valid delivered code; the same table serves logins, hence
  `CodeExpires` at any time. `claimedBy` names the claim a business was
  transferred through. `BusinessRegister` knows neither calls nor codes nor the
  awaits: of each claim the last word, which a later one may take back, and
  hand-overs and merges, each one step.
- `GroupChat`. `ensureMembership` is `Join`, `DrawNumber` (the upsert),
  `InsertMember` (with both unique constraints), `FindRaced` (the P2002 branch)
  and `Announce`. `late` counts writes to a chat whose offer was not open, and
  `endings` how often an offer stopped being open: history variables.
- `OfferPublishing`. `Load` begins every call on a queue row and keeps what it
  read; `publish` then stands at one await after the other, and `Throw` is what
  an error does: end the call, or in a selection go to `MarkFailed`, the catch.
  `approveDraft` and `publishDraft` are the same actions whether publication or
  an administrator calls them. `made`, `approved` (since its last edit), `crossed`
  (edited between the two queries of a release) and `live` in an offer, and
  `rejected`, `overlap` and `lost` (offers whose id a crash took before it was
  stored), are history. Names are abstract: a search may find
  any business that has one. Deleted businesses and offers leave dangling ids in
  the row, whose columns are no foreign keys.
- `LoginCodes`. One row per code sent, numbered in the order of `created_at`, so
  "the latest" is a comparison. `SignIn` is the read of the latest row and the
  lockout test, `LetThrough`/`Refuse` the look-up by mobile and code, `Spend` the
  `deleteMany`, `CountAttempt` the increment by id. The same `find` and `spend`
  serve the claims and the WhatsApp numbers, as the one table does. `guesses`,
  `honoured`, `raced`, `proved` and `replaced` are history. A code runs out at
  any time (`Expire`), which is weaker than five minutes and so covers them.
- `Accounts`. The three account tables are one sequence of rows whose
  uniqueness holds per role. `register` is `Register` (the checks), `Create`,
  `Trial`, `Link`; `googleUpsert` its four look-ups, then `Adopt` or the same
  sign-up; `renew` reads the latest subscription, pays, then sells and links.
  `overlapped` and `cut` note purchases that ran beside another or were cut
  short. Passwords are present or not; a token is a member of `sessions`.
- `Records`. `seen` is the column as the call read it. A failed upload leaves
  the stored files behind and the row alone. Uploads of logos and documents do
  not write the gallery, which the model keeps apart from those that do.
- The pure modules have no variables: a handler that decides from what it reads
  is an operator on those values, with its early returns as cases. Free text is
  abstracted to what the code asks of it (blank, suspicious, printable). An
  address is a host and what stands between the slashes of its path, which
  `Plain` puts in lower case. A push deletes rows by the ids it loaded;
  `RemoveDeadToken` is that deletion, on the table as it is by then.

## 3. Runs

Runs that must pass:

| Run | Instance | Shows |
|---|---|---|
| `lead_unlock` | 2 businesses, 2 leads, 3 requests (2 of a business together), 1 policy and 1 grant ever created, edited at will, 2 months; forms of every rule | audit trail, masking, bounded overcharge, overshoot and overselling; refinement of `UnlockLedger` |
| `offer_lifecycle` | creation, 2 edits of 4 kinds, sweep, 2 days, 1 crash | version numbers shared only on overlap, expiry on record, liveness of the sweep |
| `offer_match` | 3 customers, 3 requests (2 together), target 2, one disturbance: an edit, a crash, a deleted account or a cancelled row | no early close, no lost pool place, nothing left of a deleted offer, ready together, full pool closes |
| `business_claim` | 2 businesses, claims, mobiles and calls; one wrong code locks, one mobile at a time has a code | approved ownership, bounded guessing, no half transfer; refinement of `BusinessRegister` |
| `group_chat` | 2 offers, customers and calls, 2 messages, 1 ending, 1 crash | distinct and stable numbers, one announcement, ballots in their group, bounded late writes |
| `offer_publishing` | 1 row, 2 businesses, 2 offers, 2 mobiles, 4 calls of which 2 at a time, 1 crash | no second offer on retry, truthful PUBLISHED, nothing live that was not approved since its last edit |
| `login_codes` | 3 mobiles, 1 merchant, 2 codes sent, 2 calls at a time, limit 1, 1 crash | a code lets one call through, lockout, marks of verified numbers |
| `accounts` | 2 mobiles, 1 e-mail, 3 accounts with the seeded one, 3 subscriptions, 2 calls at a time, 1 tick, 1 crash | of the businesses register and Google make: trial, link to the latest and never back, renewals that follow on |
| `records` | 1 business, 1 user, 3 files, 1 ticket, 3 messages, 2 calls at a time | nothing lost by a single writer |

Why these bounds are enough to be interesting. Every race here is between two
actors that pass one check together, so two calls at a time reach it; the third
request or customer comes after the race and meets its result. Four calls on a queue row
are its import, a publication, something beside it and a retry. Two months are
one turn of the month, two days one overdue offer; one crash can fall after any
query, and a second would meet the same tables. A target of two is the smallest
that can be missed. `StrangerIdle`, `Bounded`, `OneExpires`, `FewGuesses`, `OneEnd`,
`OneCode`, `TwoInterests`, `OneBallot`, `CrashEarly`,
`SubscriptionsOnly`, `SignUpsOnly` and `OneKind` in the MC modules are state constraints: they
cut symmetric or independent repetitions (the stranger's credits, a second
disturbance, a second locked claim, a deadline beside a locked claim, a code beside another, a second ballot, a profile edited beside a second purchase,
a gallery beside a ticket), and each is explained
where it is defined. `MaxInFlight` is a bound on concurrency that also appears
in properties: those say what overlap can cost as a function of it. Symmetry is
used in safety runs only.

Pure operators are compared with a reference over small inputs, as assumptions
TLC evaluates in the MC module that instantiates them: the loop of the duplicate
check against its best candidate, and the symmetry of its rules
(`MC_OfferPublishing`); the pages of a list against the list, and the order by
distance (`MC_OfferMatch`); the spellings of an address (`MC_OfferPublishing`); calendar dates against the calendar, polls against
what was picked, tallies against the ballots (`MC_GroupChat`); the number of
push attempts against the loop that makes them (`MC_Records`); the credit units
against the sum of the column (`MC_LeadUnlock`).

Deadlock is checked in `LeadUnlock` alone, where the administrator can always
act. Elsewhere the finite supply of calls, claims, codes, messages, purchases
or days ends, and the system then rests.

Runs that must find a violation; each checks one sentence of the source:

| Run | The source says | The trace |
|---|---|---|
| `paid_once` | `lead.service.ts:115-117`: re-opening a paid lead "must never cost them twice" | two requests pass the `unlocked_at` check, both commit: two audit rows |
| `auto_closed` | `offer.service.ts:1265-1268`: "auto-close on capacity reached ... handled elsewhere" | leads fill the pool; nothing compares it with the target |
| `rejected_stays` | `ai-offers-from-online.service.ts:430`: "Cannot publish a rejected offer" | a selection with the rejected row writes FAILED over REJECTED; publishing FAILED is allowed |

Disagreements between text and code that no run is spent on. The models reach
the first three, and the properties beside them say what holds in spite of them:

- `approve` and `reject` write a claim's status by id, over whatever it has
  become since they read it, so a rejected, expired or completed claim becomes approved or
  rejected again (`claim-request.service.ts:232`, `:273`); `schema.prisma:851-852` says "Every
  status transition is final except the initial ... branch". No claim that was
  never approved is transferred (`OwnerWasApproved`, `RegisterSpec`).
- Two publications of one queue row that both read no `created_offer_id` make two
  offers (`ai-offers-from-online.service.ts:528`); `schema.prisma:1220-1222` calls the column "the
  publish-idempotency key" and the comment at 419-420 says "Idempotent". Without
  an overlap one row makes one offer, crashes included, beside an offer whose id a
  crash kept from the row (`OnceUnlessOverlap`).
- `publishDraft` reads APPROVED, `updateDraft` puts new content and DRAFT,
  `publishDraft` writes ACTIVE (`offer-publisher.service.ts:481`); the comment at 221-223 says
  an edited draft "must re-review before it can publish again". That crossing is the only
  way an offer goes live unapproved (`LiveWasApproved`).
- A device that registers again between the loading of its row and the deletion
  of that row by `sendToToken` loses the new registration with it
  (`notification.service.ts:298`; `RegisteredAgainIsLost`).
- The sweep updates by id what it found overdue, so an offer extended meanwhile
  expires (`offer.service.ts:1422`; `OfferLifecycle` reaches it).
- Two transfers of one business pass the re-check before their transactions, and
  the second replaces the first's owner (`claim-request.service.ts:360`).
- A crash between the counter's upsert and the member's row burns a number;
  `schema.prisma:612-613` speaks of one transaction. Numbers stay distinct.
- `schema.prisma:553-556` says a fresh code deletes every prior row of the
  mobile; `sendOtp` deletes none, and an older unexpired code is still accepted.
- `BusinessService.updateProfile` asks all three account tables whether an e-mail
  is free; registration, Google and the other profiles ask their own only.
- `listOffers` filters by distance after the page was cut, so a page may be
  short or empty while later pages hold offers nearby.
- `getCategoryCounts` counts offers of removed businesses, which no list shows.
- Two posts under Facebook's `permalink.php` differ only in the query, which
  `normalizeUrl` drops: `SameAddressSameKind` leaves Facebook out.
- A comment in `attachPollTallies` says tallies never have holes; a poll without
  stored options starts from an empty array and may have some.

**Fairness.** Only `OfferLifecycle` states any: weak fairness of the sweep's
steps. `OfferExpiryScheduler.handleExpiry` runs every hour by `@Cron`, and
each of its queries is answered as long as the server lives; crashes are finite
in number (`MaxCrashes`) and restart the scheduler. Customers, merchants and
administrators are under no obligation, and their requests may stop anywhere.

**Mutants.** For every property of a passing run there is a definition changed
as a bug would change it (a dropped guard, an off-by-one, a write of the
wrong row), under which TLC finds the property violated. The changed forms sit
next to the originals (`CreationNumber` beside `NextNumber`).

**Races set aside.** Where the code does nothing against two calls on one record,
the property names the race and speaks of
everything else: `overlap` in `OnceUnlessOverlap`, `raced` in `CodeSpentOnce`,
`replaced` in `VerifiedWasProved`, `overlapped` and `cut` in the properties of
`Accounts`, two rewritings together in those of `Records`, one edit inside a
release in `LiveWasApproved`. The runs reach each of these races; the notes of the
hazards say what then happens. `PaidOnce` is a run of its own;
the overlap in `OnceUnlessOverlap` and the edit in `LiveWasApproved` are listed
above with the texts that deny them.

## 4. Proofs

The theorems hold for every set of businesses, leads, customers, offers and
mobiles, and every number of requests, codes, files, subscriptions and days,
from the assumptions named in the modules (`EntitlementAssumption`,
`UnlockAssumption`, `ChatAssumption`, `CodesAssumption`, `RecordsAssumption`,
`ClaimAssumption`, `PublishingAssumption`, `LifecycleAssumption`,
`MatchAssumption`, `AccountsAssumption`): constants have their types, requests
and handlers are finite sets, forms are well-formed (an edit of the merchant
asks for columns of its own DTO, a status change for a status).

Each component has one inductive invariant, a conjunction of named parts: its
types, what a call may rely on where it stands (`Placed`, `Relies`, `Standing`),
what the rows say of each other, and then one part per property that is not
inductive by itself. Every safety property of the passing runs is proved, the
two refinements included.

- *Type correctness* (`TypeCorrect`, `LifeTypeCorrect`). Seldom inductive alone:
  what a call writes is of its type because of what it read, so the invariant
  says which locals are assigned at which await. In `LeadUnlock`, a request at
  `quota`, `credits` or `commit` has a policy, or `policy[r].rule` has no meaning.
- *AuditTrailHolds*. Needs that a request past `ReadLead` owns its lead and that
  no audit row is from a future month; `Commit` writes the row and the date
  together.
- *RevealedOnlyWhenPaidHolds*. From the audit trail: whatever reveals a lead does
  so when it is open and belongs to the caller.
- *LedgerImplemented*. The refinement mapping takes `opened` to the leads with
  `unlocked_at` and `ledger` to the audits. Each commit's row is new because a
  request commits once (rows carry the request's identity as ghost data), so a
  commit is `Open` and everything else stutters.
- *ChargesBoundedHolds*. While a lead is closed it has no rows; once it is open,
  only requests already past the check can charge it. The invariant counts rows
  plus those requests: at most `MaxInFlight`.
- *QuotaOvershootBoundedHolds*. The invariant speaks of the requests that passed
  `countUnlocksThisMonth` and have not committed: rows of the month plus those
  never exceed `MaxLimit + MaxInFlight - 1`, whatever policies did meanwhile.
- *CreditsNotOversoldHolds*. The two queries of `creditBalance` answer at
  different moments, so a request may act on an old count together with newer
  grants. A count is never ahead of the rows, nor are grants the request knows
  beyond those there are (`ReadsAreOld`). The invariant bounds the requests that
  have spent a credit or were allowed to (`CreditClaimsBounded`) and, for each
  request that holds a count, those together with all who hold an older or equal
  one (`HoldersBounded`): they stay within what was bought, or within the count
  plus the requests under way together, since all of them were under way when it
  was taken. The grants compare as sets of credit units; a fold over them could
  only be shown to grow by induction over data.
- *RacedRowFoundHolds*. Numbers in rows, and numbers drawn by joins under way, are
  pairwise different and never ahead of the counter. So a refused insert can
  only be the customer's own second join, and the row is there.
- *SpokenAsNumberedHolds*. A call about to write carries its author's number as
  it stands in the member's row, and no row is ever renumbered.
- *BallotsStayInGroup*. Members and messages only ever come (`NextGrows`), so what
  a vote established when it began still holds when its ballot is written.
- *LateAlwaysBounded*. `Stale` are the calls past `assertOfferOpen` whose offer
  has stopped being open: writes already late plus those stay within the endings
  times the handlers, because a late write takes its call out of `Stale`.
- *AnnouncedOnceHolds*. Announcements written and under way are counted together:
  only a successful insert adds one, for a customer who had none.
- *LoginCodes_proofs*. The base (`Well`) is the types, what each call has been
  given at the place it stands, and that rows not yet sent are blank.
  *CodeIsSpentOnce*: a row that let a call through is gone once that call has
  spent it, and rows are not reused; so a second call must have found it before.
  *VerifiedIsProved*: a call past its code carries the number it proved, which is
  still the business's unless `replaced` says otherwise.
  *LockoutAlwaysHolds*: for each row, the guesses are the attempts on record, the
  calls between comparing and counting, and the counts lost with a crash or a row
  deleted under the update. Calls that have read the row below the limit are
  at most the handlers, and each crash loses at most as many.
- *Records_proofs*. The only call rewriting a record has seen it as it still is,
  because any other writer leaves the column out or marks an overlap; so what it
  writes back is what was there with its own change.
- *BusinessClaim_proofs*. `Relies` says that a call past the approval holds a
  claim that exists, names its business and mobile for good and was approved:
  none of that is ever taken back, so the transfer may trust it although it reads
  nothing again. *AttemptsAlwaysBounded*: attempts on record and calls between
  reading and counting are bounded together (`AttemptsForeseen`).
- *RegisterImplemented*. The mapping reads `word` off the statuses and `approved`
  off the claims ever approved. A review writes over whatever the status has become
  (`Spoken`), which the register allows (section 5); but what was
  approved once stays so, and a claim names its business and mobile for good, so at its
  transfer a call still has what was decided on (`DecidedOn`,
  `HandedOver`); the unique mobile is the transaction's own constraint, not the
  check before it. A consolidation's reads may be stale, but never so that a
  business is merged into itself (`MergedInto`). All other steps, crashes among
  them, leave the register alone (`RegisterLeftAlone`).
- *OfferPublishing_proofs*. An offer keeps the row it was made from, and a release
  is for good: so `PUBLISHED` in what a resumed call read still
  means that an offer went live. An edit takes the approval back, and marks a draft
  whose release is under way, so what a release takes live is vouched for one way
  or the other (`Vouched`).
  *OnceAlways* needs more: a publication alone on its row knows the offers made
  from it (`Knows`), and the only one the row does not name is about to be stored
  (`Accounted`), or a crash has taken its id.
- *OfferMatch_proofs, the offer's life*. A writer's count is at most the length of
  the history and no less than the rows there were when its call began (`Counting`),
  which no other writer can undo: rows are only added until the offer is deleted
  with all of them. A later number is then above all that stood before its call. The
  sweep's row is in the history before its update (`Recorded`).
  *HistoryBesideCustomers*: requests write `joined_people` and CLOSED into the
  row, which leaves the invariant of the writers alone.
- *OfferMatch_proofs, matching*. *NothingEverLeftBehind*: every insert
  obeys the foreign key of its table. *NeverClosesEarly*: a count read is at most those
  who ever joined, and targets are among `Targets`. *LeadsAlwaysInPool*: a request
  with a lead is on its way to the pool. *ReadyAlwaysTogether* and
  *FullPoolAlwaysCloses* rest on `Together` and `Full`: while the pool is full,
  some request that joined has yet to count, and will count everybody
  (`Filling`), or is already closing. Both need that nothing was lost and the
  merchant moved no target.
- *Accounts_proofs*. Of a business whose purchases never overlapped at most one is
  under way, and the subscription it read or wrote is the latest (`Single`); the
  row's link is the latest except while a link is being written (`Standing`).
  A renewal then extends the one `renew` read, and a link written is the newest.
  Numbers of accounts and subscriptions are used once (`Numbered`), so a new
  business has no subscription and no call is about it. Sign-ins, profiles and
  refusals touch no purchase (`Aside`), which settles fifteen actions at once.
  *LinkAlwaysMovesForward* is about steps: a business is linked to one of its own
  subscriptions or to none (`OwnLink`), so the latest, which a purchase alone on
  its business writes, is never older than the link it replaces.
- *Duplicates*. A HIGH candidate beats every MEDIUM one whatever the words
  of the titles, and the best exists because candidates are finitely many: with
  the same title, text and prices the verdict is HIGH, so the best one is.
  *SameAddressSameKind*: what `normalizeUrl` cuts off holds no segment
  (`AllButSlashes`), so two paths it makes alike have the same segments in lower
  case (`SegmentsNormalized`), which is all the other check looks at off Facebook.
- *OfferVisibility*. `ResolveContactAccess` is taken apart case by case, its two
  values agreeing in each, of which the columns follow one and the notice the other;
  the list and the page are two rules, and what the first lets through, the
  second does too. Pages are intervals that cannot meet.
- *ChatMessages*. A time of day is recovered from its twelve-hour form; a
  poll stores the catalogue's selection in the catalogue's order; the texts a
  message can have are listed by type; a reader never blocks themselves, by an
  invariant of `blockMember` and `unblockMember`.
- *Notifications*. The last attempt is unique, and at most the third. Registering
  a device again keeps its row's id, and the id is what is deleted.

The proofs corrected four statements. `ExpiryOnRecord` and `ReadyTogether` were
false for instances nobody ran: a status form may say EXPIRED, and a merchant may
set a row back to INTERESTED. `FullPoolCloses` held a pool of nobody to a target
of nought. What a form may set depends on its kind,
which `LifecycleAssumption` now says.

Only model-checked: the liveness of the sweep, `EventuallyOffSale`, which rests
on fairness and ENABLED, and the pure operators against their references, which
would be induction over data. The
recursive functions of the MC modules (`Scan`, `Loop`) are references for TLC
alone.

## 5. Not modelled, and why

- Wording outside the message catalogues, prices outside the duplicate check,
  media content: no property depends on them.
- SMS, WhatsApp, storage: callers catch or ignore their failures (the delivery
  of a claim's code is the exception, and `SendCode` may fail).
- In claims, deleting a business account, which cascades to its offers and claims,
  and a business registering with a mobile while a claim for the same mobile
  runs (the claims' unique-mobile branch is reached through two claims).
- Co-buy chat, and a lead's status: rows and columns written independently.
- In publishing: the legacy status PRICE_REQUIRED, prices, the gallery, ZIP
  uploads, and what merchants and the sweep do to an offer once it is live. The
  duplicate check is a free choice there, wider than `Duplicates`.
- Accounts: a refused payment (nothing is written), plan prices, the check of a
  Google token, and mails to administrators.
- `MERCHANT_OTP_MODE=test`, the pilot's fixed code for merchants
  (`auth.service.ts:49-70`): with it `sendOtp` and `verifyOtp` for the role Business
  touch no row of codes and never lock out, so what `LoginCodes` says of signing in holds
  for the default, `production`, and for customers.
- Profile fields that are overwritten by one update; saved offers, one unique
  row each; taxonomy, guards, health checks, seed and scripts: no protocol.
- Listing: free-text search beyond a word, place names, sort keys but distance.
- Timing below a month (`LeadUnlock`), a day (`OfferLifecycle`), a plan's period
  (`Accounts`) or "expired or not" (`BusinessClaim`, `LoginCodes`).

## 6. Plan

Order: what loses money or ownership first.

1. **Done**: `Entitlement`, `LeadUnlock`, `UnlockLedger`, `OfferLifecycle`,
   `OfferMatch`, `BusinessClaim`, `GroupChat`, `OfferPublishing`; `LoginCodes`,
   `Accounts`, `Records`; the pure modules; the proofs of section 4.
2. **To add**: `LoginCodes` as the table of codes `BusinessClaim` assumes, shown
   by refinement; an abstract specification of the queue of offers, once a
   rejected row stays rejected; what each step of the chat may never do.
