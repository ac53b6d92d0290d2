# Formal models of zaaz-server

zaaz-server is the backend of a credits-based SaaS: users buy packages of
credits through payment gateways, features of partner services spend them, and
administrators keep the catalogue of packages. Money and credits are moved by
Express handlers, RabbitMQ consumers and cron jobs of several worker processes
that share one MongoDB and one Redis. This directory holds TLA+ models of that,
the TLC runs that check them, and proofs, checked by TLAPS, of the properties
that matter most.

All paths below are relative to the repository unless they name a module; `S/`
stands for the source directory `src/`.

1. [The system](#1-the-system)
2. [Modules](#2-modules)
3. [Runs and bounds](#3-runs-and-bounds)
4. [Fairness](#4-fairness)
5. [Proofs](#5-proofs)
6. [Where code and documents disagree](#6-where-code-and-documents-disagree)
7. [Plan and what is not modelled](#7-plan-and-what-is-not-modelled)
8. [Running the checks](#8-running-the-checks)

## 1. The system

| part | source | state | operations | modelled in |
|---|---|---|---|---|
| payment settlement | `S/modules/payment` | payment transactions, audit rows | initiate, webhook, redirect, verify, admin update, refund, consumer with inline retries | Payment |
| gateways | `S/providers/payment-gateways` | (outside) | charge, answer, webhook, refund | environment of Payment |
| jobs | `S/jobs/index.ts` | none | reconciliation, consumer retry, expiry; timers in every worker | Payment, Wallet |
| user wallet | `S/modules/user-wallet` | wallet: credits, one-time flags; Redis copy | give initial credits, bonus, assign package, update, delete, restore | Wallet |
| credits and package rows | `S/modules/credits-transaction`, `S/modules/package-transaction` | rows | increase, decrease, delete and restore of a row | Wallet |
| subscriptions | `S/modules/user-subscription` | one active subscription | create (cancel, then insert), expire | Wallet, Payment |
| charging a usage | `S/modules/credits-process`, `S/config/rabbitmq.ts` | batch, timer and circuit breaker of each worker; queues | end of a usage, flush, fallback, batch consumer | CreditsBatch |
| sessions | `S/modules/auth`, `S/modules/user`, `S/middlewares/auth.middleware.ts` | account with `token_version`; its Redis copy; tokens at clients | sign-in, refresh, password and role changes, logout, deletion, the middleware | Session |
| catalogue | `S/modules/package`, `package-price`, `package-feature`, `package-history` | packages, prices, features, history rows; Redis copies | create, update, initial flag, price routes, delete, restore, public read | Catalog |
| start of a usage | `S/modules/credits-process`, `S/modules/package-feature-config`, `S/modules/feature-endpoint` | endpoint, configurations, subscription, wallet; two Redis copies | start, end by the wrapper, edits | Usage |
| coupons | `S/modules/coupon` | usage counts | validation, counting, administration | Coupons, Collections |
| settings with histories | `ai-model`, `billing-setting`, `credits-profit` and their `-history` modules | documents, history rows, Redis copies | every write, cached reads | Collections |
| other administered collections | `feature`, `feature-endpoint`, `feature-popup`, `feature-feedback`, `contact`, `payment-method`, `interval`, `package-feature-config`, `package-history`, `credits-usage`, `feature-usage-log`, `notification`, `notification-recipient` | documents with `is_deleted`; Redis copies of some | create, update, soft and permanent deletion, restore, one by one and in bulk | Collections |
| files and pictures | `S/modules/file`, `S/modules/feature-popup`, `S/middlewares/file.middleware.ts`, `storage.middleware.ts` | documents; bytes on disk and in a bucket | upload, create, replace, delete, restore | Files |
| query builder, dashboard, rate limit, middlewares, utilities | see `PROJECT.json` | none that the rest reads | reports, checks | no |

**How they meet.** A payment that becomes `success` calls the consumer
(`handlePaymentCompleted`), which in one Mongo transaction calls `assignPackage`
of the wallet, `createSubscription` and marks the payment processed. Three
inline attempts are followed by a cron. `assignPackage` stores the newest
`PackageHistory` row of the package version in the subscription: that is what
the catalogue owes a sale. `initiatePayment` asks `validateCoupon`, which compares
a count that only the consumer of a settled payment raises. A feature server asks
`creditsProcessStart` whether the balance covers the minimum of an endpoint, or of
the user's package, and reserves nothing; it reports the end of a usage to
`credits_process_end_queue`; the batch of a worker, its flush through a circuit
breaker, and the batch consumer end in `executeCreditsProcessEnd`, a Mongo
transaction on the wallet. The middleware trusts a copy of the account in Redis
for half an hour; wallet and catalogue are read through `withCache`.

**What is hard.** Most routes use no database transaction: each `await` is a
place where another request of the same or another worker steps in, and what was
read before it is stale after it. The timers run in every worker. Webhooks are
late, doubled or missing; a refund at the gateway cannot be rolled back with the
database; a publish can time out and still arrive; a message acknowledged is in
the memory of a process that may stop; an unhandled rejection shuts the worker
down. `PROJECT.json` lists the hazards line by line, with the properties that
would notice. Where the code does go wrong, the property about it names the
exception, and the hazard says so instead of naming the property.

**What makes each part correct.**

- *Payment*: credits are added once, only while the payment is settled, and
  taken back once and only after the gateway returned the money; a customer whose
  payment the reconciliation can still find is credited in the end; a status is
  left illegally only on stale information.
- *Wallet*: a one-time grant is given once per document; the rows add up to the
  balance; removals and restores of rows are exact; no copy in Redis is wrong at
  rest; an overdue subscription ends.
- *Charging*: a usage is charged once while nothing fails, every further charge
  has a cause of its own, and every usage that is not charged is accounted for.
- *Sessions*: an outdated token does not work, a current one does.
- *Catalogue*: one initial package, one initial price of each package, a sale
  gets what was offered, nothing deleted is for sale.
- *Coupons*: no more uses than the limit, and none counted that was not one.
- *Start of a usage*: a charge leaves no debt but what exceeds the minimum and
  what others took meanwhile, and the answer is one that was right at some moment
  while it was computed.
- *Collections*: a value belongs to one document, one setting is initial, every
  version left behind has its row, copies are right, and a call that answers
  "deleted" or "restored" has done so.
- *Files*: a live document has its bytes, and bytes have a document.

## 2. Modules

| module | what it is |
|---|---|
| `Settlement` | what a user's balance owes to payments, abstractly: credit a payment once, return it once |
| `Payment` | handlers and jobs around payment transactions, in detail |
| `Coupons` | extends `Payment` with the validation of the coupon, and with the limit |
| `PaymentProofs` | theorems about Payment, its refunds included, that it implements `Settlement`, that `Coupons` behaves as `Payment`, and the limit |
| `CreditsBatch`, `CreditsProofs` | from the end of a usage to the charge |
| `Wallet`, `WalletProofs` | one user's account |
| `Session`, `SessionProofs` | one email's account, its tokens and the middleware |
| `Catalog`, `CatalogProofs` | packages, prices, features, histories and public copies |
| `Usage` | the start of a usage and its end, next to purchases and edits |
| `CollectionKinds` | twenty administered collections as values: what the model, repository, service and routes of each say |
| `Collections`, `CollectionProofs` | the machine all of them run |
| `Files` | uploads, their documents and their bytes |
| `ServicesProofs` | theorems about `Usage` (its types, its overdrafts and its answers) and about `Files` |
| `Sums` | lemmas about the sum over a finite set, for the proofs about `Wallet` and `Coupons` |
| `MCServices` | `Usage` and `Files` side by side: they share nothing, and in a behaviour one of them runs |
| `MC*` | small instances for TLC |

Conventions. A process is a *handler* or *request* with a `pc`; an action is
what the code does between two awaits. Actions named `...Unchecked`, `...Never`
and the like, marked `mutant`, are plausible bugs: each property is shown to
fail when one of them replaces the definition it is a variant of. Variables the
code does not have (who was credited how often, which token was outdated on
arrival) only record what happened and guard nothing.

### Payment

Handlers are `Requests` and `Crons`; a cron handler runs again and again.
`charge` is the state of the money at the gateway, `status` the stored
`TransactionStatus`. `Update` is `updatePaymentTransactionStatus`: read,
`PaymentStateMachine` check in memory, then `findByIdAndUpdate` by id alone; the
check and the write are different actions, as other handlers write in between.
`audit` is the newest audit row, whose `source` an enum accepts or not. The
consumer's Mongo transaction is a snapshot at `ConsumerBegin` and a commit
guarded by `g \notin stale`: `Written(ds)` dooms every open transaction that
reads and writes a document in `ds`, which is MongoDB's write conflict. The
refund asks the gateway first and opens its transaction afterwards
(`refund_begin`, `refund_commit`). A commit may be applied while its answer is
lost (`ConsumerCommit` with a fault): the handler then repeats a consumer that has
succeeded. The reconciliation query takes payments created between 24 hours and 15
minutes ago, so the cron, which fires every 15 minutes, finds a payment a limited
number of times: `firings` counts those left, `FiringPasses` is one that goes by,
and after the last no job looks at the payment again. `hasty` records the payments
that a visit (`processRedirect`) or a verification has written `failed` while the
session could still be paid. A visit names a session in its query, which Stripe
asks about (`stripe.service.ts:155`), be it that of this payment or not. `IdsCast` says whether `toString()` of a
populated reference yields an id; Mongoose's does not, and the run
`PaymentNeverCredited` sets it to FALSE; the other runs set it to TRUE, to see
what the design does once that is repaired.

### CreditsBatch

`EndMessage` and `EndRequest` add a usage to the batch of a worker; a full batch,
or its timer, is flushed through the breaker (`closed`, `open`, `half_open`,
`probing`; the rolling statistics of the breaker library are a choice of
`AfterFailure`). A publish first asserts the queue, then waits for the broker;
it goes on after `BreakerTimeout` gave up on it. The fallback charges the batch
directly, twice at most. `FlushResolved` and `FlushRejected` return to whoever
awaited the flush: a queue message (acknowledged, or rejected to a dead letter
queue), a request (200 or 500) or a timer, whose rejection nobody handles:
`WorkerDown`. `BatchDelivered`, `BatchCommit`, `BatchAbort` and `BatchAck` are
the batch consumer; a write conflict of its transaction rejects the message.

A payload of a batch may throw inside the transaction, which then goes on
without it and commits. Before the wallet (`BeginCharging`): the endpoint of the
usage is not found, or its user has no live wallet, which an administrator can
bring about at any time without anything failing (`Removable` usages), or a read
fails (a fault). After the wallet (`HalfCharged`): a charge without its row.
`passed` are the usages a committed transaction went past, `dropped` those whose
only trace was the memory of a flush or a worker, `copies[j]` the times j was put
on its way once more (delivered again, published late, attempted again after a
lost answer). Six kinds of failure (`nack`, `timeout`, `offline`, `crash`,
`operation`, and `answer`: a commit applied whose answer is lost) are counted by
`faults`.

### Wallet

One user; each request makes one call. A charge, a settlement and a refund are
Mongo transactions that hold the wallet document; every other call takes one
action per await. `find*` sees documents that are not deleted, `updateMany` and
unique indexes see all of them. `save()` runs the schema's `min: 0`: `SaveWallet`
rejects when the balance it would store is negative, after the row was restored.
`RevokeCredits` and `RefundCommit` are `revokePackageCredits`: the wallet is
decreased whether or not the package row is still there, and its copy in Redis is
not cleared. `generation` counts the documents, `granted` and `taken` record which
one a request moved credits of. Three records say what the code leaves behind:
`overtaken` are the cache fills the wallet was written under since they read it,
`suspect` says that a copy may be wrong and no call under way will clear it (a
refund, a movement without its row, such a fill, a fill between the clearing and
the commit of a transaction), and `parted` are the package rows whose state and credits two
overlapping calls, a refund, a missing wallet or a refused `save()` have parted.

### Session

Tokens carry id, role, version and the second they were issued in; the account
carries version, role, password and `password_changed_at` in milliseconds
(`TicksPerSecond` ticks to a second). `LookUp`, `Load`, `Store` are the Redis
read, the database read and the cache fill of the middleware, `Decide` its
checks. Redis may be off (`Redis = {FALSE}`) and its commands may fail.

### Catalog

A row remembers the request that wrote it, in place of price and credits. The
price writes of one update run at the same time (`Promise.all`): each is a job
of its request with its own find, demotion, write and cache invalidation, and
the jobs of a refused request go on. `is_initial` is `yes`, `no` or `unset` in a
payload. A creation and an update can be refused for a value that another package
has (`CreatePackage`, `WritePackage`). `updateMany` is not filtered by the hook of `find*` and reaches deleted
rows; unique indexes count them.

### Coupons

`ValidateCoupon` is the check of `initiatePayment`; the payment is inserted
later (`PaymentStep` restricts `Next` of `Payment` to payments whose coupon was
validated), and the count changes when the consumer commits. `overlapped` and
`runs` are records: the payments validated while an earlier one was not counted,
and how often the consumer was started for each payment.

### Usage

The three reads of the start run side by side and end in any order; each is a
step, a miss in Redis is followed by a step that stores. What follows an await
without another is folded into it (`Proceed`, `Decided`). The configuration of a
package is looked up for the endpoint, then, in another step, for its feature.
Between the steps of a usage everything that writes the balance may run: a
purchase, a refund (`Refund`), `executeCreditsTransaction` with its comparison and
its decrement apart (`CompareCredits`, `TakeCredits`), a balance that an
administrator's PATCH or the `save()` of a deleted row puts in place of another
(`SetWallet`), and the charges of other usages. `changes`, `answers` and `misled`
record what happened between the first read and the answer, `lowered` what others
took since the usage read the balance. An end over HTTP comes without a user (the
controller overwrites `user_id`), and a start over HTTP creates a wallet for
nobody (`strays`).

### CollectionKinds and Collections

The administered collections were written from one template, and differ in what
matters: whether the `find` hook hides deleted documents from a permanent
deletion or a restore; whether a unique index counts them; whether a soft
deletion is one update or a load and a save; which calls check for duplicates,
look first, answer 404; which cache keys are cleared by which call; whether a
history row is written, and in the transaction or before the update. Five bulk
permanent deletions (features, endpoints, popups, billing settings, profits) filter
the documents they found by `is_deleted`, which their schemas do not select: they
remove nothing (`purgeMany` is `unselected`). A copy in Redis holds `is_initial`
and the version too: making one setting initial demotes another, whose own copy
nobody clears.
`CollectionKinds` writes these answers down, one definition for each file they
are taken from, and `Collections` interprets them. `raced` and `restored` of a
document, `alone` of a request and `suspect` of a key are records. The unique
index on `value` of features, endpoints, popups and payment methods is partial
on `{is_deleted: {$ne: true}}`, which is not among the expressions MongoDB
accepts for partial indexes: there is no such index, and `unique` is FALSE.

### Files

An upload stores the bytes before validation and handler are reached. A
permanent deletion removes the bytes one after another, then the documents.
The bulk permanent deletion of popups finds none of them (as above). `CutShort` is
a process that stops or a database that fails. An object in a
bucket may fail to be deleted, which is logged (`spared`); a file on disk is never
deleted, as `deleteFiles` looks for `uploads/uploads/...`.

## 3. Runs and bounds

Every bound is a CONSTANT of its module, marked "bound" where it is declared.

| run | instance | states | what it shows |
|---|---|---|---|
| `PaymentRace` | one payment, two requests and a cron with one firing, all sources but details, one fault | 1.55 million | whatever the order: credited once, exactly when marked processed, and only while settled; a status leaves its transitions only on stale information; the wallet moves as `Settlement` allows. Deadlock is checked |
| `Coupons` | two payments of one user with a coupon of limit 1, two requests and a cron, webhooks with customer details, one fault | 1.98 million | the limit is exceeded only by payments validated side by side; the count follows the starts of the consumer and the lost answers of its commits; one active subscription |
| `PaymentLive` | one payment, a request and a cron with three firings, two faults, all webhooks lost or not, visits, verifications and refunds | 56 thousand | a settled payment is processed; a paid one is credited or refunded in the end, if the cron still has more firings for it than go wrong and no visit or verification has called it failed |
| `CreditsFaults` | two usages of one user, one worker, two faults of all six kinds, one usage removable | 1.47 million | a row only for credits taken; each charge beyond the first has a cause of its own, and without a fault there is none; what is neither charged nor on its way is passed over, dropped or dead-lettered |
| `CreditsLive` | three usages of one user, one by HTTP, two workers, two nacks, one usage removable | 295 thousand | a usage of the queue is charged in the end, or passed over as its endpoint or wallet is gone, or loses a write conflict against another that was charged |
| `WalletRace` | three requests at once, seventeen calls, refund included, one row that cannot be inserted | 536 thousand | one-time grants are given once, rows add up to the balance, a wrong copy at rest has one of the reasons named |
| `WalletRows` | three requests, two at a time, the calls on package rows and wallets, charges, settlements and refunds, one row that cannot be inserted | 293 thousand | the credits of a row are taken back once, but for the rows two calls or a refund were about; overdue subscriptions end |
| `Session` | three requests of fourteen calls, Redis with one failure, and no Redis | 1.42 million | only the copy in Redis lets outdated tokens in or keeps current ones out; tokens of the current version agree with the account; outdated ones are not refreshed |
| `Catalog` | three requests of 24 payloads, the short ones overlapping in pairs | 1.12 million | see below |
| `Collections` | two documents and two values of each of twenty collections, two overlapping requests of any call | 326 thousand | values are shared only by a race or a restore; one initial setting; every version has its row; copies, `is_initial` and version included, are stale only for the reasons named; reports are true but for those named |
| `Services` | two usages, two packages, one event; two documents, three requests, one fault | 2.15 million | a charge leaves no debt but what exceeds the minimum of its usage and what others took meanwhile; a start answers as if in one step; bytes and documents part only for the reasons named |
| `PaymentNeverCredited` | one payment, no failure | | a divergence shown as a violation, section 6 |

**Why these bounds are enough.** The hazards are races of two writers and one
that repairs, retries or reads: three handlers or requests. A payment has
at most `MaxAttempts` inline attempts (3 in the code; `Coupons` has 2: the first
and one that repeats it). `Firings` is 94 or 95 in the code, every 15 minutes of the
window; how many are left matters only against those that go by unused, of which
there are at most `MaxFaults`, so three against two faults shows both sides. In
`PaymentRace` one firing is one handler more. A second payment matters
only through what the payments of a user share, the wallet, the active
subscription and the coupon, and two show that. Two usages fill a batch of two
(`MAX_BATCH_SIZE`, 50 in the code), one is left for the timer; two faults are
the first failure and one in its handling. All usages are of one user, so that
batches conflict on one wallet. `MaxTicks` covers a token issued
before, in and after the second of a change. `MaxUsage` caps `usage_count` of a
coupon, at one more than its limit. In `Collections` two documents are enough to
share a value or the initial flag, and the initial states are what any number of
earlier calls has left, so two requests stand for the last two of a long
history; Redis starts empty, and a stale copy needs a read and a write. In `Usage`
a purchase changes two documents in one event, which is where reads of several
documents can go wrong. In `Files` the third request restores or reads what the
first two race for.

**Wallet** has overlapping requests in both runs, since outside its transactions
nothing serialises the calls on a wallet. What fails then, and what some calls do
wrong even alone (a refund clears no copy; a permanent deletion, a bulk restore and
a deletion without the wallet do not look at what was done before), is excepted in
the properties by the records `suspect` and `parted` and listed in section 6.
`LedgerMatches` is about moments with no
request under way, no failed insert and only calls that insert a row.

**Catalog** has both: `Serial` is true as long as no two requests have been
under way at the same time. `OneInitial`,
`SaleMatchesOffer`, `StaleOnlyAfterRejection` and `DeletionCascades` speak of such histories, in which the jobs of one update
still overlap each other. `SaleMatchesUpdate` holds in every history: a call that is alone and
succeeds records what a sale will take, whatever overlapping calls have left
behind.
`Asks` are the payloads that occur, `Overlapping` those that may overlap
(readings, renamings, elections and price updates: the calls of few steps), and
`Concurrent` how many do.

`CHECK_DEADLOCK FALSE` stands where requests, usages or sources are used up and
the system may stop; `PaymentRace` checks deadlock, as requests about a payment
may always come.

## 4. Fairness

- A handler, request, flush, delivery or job that has begun takes its next step
  (`WF`): the event loop runs what is awaited, and database, gateway and broker
  calls end in a result or an error.
- The timers of `S/jobs/index.ts` fire for ever. The retry of the consumer selects
  every successful unprocessed payment, without a window of time (`SF` of
  `RetryStart`: the payment is selectable again and again, though not all the time,
  as other handlers may hold it in another status). The reconciliation selects a
  pending payment between its 15th minute and its 24th hour
  (`payment-reconciliation.service.ts:7`), so `SF` of `ReconcileStart` holds only
  while `firings` are left: each selection uses one up, `FiringPasses` uses one up
  when the payment is not selectable or, as a fault, when no worker was up. No
  request ever has to arrive: webhooks may all be lost. The consequence is in
  `PaidIsCredited`: a customer who pays when more firings are left than will go
  wrong is credited, and one who pays later, with the webhook lost, may never be.
- RabbitMQ delivers a ready message to a connected consumer, a lost connection
  is made anew, and a batch timer fires (`WF`).
- The nightly expiry job runs (`WF` of `ExpireSubscriptions`).

The runs that use it are `PaymentLive`, `PaymentNeverCredited`, `CreditsLive` and
`WalletRows`, the last one only with the fairness of the nightly job; everything else the runs check is safety. Nothing in sessions,
the catalogue, the collections, the start of a usage or the files is promised to
happen in the end by anything but the expiry of a cache entry.

Failures have no fairness; they are bounded, as no retry survives a failure that
never ends.

## 5. Proofs

| theorem | says |
|---|---|
| `PaymentProofs!TypeCorrect` | `Payment` keeps its types |
| `PaymentProofs!CreditedOnce` | credits of a payment are added at most once |
| `PaymentProofs!ProcessedMeansCredited` | `consumer_processed` is set exactly when they were added |
| `PaymentProofs!SingleSubscription` | one active subscription of a user |
| `PaymentProofs!CreditsOnlyWhileSettled` | a commit that adds credits finds the payment settled |
| `PaymentProofs!LegalUnlessStale` | a status leaves the state machine only by a write decided on a replaced one |
| `PaymentProofs!RevokedOnce`, `RevokedAfterRefund`, `SingleRefund` | credits are taken back once, after the gateway's refund, one refund at a time |
| `PaymentProofs!ImplementsSettlement` | `Payment` implements `Settlement` |
| `PaymentProofs!CouponsArePayments`, `CouponsOneSubscription`, `CouponsSettle` | a behaviour of `Coupons` is one of `Payment`, so that all the theorems above hold of it too |
| `PaymentProofs!OverusedByOverlap` | a limit is exceeded by at most as many uses as payments were validated before an earlier one was counted |
| `PaymentProofs!CountedByRuns` | a coupon's count is at least the payments that used it, and at most the starts of their consumers and the attempts repeated after a lost answer |
| `ServicesProofs!UsageTypeCorrect`, `ChargesAreCovered` | types, and a charge leaves at least the minimum its usage was let in with, less its cost and what others took since it read the balance |
| `ServicesProofs!StartsAnswerAsOfOneMoment` | a start answers for its four documents as they were together at some moment since it began |
| `CreditsProofs!TypeCorrect`, `RowsAreCharged` | types; a usage never has more rows than charges, whatever aborts |
| `CreditsProofs!ChargedOnceWithoutFault` | while nothing fails a usage is charged once |
| `CreditsProofs!LossesAreExplained` | whatever fails, a usage is charged, on its way, dead-lettered, passed over by a committed transaction or dropped, and dropped only once something had failed |
| `CollectionProofs!TypeCorrect`, `ReportsTrue` | types, and a request that ran alone has done what it reports, but for the permanent deletions named |
| `CollectionProofs!OneSettingIsInitial`, `VersionsAreRecorded` | one initial setting, a row for each version left, but for races and restores |
| `CollectionProofs!SharedByRaceOrRestore`, `StaleIsSuspect` | values are shared, and copies stale, only for the reasons named |
| `WalletProofs!TypeCorrect`, `GrantedOnce` | types, and one-time grants are given once |
| `WalletProofs!CacheStaysFresh`, `RowsTakenBackOnce` | with any overlap: no wrong copy at rest but for the reasons `suspect` records; the credits of a row are taken back once but for the rows in `parted` |
| `WalletProofs!LedgerIsSum` | at rest a wallet holds the sum of its rows, whatever overlaps, for the calls that insert a row |
| `SessionProofs!TypeCorrect`, `CurrentTokensAgree`, `OldOnlyThroughCache` | types, tokens of the current version agree with the account, only Redis admits others |
| `SessionProofs!CurrentAdmitted`, `OutdatedNotRefreshed` | a current token is refused only by Redis or in the second of a password change; an outdated one is not refreshed |
| `ServicesProofs!FilesTypeCorrect`, `MissingExplained`, `LeftoverExplained` | types; a live document misses its bytes, and bytes outlive their use, only for the reasons named |
| `CatalogProofs!CatalogTypeCorrect`, `OneIsInitial` | types; of requests one after another, one initial package and one initial price of each |
| `CatalogProofs!SalesMatchUpdates`, `SalesMatchOffers` | a call that was alone has left a snapshot of the offer it made; of requests one after another, what is sold is what is offered, but for the calls named |
| `CatalogProofs!StaleExplained`, `DeletionsCascade` | of requests one after another, public copies are right, and deletions leave nothing for sale, but for the calls named |

They hold for every value of the constants under the assumptions named in the
modules (`SetsAssumption`, `CallsAssumption`, ...): ids of different kinds
differ, bounds are natural numbers, call names are those of the code.
`KindsAssumption` says what the twenty collections have in common (TLC evaluates
it for all of them); the theorems about `Collections` hold of any further one
that has it too.

**Payment.** `CreditedAtMostOnce` is not inductive: a consumer that has begun
its transaction carries a snapshot. The invariant adds `SnapshotsCurrent`, that
the snapshot of a transaction *not doomed* by a conflict is the present, and
`ProcessedIffCredited`; then the commit that adds credits sees that nobody has.
One active subscription follows the same way: a snapshot that can commit shows
the active subscriptions of now, and the commit cancels them all. For refunds,
`OneRefundInFlight` and `OpenedOnce` say that the gateway returns a charge once,
so only one handler of a payment gets behind it. For the state machine,
`DecisionInv` carries the answer of `CanTransition` from the read to the write, and
for a refund, which another write dooms, to the commit. The refinement maps a consumer's
commit of an uncredited payment to `Credit`, the commit of a refund to `Return`
and all other steps to stutters.

**Coupons.** `CouponInv` bounds two sets: the payments credited, by the count (the
commit that credits one counts it, `CommitCoupon`), and the payments validated in
order (`Ordered`), by the limit: each of them found all those before it credited,
so counted, so that the count it compared was at least their number. What is
credited is in order or overlapped, which is the property. `RunInv` is about the
count: it and the handlers inside the consumer (`Running`) together are at most
the starts of the consumer summed over the payments, so each start pays for one
increment at most, or is repeated because its answer was lost, which `recounted`
counts. The limit is a natural
number and the payments with a coupon are finitely many (`LimitAssumption`).

**Usage.** `ChargesCovered` needs what a start holds while it is under way (`Held`):
the balance it has read is at most the balance of now plus what others took since
(`lowered`), since every step that takes credits, a charge, a refund, a decrement or
an administrator's write, adds to `lowered` of whoever has read the wallet.
`Local` says that a usage let in compared its minimum with what it had read; the two
together are the bound at the charge. For the answers, `Explained` names two views of the four documents, as they
were before the one change a start has seen and as they are: whatever it has read
is of one of them (`FromOne`), they differ in one document, so all it has read in
the end is one of the two (`OfOneView`), and a start in one step would have
answered for both since it began (`Told`).

**Charging.** While nothing has failed (`Calm`) the breaker is closed and the
fallback is idle, and every usage is in one place (`InOnePlace`): its message, a
batch, a flush, a message of the broker or the charge. A delivered batch is
charged and acknowledged once (`DeliveredOnce`). `LossesAreExplained` allows every
failure: `Custody` says that each usage is charged, carried, dead-lettered, passed
over or dropped (`Kept`), and `Wires` that a publish under way holds the usages of
its flush and has no message yet, that an unacknowledged message holds those of the
one delivery it belongs to, and that what is to be acknowledged or rejected after
its commit has been charged or passed over: whatever removes one of these hands its
usages on or records them. Rows are written by the commit that takes the credits or not at all
(`RowsHaveCharges`). The other half of `ChargesExplained`, that each further charge
has its copy, is checked by TLC only.

**Collections.** `Exclusive` is behind every theorem about a request alone: no
other one is under way, so nothing changes between its steps and what its lookup
saw is what its write meets. `Effects` sorts the writes: all but a create and an
update keep values, versions and the initial mark (`Keeps`), and whatever is
written next to another request is marked raced. On top of that each property has
its own part: `Marks` (the transaction of a request alone has seen every initial
setting), `Recorded` and `Once` (an update knows the version it replaces, and its
row is there before the version is left), `Unshared` (nobody took the value since
it was checked), `CachedKeys` and `FreshAnswer` (a reader alone stores what the
database would answer now), `Truthful` (what a request has found when it writes,
and done when it has written).

**Wallet.** `GivenInv`: the flag of a document is set as soon as a grant moved
credits of it, and a document made later has a later generation than any grant
so far. Two grants of one generation would have found the flag unset twice.
`CacheInv`: the copy is fresh, or some request is about to clear it
(`Clearing`), or nothing will (`suspect`); and a fill that no write has overtaken
holds the wallet as it is (`FillsCurrent`), so that storing it makes the copy fresh.
`RowSettled` follows one row that was not parted from its credits: at most one call
is about it (`OnRow`), and its credits are out of the wallet exactly when the row is
deleted, or at the points of that call where `TakenAt` says so. Neither has an
assumption on how many requests overlap. For `LedgerIsSum`, `Balanced` says in every state that the wallet is
the sum over the requests whose credits have moved (`Moved`), and `Booked` says at
each point of a call whether they have and whether the row is there; at rest,
with no fault, the two sets are one. The hypothesis leaves out the calls that change
a wallet and insert no row for it, or take one away (`Rowless`): routes of
administrators, `save()` of a removal, and `assignPaidPackage` outside a
transaction, whose row the schema refuses (`InsertCreditsRow`).

**Sums.** What the two theorems about sums need of `SumFunctionOnSet` is proved by
induction on the size of the set. The library's induction theorems take an
operator, so the induction is made with a smallest counterexample: natural numbers
are well-founded, hence of the sets that fail one is smallest (`SmallestSet`). That
the fold's `CHOOSE` is a function that adds (`Summed`, `SumAdds`) and that the order
does not matter (`AnyOrder`) come first; `SumTake`, `SumOneMore`,
`SumSame`, `SumZero` and `SumType` are what is cited.

**Session.** `VersionsInv` orders the documents by `Later`: a write of role or
password raises the version, so a token whose version is current was signed from
a document that agrees. `AdmissionsInv` carries it through the steps of the
middleware: what it loaded from the database is not older than the account at
arrival. `RefreshInv` does the same for refresh tokens: outdated on arrival is
outdated when the account is looked up (`OutdatedStays`). `CurrentWorks` needs
times as well: no password was changed after now (`Ages`), hence a token of the
current version is not older than the second of the last change (`Dated`), and
the rights of an entitled request hold until somebody writes the account
(`WorkInv`).

**Files.** An object is stored by one request and named by at most one document
(`Owned`, `Belongs`), so a deletion of bytes concerns the documents it names and
no other. `Noticed` is what a request may still rely on after its lookup: a
document that is not as it was found was written next to the request, hence
raced, and if it is live again it was restored. That explains every document
without bytes (`Missing`, which speaks of deleted ones too, as they can be
restored) and every object without use (`Leftover`: what a deletion has done with
each object by the time its document goes, and what an update owes to the object
it replaced). `Moves` and `Kept` state what all thirteen actions have in common
as another request or document sees it; the other half of the argument, `Own`,
is about the request that takes the step, action by action.

**Catalog.** `Base` is behind all of it: besides the types, every step of a
request belongs to its call (`Placed`), jobs run only at the four points where a
request waits for them or after its refusal, and a request marked `alone` has
nobody next to it as long as it moves (`Exclusive`). For each property the steps
are sorted by what they do to it. `CacheInv`: a copy is the package as it is, or
some request has still to clear the cache (`Dirty`). `CascadeInv`: a deletion has
removed configurations and prices, or has still to (`Deleting`), and whoever wants
the package live finds it so when it is alone. `RecordInv`: between the read of
the document and the row made of it nothing changes, so the newest row of the
version sold is the offer (`Matches`); `OfferInv` carries it over the calls that
change no offer. `MarkInv`: who is about to mark its package has taken the flag
from all others. `RowsInv` is the one with overlap in it, as the price writes of
an update run together. Two prices may well be initial for a while: when the
payload asks for it twice, or a job takes the flag from rows another has written.
The invariant allows this at two points (`Tolerates`): while listed prices are
rewritten, as long as all initial rows are live, so that the review that follows
sees them; and after the review, as long as every initial row but one has a job
that will take its flag. That needs that the jobs of such an update never fail,
since the rows they write are live (`JobRowsOk`), and that a job which sets the
flag in the review runs alone (`JobAlone`). TLC has checked `MarkInv` and `RowsInv`
on the instance of the run and on one with three intervals.

Only checked by TLC: liveness (`SettledIsProcessed`, `PaidIsCredited`,
`EveryQueuedUsageCharged`, `OverdueExpire`), which the provers do not reach, and the
half of `ChargesExplained` named above. The other way round, the types of `Payment`, `Wallet`, `Session` and `Usage`, and what is said of refunds
(taken back once, only after the gateway's refund, one in flight) are proved and
in no run.

## 6. Where code and documents disagree

Met while modelling. One is a run that TLC refutes (`PaymentNeverCredited`);
the others were found with the same modules, by stating the property and letting
TLC refute it or in translating the code.

Payments
- `payment.consumers.ts:37` passes populated documents' `toString()` as ids:
  `assignPackage` cannot cast them and no payment is ever credited (README.md:63
  promises recovery of failed assignments). Run `PaymentNeverCredited`.
- `payment.service.ts:78` writes a status by id alone after a check in memory:
  of two handlers that read `pending` the later overwrites the earlier, `success`
  by `failed` included (README.md:61 "Strict State Machine"). What holds is
  `IllegalOnlyIfStale`.
- `payment.service.ts:402`: verification of a charge that is not paid yet stores
  `failed`; reconciliation selects `pending` only, so the later payment is never
  credited (README.md:62). `PaidIsCredited` excepts it (`hasty`).
- `payment-reconciliation.service.ts:7`: a payment is selected from its 15th minute
  to its 24th hour, and a checkout session without `expires_at` (`stripe.service.ts:48`)
  can be paid about as long: who pays when the last firing is over, and whose
  webhook is lost, is never credited (README.md:62). What holds is `PaidIsCredited`,
  with firings left.
- `payment.service.ts:657`: when the transaction after a gateway refund aborts,
  the money is back and the payment stays `success` (README.md:64).
- `user-wallet.service.ts:605`: a refund takes back the credits of a payment that
  was never credited (README.md:64 "revokes assigned credits").
- `payment.consumers.ts:46`: a coupon is counted once per commit of the consumer,
  so twice when a webhook is delivered twice or the cron overlaps an inline attempt
  (README.md:775 "prevents duplicate processing"), and twice by one start when a
  commit was applied but its answer was lost: the error is rethrown (`:60-75`) and
  the attempt repeated (`payment.service.ts:116`). What holds is `CountedOncePerRun`.
- `coupon.service.ts:97`: the limit is compared when a payment is initiated and
  counted when it is settled; a limit of one is used by every payment initiated
  in between. What holds is `OverusedOnlyByOverlap`.
- `payment-audit.model.ts:41`: the enum of sources rejects four of those in use,
  and `initiatePayment` writes `failed` without a row (README.md:66 "Every status
  change is tracked"). The rejection is not caught.

Charging
- README.md:85 says the breaker falls back so that nothing is lost. Without a
  connection `publishToQueue` logs and returns (`rabbitmq.ts:154`) and no fallback
  is called; a fallback that fails on the timer path shuts the worker down and
  loses the batch (`credits-process-batch.service.ts:98`), and with it come
  redeliveries of what the worker had committed (up to three charges of one usage).
- A publish that timed out after three seconds can still arrive after the fallback
  has charged the batch; no `usage_key` is looked up (README.md:851).
- An end message is acknowledged when its usage is in memory, up to 100 ms before
  the publish (README.md:845): a crash loses it.
- `credits-process-batch.consumer.ts:101` catches the error after the wallet was
  decremented in the shared session: a charge without its row (README.md:846).
- A usage whose endpoint is gone (`credits-process.worker.ts:65`) or whose user has
  no live wallet (`user-wallet.service.ts:115`) throws before the wallet operation;
  the error is swallowed (`credits-process-batch.consumer.ts:101`,
  `credits-process-batch.service.ts:159`) and the batch committed and acknowledged:
  the usage is forgotten though nothing failed (README.md:85). `LossesExplained` and
  `EveryQueuedUsageCharged` name it (`passed`).
- `credits-process-batch.consumer.ts:31`: two deliveries for one user conflict
  and the later goes to a dead letter queue nobody reads, although nothing failed.
- `POST /credits-process/end` overwrites `user_id` with that of a logged-in user
  (`credits-process.controller.ts:24`); a server has none, and the usage is never
  charged (README.md:73). `POST /credits-process/start` does the same: it reads no
  wallet, creates one with a fresh id and answers for that.
- For the same reason the rate limit and the deduplication of these routes
  (`credits-process.middleware.ts`) always pass: both need a user id.
- A start reserves nothing: other usages, a refund (`user-wallet.service.ts:605`), a
  decrement (`credits-transaction.service.ts:39`), a deleted row or an administrator's
  write of the wallet between the start and its charge leaves the wallet below zero,
  although the usage was within its minimum. What holds is `ChargesCovered`.
- `credits-process.service.ts:60`: a start that reads the subscription before and
  the wallet after a purchase, or the other way round, answers what was right at
  no time. An update of an endpoint clears none of its
  `feature-endpoint:public:` copies, and starts use the old minimum for a day.

Wallet
- with overlapping requests: two active subscriptions (`user-subscription.service.ts:15`); a wrong copy for
  12 hours (`cache.utils.ts:28`); a balance below zero (`credits-transaction.service.ts:39`,
  against `min: 0`); a charge undone by `save()` of an earlier read
  (`package-transaction.service.ts:48`, README.md:846).
- with one request at a time: `assignPackage` replaces the subscription before it knows whether its
  update matched (`user-wallet.service.ts:490`): a refused initial package cancels
  the paid one. `increase_source: 'payment'` without a payment credits the wallet
  and loses the row (`:561`). A row deleted softly and then permanently is taken
  back twice (`package-transaction.service.ts:57`), a bulk restore gives credits for
  rows that were not deleted (`:137`). A row that is deleted while its wallet is
  softly deleted is not taken back (`if (wallet)`, `:49`): restore the wallet, then
  the row, and its credits are there twice. A movement whose row cannot be inserted
  has changed the wallet and rejects before the copy is cleared
  (`credits-transaction.service.ts:49`), which stays wrong for 12 hours. So does the
  copy after every refund: `revokePackageCredits` writes the wallet
  (`user-wallet.service.ts:607`) and no caller clears it (`payment.service.ts:638`).
  The row of a refunded payment can still be deleted, which takes its credits a
  second time. A restore into a wallet that the row's credits do not lift to zero
  is rejected by `min: 0` (`user-wallet.model.ts:22`) when its row is restored
  already (`package-transaction.service.ts:110`), and the next deletion takes back
  what was never returned. A softly deleted wallet cannot be deleted
  permanently (`user-wallet.service.ts:148`) and blocks a new one.

Sessions
- `auth.service.ts:310` and every other write of `token_version` leaves the copy in
  Redis, and the old token works up to half an hour
  (`documents/plans/auth_token_version/auth_token_vesion_tasks.md:53,64`). What
  holds is `OldOnlyFromCache`.

Catalogue
- with overlapping requests: two initial packages (README.md:377 `is_initial`
  "Unique") and two initial prices; history versions that go down
  (`package.service.ts:608`); a stale public copy for 24 hours (`:23` "with proper
  invalidation").
- serially: `restorePackage` brings back prices an earlier update had removed; the
  price routes change the offer without a history row (README.md:44, 701), so a
  sale stores a snapshot of the older one; a price or feature removed once cannot
  be added again (unique index; `package-feature.service.ts:47`); a creation
  refused by the interval check leaves a live package without prices, an update
  refused halfway keeps what it had removed.

Collections
- `feature.model.ts` and three others ask for a partial unique index on
  `{is_deleted: {$ne: true}}`, which MongoDB refuses: nothing but the check before
  the write keeps values apart, and a restore makes no check.
- `contact.controller.ts:53` and the history modules report a permanent deletion
  that removed nothing: the lookup passes `bypassDeleted`, the removal does not.
- notifications and recipients that were deleted can be neither restored nor
  removed: the hook hides them from every query.
- `notification-recipient`: the routes for a user's own notifications filter on
  `author`, a field the schema does not have.
- `credits-profit.service.ts:78` writes the history row before the update, which
  may then fail: a row of a version that is still the current one.
- `ai-model.service.ts:186`: bulk calls, restores, and an update that changes the
  value leave cached copies behind (24 hours). So does making a model the initial
  one: the copy of the one it demotes says `is_initial` for a day (`:28`, `:157`).
- The bulk permanent deletion of five services removes nothing: it selects the
  documents by `is_deleted`, which is `select: false` and so missing in what was
  found (`feature.service.ts:195`, `feature-endpoint.service.ts:204`,
  `feature-popup.service.ts:256`, `billing-setting.service.ts:154`,
  `credits-profit.service.ts:148`), and reports every id as not found.

Files
- `file.service.ts:223`: the path stored begins with `uploads/`, and `deleteFiles`
  resolves it below `uploads/`: no local file is ever removed. Pictures of users
  are stored in `uploads/users` and looked for in `uploads/user/images`.
- `user.service.ts:52`: an update of the own account without a picture clears the
  one there is.
- `feature-popup.service.ts`: an update deletes the former picture even when its
  own write found no popup (deleted meanwhile, and possibly restored later); a
  permanent deletion removes no object; a refused upload leaves its object. The
  branch of the storage middleware for former paths is never reached.

## 7. Plan and what is not modelled

Order of the plan: payments first, as money is lost there; charging and the
wallet, which payments and usages share; sessions; the catalogue; then coupons,
the start of a usage, the administered collections and the files. All of these
are here, and every safety property a run checks has its theorem, half of
`ChargesExplained` excepted.

A component gets one run, or shares one: what matters serially and what matters
under overlap is told apart by a record such as `Serial` of `Catalog` or `alone`
of `Collections`.

Not modelled, and why, part by part:

- Payment: `createPayment` by `POST /payments` always fails (the schema of the
  route strips the price the model requires); soft deletion of payments, URLs and
  mails move nothing; `payment.completed` has no consumer; a package repriced
  between grant and revocation; the answers of vendors, which each adapter maps
  to the statuses by a table without state (`sslcommerz.service.ts:328` accepts
  `APIConnect: DONE` as a refund, `stripe.service.ts:127` maps an unpaid session
  to failed).
- CreditsBatch: the branch with RabbitMQ off, conflicts with writers of the wallet
  other than charges, the limit of five restarts a minute, and the cost of a usage.
- Wallet: bulk routes over several wallets, the email `getSelfUserWallet` stores,
  errors of Redis and expiry of entries; deletion and restore of credits rows, which
  throw a TypeError before they change the wallet.
- Session: verification and change of email, `restoreUsers`,
  `deleteUsersPermanent`, expiry of tokens.
- Catalog: `is_active`, `previous_price`, a price moved to another package or
  interval, `createPackagePrices` over several packages, administration of history
  rows and configurations, the caches of lists (`packages:public:*`, cleared
  together with those modelled). Aggregations read at one instant.
- Usage: the estimate and the cost of a usage (arithmetic on documents read);
  deletion of a wallet by an administrator;
  `credits-process-cache.service.ts`, which nothing calls.
- Collections: lists and counts; an explicit `is_initial: false` in an update; the discount of a coupon; the sequence of
  endpoints; a category or feature a document refers to; the consumer of feature
  usage logs, which inserts a row a message, and the Kafka one, which nothing
  starts; the delivery of notifications to sockets.
- Files: updates of names and of the status; pictures of users.
- Query builder: it composes a read-only pipeline that MongoDB evaluates.
- Rate limit and deduplication: they never act on the routes they are on (section 6).
- Formatting, mail, metrics, logs and the dashboard keep no state the rest reads.

## 8. Running the checks

    tlc -workers 2 -config PaymentRace.cfg MCPayment.tla     # module and cfg of a run
    tlapm PaymentProofs.tla

`PROJECT.json` maps every definition to the lines it models, names the module and
configuration of each run, and the mutant that breaks each property.
