# AtelierMarie in TLA+

A verification project for the backend of AtelierMarie, a web shop for handmade
goods: FastAPI over Postgres (psycopg 3, READ COMMITTED), Stripe for cards,
Speedy and Econt as couriers, an email provider, DuckDB for analytics, a bucket
for media. Synchronous routes run in threads, asynchronous ones on the event
loop, several processes may serve, and each runs its own copy of every background
loop (`app/main.py`: sessions, reservations, email outbox, courier polling,
video transcodes). What is hard about the system is not its data but what these
actors do to the same rows and files between one statement and the next.

    Orders <-EXTENDS- CardPayments <-EXTENDS- Refunds      checkout to refund
    SendClaim <-refinement- EmailOutbox                    order emails
    Shipping <-EXTENDS- Returns                            couriers, return cases
    Books <-EXTENDS- Finance                               accounting, periods
    Production, Valuation                                  workshop and its costs
    Shop, Visitors, Limits, Media                          catalogue, sessions, limits, galleries
    Contact, Analytics, SiteMedia                          queue, event log, backfill script

    MCOrders, MCCardPayments, MCRefunds, MCReturns, MCMedia   one component, for TLC
    MCBackground  = EmailOutbox + Contact + Analytics + SiteMedia
    MCBackOffice  = Production + Valuation + Finance
    MCStorefront  = Shop + Visitors + Limits

    theorems for tlapm, each module of proofs beside what it is about:
    Checkout_proofs    Orders, CardPayments, Refunds
    Background_proofs  EmailOutbox, Analytics, SiteMedia in MCBackground
    Storefront_proofs  Shop, Visitors, Limits in MCStorefront (with Visitors_proofs)
    BackOffice_proofs  Production, Valuation, Finance in MCBackOffice (with Production_proofs)
    Returns_proofs, Media_proofs

    tlc -workers 2 -config MCOrders_serial.cfg MCOrders
    tlapm Checkout_proofs.tla

The three sums are one run each for components that share no state in their
models: a variable `part` picks a component, whose steps are the only ones of
that behaviour, so TLC explores the sum of the state spaces, not their product. MCStorefront
and MCBackOffice instantiate `Visitors_proofs` and `Production_proofs` (which extend
Visitors and Production), so that the theorems proved there can be cited for the sum.

## 1. Inventory

| component | state | operations | what is hard | correct when |
|---|---|---|---|---|
| Orders and stock (`order_service.py`) | `orders`, `order_items`, `products.stock`, `inventory_movements` | checkout, mark ready, status update, manual payment actions, cancel | `update_status` and the manual actions read the order without a lock and write it unconditionally | units are not lost, and made only where a stale write overwrites a cancellation; nothing ships half crafted |
| Card payments (`payment_service.py`, `routes/orders.py`, `routes/webhooks.py`, sweeper in `main.py`) | `orders.payment_status`, `reserved_until`, session id, `stripe_events` | create and retry a session, completed and expired events, sweep | calls to Stripe between a read and a write; events delivered twice, late, to two workers; a sweeper per process | one thank-you per capture; no order keeps its units for ever |
| Refunds and disputes (`payment_service.py`, `routes/admin.py`) | `payment_refunds`, `stripe_events` | request a refund, refund event, dispute event | four commits with a call in the middle; events overtake answers and each other | refunds never exceed the price; 'refunded' is true; nothing hangs in 'refund_pending' |
| Order email outbox (`email_service.py`) | `order_emails`, `order_email_send_claims` | queue, drain, claim, send, record | leases, crashes between the provider and the record, stale rows | one sender per email; no needless duplicate; every row ends |
| Fulfillment and polling (`speedy_admin_service.py`, `econt_fulfillment_service.py`, the clients, `courier_polling_service.py`, `circuit_breaker.py`) | courier columns of `orders`, Econt's settings, circuits in memory | waybill, label, withdraw, pickup, delete, refresh, poll | a parcel exists at the courier before the order knows it, or after the call failed; leases whose token is never compared | a return opens one case; no order is forgotten by the loop |
| Returns (`return_service.py`) | `order_returns` | create, receive, inspect, close | inspection restocks after an unlocked read | each case puts units back once |
| Production (`inventory_service.py`) | materials, lots, recipes, batches, movements, stock | receive, adjust, recipe versions, plan, post, cancel, correct | a posting checks each line and lot and consumes the sum; requests look at a status first | output enters stock once, covered by what there was |
| Valuation and cost of goods (`inventory_service.py`) | movements, `inventory_valuation_layers`, `cogs_ledger` | opening values, generate layers, generate cost rows | run again and again over a log that grows, in any order with sales, cancellations and returns | valued once; a cancelled sale costs nothing |
| Accounting and periods (`accounting_*`, `stripe_reconciliation_service.py`, `expense_product_cost_service.py`, `finance_period_service.py`) | settings, evidence, documents, settlements, expenses; `finance_periods`, `finance_exceptions`, packages | record and match; review, close, reopen, export, accept | a close looks at exceptions that an earlier refresh wrote | an order is reported once; a period closes knowingly |
| Catalogue, pricing, promotions (`product_service.py`, `taxonomy_service.py`, `pricing.py`, `promotion_service.py`) | products, terms, campaigns | CRUD, import, bulk discounts, apply and remove a campaign | deletes that count uses first; patches merged over stored discounts; what a campaign wrote | discounts well formed; terms exist; campaigns can be taken back |
| Product media (`product_image_service.py`, `product_video_service.py`) | `product_images`, `product_videos`, objects | upload, delete, reorder, transcode, remove a product | uploads in threads; objects and rows are not one transaction; a lease on a transcode; a thumbnail shared as a poster | what a row shows exists; one primary; every video ends |
| Visitors (`middleware/session.py`, `auth_service.py`, `cart_service.py`, checkout of `order_service.py`) | sessions, carts, users, orders, the browser's cookies | add, order, sign in, callback, sign out, expire | concurrent requests of a browser hold an old session while a sign-in replaces it | nothing is left in a replaced session; a sign-out is final |
| Limits (`payment_rate_limit_service.py`, `comment_service.py`, `reaction_service.py`, `contact_service.py`) | events counted in windows | count, record, clean up | count, then insert; rows deleted in between; a retry of a payment that keeps its transaction open while it awaits Stripe | no window overflows; the event loop waits for nobody |
| Contact messages (`contact_service.py`) | `contact_messages` | queue, drain, mark | leases, failed marks, messages that cannot be rendered | every message ends |
| Privacy and analytics (`analytics_service.py`, `gdpr_service.py`) | a JSONL log, DuckDB, consent | ingest, load, retention, erasure | a file and a database rewritten by several threads | what was accepted stays; erasure reaches both |
| Site media (`site_media_service.py`, `scripts/backfill_media_to_r2.py`) | URLs, files, objects, a rewrite log | replace, clear, backfill | the script rewrites what it selected before the upload | every picture is reachable; all are moved in the end |
| Content pages, delivery offers, admin accounts, reports, inbound email events, migrations, frontend | rows edited one at a time, static data | CRUD, lookups | little of it is a protocol | - |

Interactions: a checkout commits an order and its units, then asks Stripe for a
session. Stripe answers the customer's payment with an event; the webhook marks
the order paid and queues an email *in the same transaction*. The sweeper puts
unpaid orders in review, and closes those that stay there through
`update_status`, which releases their units. Admins use `update_status`, the
manual payment actions and refunds on the same rows; fulfillment moves a
confirmed order to 'shipped', polling to 'delivered' or into a return case. Every
one of them appends to the movements that Valuation reads, and the books read
orders, refunds and settlements. `PROJECT.json` lists the hazards line by line,
those no property covers with the reason.

## 2. How the code becomes actions

* **A transaction that locks before it decides is one action**: `checkout`
  (advisory lock and `FOR UPDATE` on products), `mark_order_fulfillment_ready`,
  the claim of an email, a contact submission.
* **A transaction that reads without a lock and writes later is two actions**
  (`Read...`/`Write...`, `Start...`/`Finish...`). The first evaluates the
  code's guards and remembers what the Python variables hold; the second applies
  the INSERTs and UPDATEs to the rows *as they are then*. Anything may commit in
  between.
* **A call to a service is an action of its own**, between them. Its outcomes are
  nondeterministic: Stripe may refuse, an answer may be lost after the refund or
  the parcel was made, a timed-out email may have been accepted.
* **What runs on the event loop without an await is one action**, also when it is
  long: product, gallery and courier requests. What runs in a thread is not.
* **A row lock taken by an early INSERT or UPDATE** keeps a second transaction on
  the same key out until the first commits: the `stripe_events` insert
  (`ReadCompleted`), the `payment_refunds` update (`ReadRefundEvent`).
* A handler whose guards fail raises and changes nothing: it has no action.
* A crash forgets a handler's variables; what it committed, what it wrote to a
  file, and what the service did, remains.

### Orders.tla

`Checkout`, `MarkFulfillmentReady`, `ReadForStatus`/`WriteStatus`
(`update_status`), `ReadForPayment`/`WritePayment`
(`apply_manual_payment_action`, `mark_bank_transfer_paid`),
`RereadForCancel`/`WriteCancel` (the manual cancel, which reads the order a
second time inside `update_status`), `Produce` (a production batch),
`MoveToLedger` (an operator's change of `inventory_mode`), `ReservationLapses`
(the clock). `Restored` is the restore loop of a cancellation, with its three
cases: ledger-managed with movements, without, and not managed; `Forgotten` is what
the first case leaves out of a product that moved to the ledger while an order waited. Prices,
addresses and audit rows are left out: no guard reads them.

### CardPayments.tla

Extends Orders: its actions are a request after the checkout (`PlaceCardOrder`,
`StartRetry`, `CreateSession`, `PersistSession`, `SessionRefused`), the webhook
(`ReadCompleted`/`WriteCompleted`, `DeliverExpired`), Stripe and the clock
(`CustomerPays`, `SessionExpires`, `DayPasses`) and the sweeper
(`StartSweep`, then `RereadForClose`, `CloseOrder` or `ExpireAtStripe`,
`MarkForReview`). The sweeper treats the orders it selected independently and is
modelled one order at a time; the code runs them in one transaction, so a raise
rolls back the others too (listed as a hazard). `aged` stands for "created more
than 24 hours ago". `payment_failed` and `charge.refunded` events only write
audit rows.

### Refunds.tla

Extends CardPayments. A request: `RequestRefund` (guards and the unlocked sum),
`InsertRefund` (the pending row is committed) or `InsertCollides` (the unique
index on the idempotency key), `StripeAnswers` or `StripeAnswerLost`,
`StoreProviderId` or `RecordFailure`. The webhook: `IgnoreUnmatched` (no row has
the provider's id yet, the event is consumed), `ReadRefundEvent` and
`WriteRefundEvent` (its sum is read before it writes the order),
`ReceiveDispute`. A row is identified by its idempotency key; amounts are
counted in units of a partial refund, `Price` of them are the order's total; Stripe itself refuses to refund more than was captured (`StripeCovers`).

### EmailOutbox.tla and SendClaim.tla

A sweeper is `StartDrain`, then for each row `ReadRow`, `ClaimRow`,
`ProviderAnswers` or `ProviderFails`, `Record`. The checks between reading the row and
acquiring the claim are merged into `ClaimRow`: whatever commits between them is seen by
the claim too. `LeaseExpires` is enabled only for a claim whose worker is gone:
the lease is 300 s, and the provider call gives up after 10 s. `SendClaim` is
the abstract specification, four actions on one variable: at most one sender;
a sender releases, closes or abandons; an abandoned email goes to the next one.
`EmailOutbox` implements it under the mapping `holder <- Holder(m)`, read off the
claim and the workers.

### Shipping.tla and Returns.tla

A request reads the order and calls the courier (`StartWaybill`, `StartLabel`,
`StartWithdraw`, `StartPickup`, `StartRefresh`, ...); the answer writes without
looking at it again (`Finish...`), or fails with or without an effect at the courier
(`Fail...`, which records why a parcel is unknown in `parcel[p].lost`). The circuit
breaker is part of every call (`Allowed`, `CallSucceeds`, `CallFails`). The polling
loop is `SelectDue`, `AcquireLease`, `AskCourier`, `PollAnswered` or `PollFailed`
with backoff. `Returns` adds the cases; only an inspection is two steps, because
its restock follows an unlocked read.

### Production.tla, Valuation.tla, Books.tla and Finance.tla

Production keeps materials, lots, versions of recipes and batches:
`StartPost`/`FinishPost` checks lines and lots (`EnoughMaterial`, `EnoughInLots`)
and then consumes. Valuation appends movements and lets `FinishLayers` and
`FinishCogs` run the code's moving average over the whole log, in cents with the
code's rounding. The loop over the movements is a recursive function over their
numbers (`LoopFrom`, `RunningSum`), the exception upserts of a refresh are given by
their result (`Upserted`: a row of the same key is updated, a new one inserted), and
what a batch needs of a material is counted as a set (`Units`): forms that a prover
can reason about. Books is one action per short transaction over the rows
accounting reads; `CollectSpecs` is the exception engine's list of problems.
Finance moves periods through their statuses and takes packages, where
generating one (`StartExport`, files, `FinishExport`) spans two steps.

### Shop.tla, Visitors.tla, Limits.tla and Media.tla

Shop: terms, products, discounts and campaigns, each request its reads and its
writes; a creation and an import write what the code writes, discount and category included. Visitors: `Send`, `Dispatch` (the middleware reads the session of the
cookie), a handler, `Deliver` (Set-Cookie); the callback waits for Google between
two steps; `CleanUp` is the session loop. Limits: an event is counted in the windows of
`Bucket` and recorded; where one handler of the event loop counts, inserts and commits
without an await this is one action (`Consume`), for contact messages and polls, which are
handled in threads, `Count` and `Finish`. A retry of a card payment (`RetryStripeSession`)
counts on the loop inside a transaction that its request opened before, so its row, and its
deletion of old rows, stay uncommitted until Stripe has answered (`Finish`); a handler
that meets a row so deleted blocks the loop (`hung`). Media: uploads in threads, the gallery
on the loop, images imported by URL (`file` says whose objects a row shows: its own, those of
another row, or another site's), a transcode as `Drain`,
`UploadOutputs`, `MarkReady` or `FailTranscode`, product removal in two
transactions; `stored` is the bucket.

### Contact.tla, Analytics.tla and SiteMedia.tla

Contact: `Select`, `Claim`, `Answer`, `Mark`, with a failed mark, a crash, and messages whose
rendering raises (`Unrenderable`, `RenderFails`): the error leaves the row in flight.
Analytics: the log file, the tables built from it and DuckDB, with every read and
rewrite a step of a thread; `lost` remembers the lines that a rewrite overtook. SiteMedia: an admin's request (`ReadSlot`,
`WriteSlot`, `UnlinkOld`) beside the steps of the backfill script, and its rewrite log.

## 3. What the runs show

| run | instance | properties | states |
|---|---|---|---|
| `orders_serial` | 1 order, 2 products (1 ledger-managed, 1 that moves to the ledger), 1 request, all methods and manual actions, up to 2 units per line and 2 crafted later | `StockConserved`, `ShippedFullyAllocated` | 229,720 |
| `orders_concurrent` | 2 orders of 1 managed product, 2 requests | `StockNeverNegative`, `NoUnitLost`, `MiscountedOnlyByOverwrite` | 2,010,554 |
| `orders_double_cancel` | 2 requests | violates `NoUnitPutBackTwice` | |
| `card_settled` | 1 order, 2 sessions, 2 handlers, 1 sweeper, 1 crash, fair | `ThankedOncePerCapture`, `EventuallySettled` | 16,389 |
| `refund_serial` | 3 refunds, 1 admin, 1 delivery, a lost answer, a crash | `RefundsBounded`, `FullyRefundedIsRefunded` | 5,725 |
| `refund_concurrent` | 2 refunds, 2 admins, 2 deliveries, bounces, a dispute, a crash | `PendingHasRefund`, `RefundedIsConfirmed`, `OverRefundedOnlyByRace` | 1,223,731 |
| `refund_abandoned` | 1 admin, 1 sweeper | violates `FailedRefundStaysReviewable` | |
| `background` | outbox: 2 workers, 2 rows of one email, 2 attempts; contact: 2 messages, 1 of which cannot be rendered, 2 drains, 1 fault; analytics: 2 events, 2 threads, 1 stop, 1 erasure; site: 1 slot, 1 section, 1 admin, 1 operator; fair | `OneSender`, `NoNeedlessDuplicate`, `KeepsPromise`, `EventuallyTerminal`; `ContactSettles`; `SourceOfTruth`, `ErasureReaches`, `CaughtUp`; `MediaReachable`, `EverythingMoved` | 247,691 |
| `back_office` | 1 admin; 2 recipes of 2 lines, 1 batch, 1 lot; 1 item, 4 movements, 1 sale; 2 periods of 2 days, 1 order, 2 packages | `ProducedOnce`, `PostingCovered`; `ValuedOnce`, `CancelledCostsNothing`; `ReportedOnce`, `ClosedKnowingly` | 1,980,180 |
| `returns_serial` | 1 order, 1 request, 1 poller, 2 records (parcels and cases), 1 crash, fair | `OneSignalCase`, `RestockOncePerCase`, `KeepsPolling` | 894,816 |
| `storefront` | 2 products, 2 types, 1 campaign, 3 requests served; 1 browser with 2 requests under way, 3 sessions, 5 requests sent; 2 visitors, 2 threads, 4 events in 3 ticks | `DiscountsWellFormed`, `TermsKnown`, `Traceable`; `NothingLeftBehind`, `SignOutIsFinal`; `WindowsKept` | 1,150,386 |
| `media_drained` | 2 products, 2 images, 2 videos, 2 uploads, 1 restart, fair | `MediaKept`, `OnePrimary`, `VideoSettles` | 961,098 |

A "serial" run serves one admin request of the component at a time; it shows what
the code keeps without overlap, and says nothing of the races its bounds leave out. The
concurrent run beside it shows which guarantees survive overlap, and in which steps alone
the others break (`MiscountedOnlyByOverwrite`, `OverRefundedOnlyByRace`); the violation run
shows a promise of the documentation that does not survive it. For inspections and for the
terms of the catalogue such a step is named by a theorem (`OnlyOverlapRestocksAgain`,
`OnlyOvertakenLosesTerms`). Every module states a type invariant (`TypeOK`, `CardTypeOK`, `ShopTypeOK`,
...); those of Orders, CardPayments, Refunds, EmailOutbox and Shop are theorems, the others
can be added to the INVARIANTS line of their run. So can the invariants that hold
and are stated for a reader without being a run's: `KnownParcels` and
`ShippedHasNumber` of Returns, `OneActiveRecipe` and `ActiveRecipesFrozen` of
Production, `CostedOnce` and `EmptyShelfWorthNothing` of Valuation, `ExportVersions` of
Finance, `NothingLost` of the outbox, `NoNeedlessMail` of Contact. All runs say `CHECK_DEADLOCK FALSE`:
a shop with no order left to place and nothing in flight has come to rest.

**Bounds.** Besides the sets, the bounds are the constants named `Max...`. They
cap what is created (`MaxQuantity`, `MaxProduced`, `MaxRows`, `MaxParcels`,
`MaxCases`, `MaxSession`, `MaxOrder`, `MaxImage`, `MaxVideo`, `MaxExports`,
`MaxMovements`), what the environment does to the program (`MaxCrashes`,
`MaxTransient`, `MaxLostAnswers`, `MaxFault`, `MaxStop`, `MaxLoss`), and the length
of a behaviour where nothing else ends it (`MaxChanges`, `MaxSent`, `MaxEvents`,
`MaxTime`). Every race here is between two actors, so two requests, handlers,
threads or workers suffice to show it; two units per line distinguish a line that
is partly allocated from one that is not at all; two orders compete for one unit;
three refunds of a price of 2 include two partial ones and one that no longer
fits. Three requests to the catalogue are a creation or a campaign and the two that meet
over it; five requests of a browser are an item, a sign-in with its callback, and two
that overlap them; three changes to the books and periods are a creation, a
problem, and the close that must see it, and packages are not bounded by them. Four movements of
one item are a receipt, an issue, its reversal and one in between. One
crash is enough to reach each recovery path, since a crash forgets a single actor.
In `orders_serial` two units crafted later complete a line of two after its product moved to
the ledger, so that an order sold before the move and completed after it is cancelled: the
case in which a unit is forgotten. One of the two contact messages cannot be rendered
(`Broken`), so that it can be selected beside the other. `Errand`, `Turn` and `Surface` hold sets of the kinds of events that meet in
one behaviour: kinds that touch nothing in common are not interleaved. The turn of a cleanup beside ingestion
(`"together"`) has rewrites of the log beside appends; erasures run beside others only in the
configurations of the second table below. Sets of
interchangeable values are symmetric, except in runs with liveness.

**Fairness.**
* `FairCardSpec`: weak fairness of the clock and of each step of each sweeper,
  because `payment_reservation_cleanup_loop` catches every exception and sleeps
  60 s between passes. Nothing is assumed of customers, Stripe, admins or handlers.
* Outbox and contact: weak fairness of each worker (`email_outbox_loop` likewise; the
  provider call times out), of backoff and of leases (the clock).
* Analytics: threads advance, and the cleanup loop starts when it is due. Nothing is
  assumed of who reports events or asks for erasure.
* SiteMedia: the script goes on once it runs, and the operator runs it again, not for
  ever as a dry run (strong fairness of `StartLive`): design.md asks for it "until
  re-run is clean".
* Returns: weak fairness of time, of circuits that half-open after their timeout, and of the
  polling loop; strong fairness of an answer to a poll or a refresh, i.e. a courier
  that is asked again and again answers some day. `KeepsPolling` besides supposes that
  circuits are not open again and again for ever.
* Media: weak fairness of the drain loop, of a transcode (it has a time limit) and of
  its lease.

Crashes are bounded, as no loop survives a process that dies for ever.

### Disagreements between code and documentation

Two are runs (see `findings`). The following are kept as configurations with the
property they violate; each gives a short counterexample.

| configuration | property | what happens |
|---|---|---|
| `MCOrders_reopened` | `FollowsStateMachine` | `update_status` (2529) has no condition on the old status: an order confirmed by one admin while another cancels it moves on; the domain document says "cancelled -> no next state" |
| `MCOrders_refund_undone` | `RefundedStaysRefunded` | delivering a COD order sets it paid (2540) even when it was marked refunded on the way; the manual action refuses "Cannot move a refunded payment to paid" (2731) |
| `MCOrders_ledger_move` | `CancelRestoresAll` | cancelling an order sold before its product moved to the ledger and completed after restores only what was crafted since |
| `MCCardPayments_sweep_paid` | `SweeperSparesPaid` | an order paid between the sweeper's SELECT and its UPDATE (`main.py` 240) goes to review |
| `MCCardPayments_retry_reopens` | `RetryReopensOnlyFailed` | a retry that read 'failed' sets 'pending' after the order was paid |
| `MCCardPayments_charged_twice` | `ChargedOnce` | two retries at once hand out two payable sessions |
| `MCCardPayments_late_capture` | `CaptureNoticed` | a capture that races the sweeper's close is ignored without an alert |
| `MCRefunds_excess` | `RefundsBounded` | two requests both find the whole amount refundable |
| `MCRefunds_partial_race` | `FullyRefundedIsRefunded` | two partial refunds confirmed at once, neither handler sees the other's row |
| `MCRefunds_unmatched` | `ConfirmationsRecorded` | an event that overtakes Stripe's answer is consumed as unmatched |
| `MCRefunds_lost_answer` | `FailedMeansNotRefunded` | a timeout makes a refund 'failed' that Stripe made |
| `MCBackground_rewrite_log` | `EveryRewriteLogged` | the backfill script commits a rewrite and stops before it logs it; the next run skips the column, and the log cannot map it back (backfill_media_to_r2.py:32) |

The properties below are stated in their modules, after those that hold. Put
one in place of the properties of the named configuration (drop the SYMMETRY line
for an action property, and qualify it with the instance's name in a sum, as the
MC modules do for the others) to see it fail.

| configuration | property | what happens |
|---|---|---|
| `MCOrders_ledger_move`, `MovableProduct = {}`, `MaxProduced = 0` | `CancelRestoresQuantity` | openspec/specs/order-management/spec.md:65 says "the product's stock SHALL be incremented by the order item quantity"; the code restores what was allocated (2547), so an order of two of which one is still to be crafted gives one back. The code is the sounder of the two: the rest was never taken from the shelf |
| `MCCardPayments_sweep_paid`, `Request = {r1}` | `ReviewNeverShips` | the review guard of `update_status` was evaluated before the sweeper marked the order |
| `MCCardPayments_sweep_paid`, `Sweeper = {w1, w2}` | `StockConserved` | two processes close one order and release its units twice |
| `MCRefunds_serial`, `MayBounce = TRUE`, `Delivery = {d1, d2}` | `FailureIsFinal` | a delayed success overwrites a later failure |
| `MCRefunds_serial`, `Disputable = {o1}` | `DisputeOutcomeKept` | a delayed opening overwrites the outcome of a dispute |
| `MCBackground_claims`, `MaxTransient = 4` | `AttemptsBounded`, `SentStaysSent` (EmailOutbox) | two sweepers that selected one row count attempts from it, and overwrite 'sent' with 'skipped_duplicate' |
| `MCBackground_claims` | `AcceptedStays` (Analytics) | a line appended between the reading of the log and its replacement is lost, though its event was accepted |
| `MCBackground_claims`, `Turn` with erasures and `"stop"`, or `"together"` | `NamesAgree` (Analytics) | an erasure that stopped between the file and DuckDB leaves named rows |
| `MCBackground_claims` | `EveryMessageSettles` (Contact) | a rendering error other than a missing template (contact_service.py:261) counts no attempt: the message is claimed again after every lease, for ever |
| `MCBackground_claims` | `ReplacementStays` (SiteMedia) | the script rewrites a column an admin replaced meanwhile; with two operators `MediaReachable` fails too |
| `MCBackOffice_serial` | `LotNotOverdrawn`, `StockFollowsMovements` (Production) | two lines that take from one lot are each compared with it alone; a correction below zero stops the stock at 0 but not the movement |
| `MCBackOffice_serial` | `CancelledNeverCosts` (Valuation) | an order issued in two parts, or costed before its issue, keeps a cost after its cancellation |
| `MCBackOffice_serial` | `AcceptedAsExported`, `ClosedClean` (Finance) | accepting an old package accepts a period that was reopened; a problem marked resolved does not block, whether or not it is still there |
| `MCBackOffice_serial`, `MaxChanges = 4`, `MaxEvents = 4` | `ReviewSticks` (Books) | importing a Stripe row again undoes the match an admin made by hand |
| `MCBackOffice_serial`, `MaxChanges = 8`, `MaxEvents = 3`, `tlc -simulate -depth 20` | `RefundsReported` (Finance) | a refund confirmed after its order's period is in no package |
| `MCReturns_serial` | `RefusedLeavesNoParcel`, `WithdrawnNotFetched`, `RestockedOnce` | a label whose shipment is refused stays at Econt; a courier is sent for a withdrawn parcel; two cases of one order both restock |
| `MCReturns_serial`, `Request = {r1, r2}` | `RestockOncePerCase` | two inspections of one case both read 'received' (return_service.py:540) and both restock |
| `MCStorefront_serial`, `Request = {r1, r2}` | `TermsKnown` (Shop) | a term is deleted after its uses were counted and before a product that names it is written |
| `MCReturns_serial`, 2 pollers | `OnePoll` | a poll slower than its lease is overtaken by another: the token is never compared |
| `MCStorefront_serial`, `MaxChanges = 4` | `AlwaysAssignable`, `TraceableFiltered`, `NeverClobbers`, `LedgerStockKept` (Shop) | the last type is retired; a campaign with a filter keeps no record of what it wrote; removing a campaign clears a discount set by hand; an update moves the stock of a ledger product |
| `MCStorefront_serial` | `SignedOutListsNothing`, `TokenMatchesCookie` (Visitors) | answers that overtake each other leave a browser with an older cookie |
| `MCStorefront_serial` | `PollWindowsKept`, `StripeWindowsKept`, `StripePerOrder` (Limits) | two threads count polls before either inserts; the row of a retry is not seen while it awaits Stripe, though payment_rate_limit_service.py:104 says "Check all buckets, then record the accepted attempt atomically."; sessions of one order are forgotten after two days |
| `MCStorefront_serial` | `LoopRuns` (Limits) | a retry that deleted rows of two days ago awaits Stripe with the rows locked; the next handler of the loop that deletes them waits in a synchronous call, and nobody is left to resume the retry |
| `MCMedia_drained` | `CopiesKept` | an image imported by the URL of another row's object shares it (product_image_service.py:373): deleting either row takes it from both |
| `MCMedia_drained`, `MaxImage = 3` | `ThumbnailsKept`, `AlwaysOnePrimary`, `GalleryBounded`, `NoOrphanVideo`, `RefusedKeepsMedia` | a thumbnail lent as a poster goes with the video; an upload into an emptied gallery is not primary; two uploads pass the limit; a crash leaves an object; a refused deletion has already removed the gallery |

## 4. What is proved

Most invariants and action properties that a passing run checks, and the refinement
of `SendClaim`, are theorems; the others are named at the end of this section. A theorem holds for every value of the constants that
satisfies the ASSUMEs of the modules, or the assumption it names, which the MC module
assumes; sets may be empty, and infinite where nothing is said. What is assumed beyond
types and bounds:

* `Order`, `Session` and `Key` are finite, because stock, thanks and refunds are sums or
  counts over them;
* no window of a limit that payments or reactions count in is longer than `Retention`:
  the clean-ups delete after two days and a reaction's table after its hour, which is
  what makes a count over what is left a count over what happened;
* values that stand for "nobody" or "none" are not ids (`Nobody \notin Campaign`,
  `None \notin Thread`, `NoSession \notin Session`).

Some theorems name a hypothesis about the environment. Each is the condition
under which the code keeps the promise, and without it TLC finds the promise broken, as
section 3 lists. Where the code does not prevent the overlap that breaks a promise, the
theorem is not about its absence but names the step that breaks it:

| hypothesis | what it says | what breaks the property without it |
|---|---|---|
| `SerialSpec`, `BackOfficeSpec`, `OneRequest` | admin requests of the component do not overlap: one process serves them to their end | two admins cancel one order (`orders_double_cancel`) |
| `"mark_refunded" \notin AdminAction` | no admin marks an order refunded by hand, which is a statement of the admin and not of Stripe | by definition |
| `OneOperator` | the backfill script is run once at a time | `MediaReachable` with two operators |

| theorem | states | argument |
|---|---|---|
| `TypeCorrect`, `StockSafe` (Orders) | `Spec => []TypeOK`, `[]StockNeverNegative` | `StockNeverNegative` is inductive with the type: allocation takes at most what is on the shelf, a release adds |
| `SerialShips`, `SerialFollows` (Orders) | under `SerialSpec`: `[]ShippedFullyAllocated`, `FollowsStateMachine` | `ShippedFullyAllocated` is not inductive: shipping looks at `fulfillment`, not at the items. `SerialInv` adds that ready means allocated, that a shipped order is ready, and that what a request in flight has read still holds; the last is what overlap destroys |
| `NoUnitIsLost`, `OnlyOverwritesMiscount`, `SerialConserves` (Orders) | `Spec => []NoUnitLost`, `MiscountedOnlyByOverwrite`, for any requests, orders, products and moves; served one at a time, `[]StockConserved` | `Balance(p)`, shelf plus held and forgotten less supply, never falls: what an order puts back, and what it is recorded to forget, are together what was allocated to it, since its movements never issued more. It changes only when an order that is already cancelled is written again (`OverwritesCancellation`), which one request at a time excludes. `Total` is the number of elements of a disjoint union of intervals, so the lemmas on sums follow from the library's on finite sets |
| `CardTypeCorrect`, `ThankedOnce` (CardPayments) | `[]CardTypeOK`, `[]ThankedOncePerCapture` | `ThankInv`: the thanks of an order are bounded by its captured sessions whose event is recorded; a completed job is the only one of its session, and its session is not yet recorded, so writing it adds one to both sides |
| `RefundTypeCorrect`, `PendingRefunded` (Refunds) | `[]RefundTypeOK`, `[]PendingHasRefund` | `RefundInv` adds that a request past its insert, a matched event and a delivery in flight have a row, that Stripe knows only refunds with a row, and `ThankInv` for the payments below; `CardPayment` shows that no step of those puts an order in 'refund_pending', and `PaymentLeaves` that whoever ends a pending refund moves the payment on |
| `RefundedConfirmed` (Refunds) | without `mark_refunded`: `[]RefundedIsConfirmed`, for any number of requests and deliveries, with bounces, disputes, lost answers and crashes | `ConfirmedInv`: a succeeded row has an event that Stripe emitted, and a delivery that is about to write 'refunded' counted only such rows, and its own; events are never taken back |
| `OnlyRacesOverRefund` (Refunds) | `OverRefundedOnlyByRace`, for any number of requests and deliveries, with bounces, disputes, lost answers and crashes | the sum of an order's pending and succeeded refunds grows in two steps only: an insert, whose amount fitted when it was counted, and a confirmation of a row that was failed; every other step leaves rows as they are, ends them, or confirms a row that was counted already |
| `OutboxTypeCorrect`, `ClaimsExclude`, `OutboxImplementsClaim` (EmailOutbox) | `[]TypeOK`, `[]OneSender`, `Spec => Promise!Spec` | whoever sends holds an in-flight claim (`ClaimHeld`), so a claim that may be acquired has no sender; each step then maps to one of `Acquire`, `Release`, `Abandon`, `Recover`, or a stutter |
| `OnlyLostIsRepeated` (EmailOutbox) | `[]NoNeedlessDuplicate` | `Accounted`: what was delivered exceeds what went unanswered by one at most, and not at all while nobody knows of a delivery, that is while no claim says 'sent' and no worker is about to record one; an email with a known delivery is not claimed |
| `LogIsSource` (Analytics) | `[]SourceOfTruth`, for any threads, turns and stops | `LogInv`: what a thread has read from the log, or appended, is in the log, past its retention, or lost to a rewrite (`ThreadsSound`); a thread that replaces the file drops only what is old, and what it overtook is what its copy does not have |
| `PicturesReachable` (SiteMedia) | with one operator: `[]MediaReachable` | `SiteInv`: pictures are numbered as they are uploaded, an upload in flight has a number of its own, what an admin is about to unlink is no longer shown (`ReplacedGone`), and what the script has uploaded is there when it rewrites the column (`RunsSound`) |
| `OneSignal`, `OnlyOverlapRestocksAgain` (Returns) | `Spec => []OneSignalCase`, `Spec => RestockedAgainOnlyByOverlap` | the courier signal looks for a case and appends one in the same step, and no other step adds a case of a signal or changes the origin of one; a case that is still 'received' has nothing put back or written off, so an inspection that makes it twice is one that finishes after another |
| `SerialProduces` and `OutputPostedOnce` (Production) | served one at a time: `[]ProducedOnce`, `[]OneActiveRecipe`; the first also of the back office | `ProductionInv` adds what a request in flight has read: the status of the batch it posts or cancels, and the version it activates; it still holds when the request writes, because nobody else moves batches or versions |
| `PostingsCovered`, `NoPostingUncovered` (Production) | served one at a time: `PostingCovered` | `CoverInv` adds that the lines and the usage of a posting in flight are still covered (`EnoughMaterial`). Each line is compared with the sum over all lines of its material (`Required`), so a material that shrinks is one of a line that was covered |
| `ValuedAtMostOnce`, `CostedAtMostOnce` (Valuation) | `[]ValuedOnce`, `[]CostedOnce` | `ValuationInv`: the layers, with those a request in flight is about to add, have one per movement, and likewise the cost rows; the loop adds a layer for a movement that has none (`Grown`, along the recursion of `LoopFrom`) |
| `CancelledIsFreeOfCost` (Valuation) | `[]CancelledCostsNothing` | `LogSound` and `SoldSound`: a cancelled order that was issued once has one reversal, of the issue and of its quantity, so the reversing row has the unit cost and the quantity of the base row and the same total, to the cent and whatever the rounding; `CogsSound` adds that there is one row of each, so the sum has two terms |
| `NothingReportedTwice`, `PeriodsCloseKnowingly` (Finance) | `[]ReportedOnce`, `ClosedKnowingly` | `FinanceInv`: periods do not overlap, an order's period contains its day, a package lists orders of its period's days, only one package of a period is final, and what a request in flight found is still so. A close refreshes before it looks, so each problem of the moment has a row (`Upserted`), and none of those rows is both blocking and open |
| `ShopTypeCorrect`, `DiscountsStayWellFormed` (Shop) | `[]ShopTypeOK`, `[]DiscountsWellFormed`, for any overlapping requests | `ShopInv`: what a request holds between its reads and its writes is well formed too, and a patch is checked against the row it is written over |
| `OnlyOvertakenLosesTerms` (Shop) | for any overlapping requests: a term is lost only in a step that was overtaken since it looked | each request checks a term, or counts its uses, when it starts; unless that was undone when it writes, the write leaves every product with terms that exist |
| `CampaignsTraceable` (Shop) | with one request: `[]Traceable` | `Worn`: a product that a campaign wrote last is one that the live, applied campaign names, with its discount, on its record. The proof attempt refuted an earlier form of `Traceable` that looked at the campaign's present filter: a campaign that applied a filter once and names its products now has forgotten what the filter gave. The history field `filtered` says so |
| `NothingIsLeft`, `SignOutFinal` (Visitors); `NothingStaysBehind`, `SignedOutForGood` of the storefront | `[]NothingLeftBehind`, `[]SignOutIsFinal` | sessions only go forward (`Onward`): one that is used stays used, one that is deleted stays deleted, one that is nobody's because of a sign-out stays nobody's. A session that a sign-in retired is deleted, so every later step of a request in it finds no session to fill a cart for |
| `NoWindowOverflows` (Limits) | `[]WindowsKept`, for any limits, windows, visitors and threads, beside polls and retries under way | `LimitsInv`: what is forgotten is older than any window of its kind (`EventsSound`), and a thread that has counted a contact message holds the lock of its address and there is still room (`ThreadsSound`). A window that ends with an event that others follow is that event's window when it was accepted |
| `MediaIsKept` (Media) | `[]MediaKept` | `MediaInv` adds that the objects of an image that no import took are shown by its own row at most (`NamedOnce`), that the poster of a video is one that was lent (so what goes with a video may include only a lent thumbnail), and that the video the drain works on is neither waiting nor ready until `MarkReady`, with its output stored (so nobody removes the output in between) |
| `PrimaryIsOne` (Media) | `[]OnePrimary` | `GalleryInv`: one primary at most and, unless a gallery was emptied under an upload, one at least; an upload that found images, and will not be primary, still has images to join (`UploadsAdd`); a deletion that takes the primary promotes the first that is left, which exists because orders are numbers |

**Induction.** The induction rules of the library take the predicate as a parameter,
which the installed provers cannot instantiate. An induction over numbers is therefore a
proof by least counterexample: a set of naturals that is not empty has a least member
(`LeastNatural`, from the well-foundedness of < on the naturals). This is how the loop over
the movements and the running sums of Valuation are proved about, as they are recursive
functions on numbers; sums over a set in Orders and Refunds are cardinalities.

Only model-checked: the liveness properties (`EventuallySettled`, `EventuallyTerminal`,
`ContactSettles`, `CaughtUp`, `EverythingMoved`, `KeepsPolling`,
`VideoSettles`), which need fairness and ENABLED; what is kept only while requests, events or
threads do not overlap and is not a theorem (`RefundsBounded`, `FullyRefundedIsRefunded`,
`TermsKnown`, `RestockOncePerCase`, `ErasureReaches`); the invariants that hold and are no
run's (`KnownParcels`, `ShippedHasNumber`, `ExportVersions`, `NothingLost`,
`NoNeedlessMail`, `ActiveRecipesFrozen`, `EmptyShelfWorthNothing`) and the types of the
modules not named above; and the facts about rounding that `PriceBounds` of MCStorefront
evaluates. The violations are counterexamples, which need no proof.

## 5. Not modelled

* **Accounting reports**: sums over rows that Books and Finance already model;
  nothing is written.
* **Inbound email events**: bounces and complaints add suppressions; the
  outbox models a suppressed recipient as a verdict of the sweep.
* **Delivery offers and settings**: catalogues of offices read from files, and price
  quotes; what a checkout accepts of them is in Visitors (`DeliveryAccepted`).
* **Content pages** (about, FAQ, terms, banner, ...): rows edited one at a time.
* **Admin accounts and alerts, request ids, migrations, the frontend, deployment.**
  The pool of connections, whose nested acquisition is bounded by a timeout, and
  the SQLite migration script are among them.
* Within modelled components: documents' and pages' contents, audit rows
  (`payment_events`, `payments.provider_status`), email rendering and admin
  alerts, pixels and codecs, courier labels, tax and VAT columns, claims and fees of
  return cases, units and wastage of recipes, a sweep over several orders at once (the code
  rolls all of them back when one raises), and local updates of an order email
  that fail.
* Between components: production, valuation and the catalogue each model the
  part of a product they read; that they agree on `products.stock` is not checked
  of a composition (`StockFollowsMovements` already fails within Production).

## 6. What could come next

1. Type correctness of the remaining components (Shipping, Production, Finance, Media,
   Visitors), and the invariants that are stated and no run's, as theorems.
2. An abstract specification of the stock (a shelf and holders) that Orders implements.
3. The connection pool with nested acquisition, and the sweep as one transaction.
