# Panelya in TLA+

Panelya is a multi-tenant e-commerce back end (`panelya-api`: Node, Express,
PostgreSQL) with a Next.js dashboard (`apps/web`). Its logic lives in SQL
transactions that many processes run at once: web requests of customers and
administrators, callbacks of the payment provider, and background workers. This
directory models those transactions, checks them with TLC on small instances and
proves, with TLAPS and for every instance, the facts about orders, stock, returns
and webhooks, the prices, the order of the locks and the services beside them.

## Inventory of the system

All paths are relative to `src/panelya-api/`.

| Component | State (tables) | Operations | Interacts with | What makes it correct |
|---|---|---|---|---|
| Order state machines (`services/orderOperations.js`, migration 044) | `orders.status`, `order_status`, `payment_status`, `fulfillment_status` | transition, bulk status, legacy status, database trigger | all writers of an order | the four columns tell one story |
| Stock ledger and reservations (`services/inventory.js`, `inventoryReservations.js`, migrations 041, 042) | `product_variants.on_hand/reserved`, `inventory_movements`, `inventory_reservations` | reserve, consume, release, restock, reactivate, expire, set balance | checkout, callbacks, administrators, expiry worker | no oversell; counters equal what is held; journal determines the rows |
| Coupons (`services/promotionEngine.js`, migration 043) | `coupons`, `coupon_redemptions` | reserve, redeem, release, reopen | orders | usage limit; a use follows its order |
| Price of an order (`services/promotionEngine.js`, `modules/invoicing/taxEngine.js`, `services/paymentProviders.js`) | discounts, tax snapshot, basket | price a checkout | checkout, refunds, provider | quoted, charged and paid are one amount |
| Checkout (`routes/orders.js`, `routes/payment.js`) | orders, reservation, redemption, cart | `POST /orders`, `/payment/initialize` (two transactions around a provider call) | stock, coupons, carts, provider | no order without stock, no stock held for a dead order |
| Payment callbacks (`services/paymentCallbackEvents.js`) | `payment_callback_events` | enqueue, claim, process, retry | orders, stock, coupons | applied once; one verdict for a payment |
| Order notification outbox (`services/orderOperations.js`) | `order_notification_outbox` | deliver pending | e-mail provider | what was sent stays sent |
| Webhooks (`modules/integrations/outbox.js`, `worker.js`) | `webhook_endpoints`, `webhook_endpoint_events`, `webhook_deliveries` | emit, claim, deliver, record failure, disable | every business transaction | an event commits with its cause; bounded retries |
| API keys and idempotency (`modules/integrations/service.js`, `middleware/externalApi.js`) | `api_keys`, `api_idempotency_keys` | claim, complete, rotate, revoke | external clients, plan limits | an idempotency key runs one request; one current key of a rotation |
| Customer notifications (`modules/notifications/`) | outbox, consents | enqueue, claim, send, suppress | e-mail/SMS providers | an opt-out wins over what is queued |
| Carts (`modules/cart/`, `routes/cart.js`) | `carts`, `cart_items`, recovery tokens | add, merge, convert, restore | checkout, order cancellation | an order converts a cart once, as the shopper saw it if it says what that was |
| Imports (`modules/imports/`) and Instagram drafts (`modules/instagram/`) | jobs, rows, drafts | claim, process, finalize | catalogue, plan limits | a row or a post takes effect once |
| Media library (`services/mediaAssets.js`, `scripts/cleanup-media.js`) | assets, references, deletion jobs | upload, refer, queue deletion, clean up | object storage | what is called deleted is deleted, or on the list of what to delete |
| Shipments (`modules/shipping/service.js`) | shipments, shipment items | create, transition, recompute fulfilment | orders | the order says what its parcels add up to |
| Returns and refunds (`modules/returns/service.js`) | returns, refunds | request, approve, receive, refund, exchange | stock, orders, provider | never refunds more than paid |
| Themes (`modules/themes/service.js`) | drafts, versions, publications | save, publish, roll back | storefront cache | what is live is recorded |
| Order claims, changes of address (`services/orderClaims.js`, `customerAuthFlows.js`) | claims, accounts, customers | request, confirm, verify | customers | an order never changes its owner |
| Plans and subscriptions (`services/planLimits.js`, `planVersions.js`, `subscription*.js`) | subscriptions, plan versions, counters | assert capacity, grant, change plan, renew, suspend, cancel, publish | every creation | never above the capacity; only published terms are sold |
| Team and invites (`routes/organizations.js`, `routes/platform.js`) | `organization_members`, `organization_invites` | invite, accept, change role, remove | plan limits | seats of the plan; an invite admits once |
| Custom domains (`services/customDomains.js`, `routes/domain*.js`) | `custom_domains` | add, verify, make primary, disable, release | host resolution, DNS | who serves a hostname proved it |
| Sessions and tokens (`services/authTokens.js`, `modules/security/sessions.js`, `routes/auth.js`) | refresh tokens, sessions | login, refresh, revoke | every request | a session has one live token |
| Second factors (`modules/security/mfa.js`, `routes/security.js`) | TOTP secrets, passkeys, recovery codes, challenges | enrol, prove, regenerate | sessions | a proof works once |
| Reviews and questions (`modules/reviews/service.js`) | reviews, votes, questions, answers, counters | write, vote, moderate | products | counters count |
| Catalogue (`services/productVariants.js`, `modules/catalog/`, `routes/products.js`) | products, variants | product form, bulk edits | stock ledger | a product lists the stock of its variants |
| Migration runner (`scripts/run-migrations.js`, `rollback-migration.js`) | `schema_migrations`, advisory lock | run, take back | every start of a container | a file is in effect once |
| Address book (`services/customerAddresses.js`, migration 056) | `customer_addresses` | create, edit, make default, delete | checkout | a default stays until it is replaced or deleted |
| Dashboard (`../apps/web`) | cookies, tabs, a shared refresh | requests, keep-alive, logout; forms | API | one refresh for a burst of 401s; a session ends for a cause |
| Order desk (`../apps/web/src/components/sections/orders-section.tsx`) | cached rows, selection, preview, forms | select, preview, apply, move, edit tracking data | orders | what is done is done to what was shown |
| Invoicing, blog, sliders, campaigns, wishlists, settings | rows | edits | plan limits, media | validation of single rows |

### Hard behaviours

* **Concurrency.** No table is owned by a process. Every operation is a
  transaction at READ COMMITTED that locks rows with `FOR UPDATE`; what two
  transactions may interleave is decided by which rows each locks and when.
* **Work that is not one transaction.** `/initialize` is a transaction, a call to
  the provider and another transaction. Webhooks, notifications and imports
  claim a row, work outside the database, then write the result.
* **Retries.** Callbacks are delivered more than once and retried by a loop;
  clients repeat checkouts with an `Idempotency-Key`; workers retry with back-off.
* **Crashes.** A process may die between any two statements outside a
  transaction; only time limits and background workers find what it left.
* **Long histories.** A cancelled order may be reopened, shipped, cancelled by a
  late callback and reopened again; each path moves stock and the coupon.

`PROJECT.json` lists each hazard at its line with the property that covers it,
or why none does yet.

## Plan

The order is by how much of the business depends on the part and by how hard its
interleavings are to test.

1. `OrderLifecycle`, `OrderInventory`: orders, stock, coupons, checkout,
   callbacks, expiry, administrators. **Modelled, checked and proved about.**
2. `WebhookDelivery`: outbox and worker. **Modelled, checked and proved about.**
3. `StockAccount`, `StockRefinement`: what the stock promises, and that the
   orders implement it. **Checked and proved.**
4. `OrderReturns`, over the orders and the stock of `OrderInventory`.
   **Modelled, checked and proved about.**
5. The services beside the orders, a module each, composed by `MCServices`.
   **Modelled, checked and proved about.**
6. `RowLocks`: who waits for whom. **Modelled, checked and proved about.**

What the plan has left.

* The type invariants of the services as a theorem of their own (`ServicesTypes`).
  Their conjuncts stand in the inductive invariants, some of them without the
  bounds of the model, which are of no interest beside the proofs.
* Lock orders of the other transactions (carts, imports, notifications) in `RowLocks`.
* An abstract *at-most-once handler* that `PaymentCallbacks`, `ImportJobs` and
  `ApiRequests` implement, as the orders implement the stock account.
* Liveness of the services' queues. Most of them have none to state: a claim of
  an import, a notification or a payment callback is not taken over by anyone.

## Orders, stock and coupons

### `OrderLifecycle`

The rules of one order row, without variables: the transition tables and
`assertTransition`, `projectLegacyStatus`, `legacyChanges`, and the database
trigger `panelya_order_operation_defaults` in both its branches. A row is a
record of the legacy `status`, the three columns and the payment method.

### `OrderInventory`

| Variable | Table or process state |
|---|---|
| `orders` | `orders`: the four status columns and the payment method |
| `orderKey` | `orders.checkout_idempotency_key` |
| `inv.onHand`, `inv.reserved` | `product_variants` |
| `inv.moves` | the idempotency keys of `inventory_movements` |
| `inv.adjusted` | sum of the `adjustment` movements (a history variable over that table) |
| `inv.resv` | `inventory_reservations` with its items |
| `redemption`, `couponOpen` | `coupon_redemptions.status`; whether the coupon is active |
| `checkout` | progress of the `/initialize` request of the order |
| `event` | the `payment_callback_events` row of the order's token |

An action is one transaction. Each of them locks the order or the reservation
first and the variants before it reads a balance, so transactions on the same
rows serialise and one action per transaction is faithful. What the code does in
several transactions is several actions: `InitializePayment`, then one of
`InitializeSucceeded`, `InitializeFailed`, `InitializeAborted` (the process
died), with anything in between.

A helper that throws rolls its transaction back. So each helper (`Reserve`,
`Consume`, `Release`, `Restock`, `Reactivate`, `TransitionOrderInventory`,
`TransitionOrderPromotion`) is the *set* of states it may return, empty when it
throws; an action in whose guard the set is empty is not taken. `Move` is
`applyInventoryMovement`: a key that is already in the journal moves nothing,
which is what makes retries safe and what goes wrong if two different moves ever
share a key.

Abstractions: quantities are 0..`MaxQty` per variant; prices, items' names and
addresses are left out; the movement key of each item is one key for the
reservation, since all items of a reservation move in one transaction; there is
no clock, so any active reservation may be past its time; a batch of the expiry
worker is several single steps; `expectedVersion` is left out because a mismatch
changes nothing; an order has one payment token and one event for it; the
per-customer limit and the first-order rule of a coupon are part of
`CouponUsable` being false at any time.

### Runs

| Run | Instance | What it shows |
|---|---|---|
| `one_order` | one order, every writer, every transition, refusals and races with the provider call, fair workers | `ColumnsAgree`, `JournalMatchesReservation`, `PaidIsDeducted`, `PendingResolves` |
| `two_orders` | two orders, two units, quantities to 2, one coupon use, stock edits | `ReservedIsHeld`, `NoOversell`, `SettlementNeverFails`, `CancelledHoldsNothing`, `CouponWithinLimit`, `StockIsAnAccount` |
| `reopen` | one order of two variants, reopened twice, coupon closed and opened; no refusals, short provider calls | `StockMatchesReservations`, `PaidStaysDeducted` |
| `callback` | violation | see *Disagreements* |

Bounds. One order suffices for the properties that relate the rows of a single
order, because orders meet only in the variants and the coupon. Two orders with
quantities of up to two and two units of stock give both a conflict and a fit.
`MaxRevision` 1 is one reopening, the first time a movement key could be reused;
2 adds the case where the second reopening meets keys of the first. A single order is
enough for `PendingResolves`: orders could only keep each other waiting through
the stock, and `SettlementNeverFails`, proved in general, says they do not. Two variants
in `reopen` make a reservation with one and with two items.

`StockMatchesReservations` and `PaidStaysDeducted` are checked under stated
restrictions, for they fail without them, by what the code does: a late refusal
cancels a shipped order without a restock (`transitionOrderInventory` excludes
shipped and delivered orders) and a later reopening consumes it a second time;
the second transaction of `/initialize` cancels or revives an order whatever
happened to it during the provider call. No document of the repository promises
these two properties without restriction, so they are recorded as hazards and
not as findings.

Fairness. PM2 starts the expiry every ten minutes (`ecosystem.config.cjs`), hence
weak fairness of `ExpireReservation`; a provider call returns, fails or dies with
its process, hence weak fairness of the disjunction of its three endings. Clients,
the provider's callback and administrators are under no obligation, and neither
is the retry of callbacks: it is a script no schedule of the repository runs.
`PendingResolves` (run `one_order`) assumes no more than that: an order whose stock is
held does not wait for payment for ever, with every race of the code in the model. An order
that waits *without* stock, since the second transaction of `/initialize` revived it after its
reservation had expired, may wait for ever: that is `CallbackSettles`, and the reason why
`PendingResolves` speaks of held stock only. The violation in
`callback` is stated under `RetriedSpec`, which also grants that somebody runs the
script: even then the event is never processed.

### The stock account

`StockAccount` says what the stock promises to orders in four moves: an order
*takes* units off the account, *settles* its claim, *gives* all of it *back*, or
somebody *counts* the free units of a variant. No reservations, revisions,
movements or keys. `StockRefinement` maps the tables to it (free units are
`onHand - reserved`, a claim is the reservation row), and `StockIsAnAccount`, the
account's specification under that mapping, is a property of the run
`two_orders`. It fails if any transaction, with its retries, reopenings and
skipped movements, moves units twice, moves those of two orders in a step, or
gives back part of a claim.

### Theorems

`OrderInventoryProofs` begins with the facts about tables and trigger (rows stay
rows; a legal change keeps status and columns in agreement). It then proves, for any set of orders, variants and keys, any quantities and any choice
of the deployment constants, the twelve theorems of it listed in `PROJECT.json`. Ten of them
assume only what `OrderInventory` assumes of its constants.

The argument. `IInv` is the conjunction of `TypeOK`, `Sound(inv)`,
`CouponWithinLimit` and, for every order, `OrderFine`. It is
`FineExcept({})`: `FineExcept(R)` leaves out of the set `R` of orders the one claim
that a paid order has consumed its stock, and each lemma is proved for any `R`, so that
the proofs about returns use the same lemmas. `Sound` joins *the counter
is the number of units held*, *held units are on hand* and *the journal agrees
with the rows*. None of the three is inductive alone. If a movement were skipped
because its key exists, the row would change and the counter would not; the
journal conjunct shows that the key `<<kind, order, revision>>` is new at each
point where the code moves stock. If the counter were below the held units, a
release could throw; and `CancelledHoldsNothing` needs the release in
`transitionOrderInventory` to be reached whenever a reservation is active. There
is a lemma for each helper (`ReserveSound`, `ConsumeSound`, ...,
`TransitionSound`), one per action, `NextFine`, and the theorems. Units are counted as
elements of a finite set (`Units`), so a sum over orders becomes the
cardinality of a set and no induction is needed.

The last part of `OrderInventoryProofs` proves `StockIsAnAccount` for every value of the
constants. Each operation of `inventoryReservations.js` has a lemma that says
which move of the account it is, or that it leaves the account alone; the
invariant of the core supplies what the moves rest on (the key of a movement is
new, so it is not skipped, and an active reservation was never restocked).

Two theorems are conditional, as the runs are. `PaidStaysDeductedHolds` assumes
`~ProviderCallRaces`, nothing else touches an order while its provider call is under
way; `StockMatchesReservationsHolds` assumes in addition that the provider refuses no
payment (`Outcomes \subseteq {"paid"}`). The section before says by which steps of the
code both fail without. `QInv` is what they add to `IInv`: every order is `Undisturbed` (an
unpaid one whose call is under way is pending with an active reservation, a callback
comes after the call that gave the token, a restocked order is cancelled), and, if the
provider refuses nothing, `Settled` (a cancelled order is not counted as sold, a queued
event says paid), and the shelf is a count of the units sold (`ShelfIn`). The shelf needs
`Settled` because a restock is counted only if the row it takes back was consumed and not
yet restocked.

Only model-checked: `PendingResolves` (liveness is outside what the prover handles).

## Webhooks

### `WebhookDelivery`

| Variable | Table or process state |
|---|---|
| `endpoints` | `webhook_endpoints`: status, `consecutive_failures` |
| `deliveries` | `webhook_deliveries`: status, `attempt`, `max_attempts`; `none` is no row |
| `workers` | what `processWebhookDeliveries` holds between its statements |
| `accepted` | history: rows whose receiver answered with a 2xx |
| `faults` | crashes, errors, slow answers and overtaken workers so far, a bound |
| `trusted` | history: no live worker was overtaken, no acknowledgement lost |

`EmitEvent` and `EnqueueTestDelivery` run in the transaction of the business
change. A worker's life is `Claim` (one `UPDATE ... SKIP LOCKED`),
`LoadDeliveryContext`, `SendWebhook` or `SendTooLong`, and `RecordResult`; the
last three happen inside one transaction that idles while the request is under
way. `DatabaseError`, `RecordUnacknowledged` and `SendTooLong` lead to the catch,
`RequeueAfterError`. `Crash` leaves the row locked. `SetEndpointStatus` and
`RetryDelivery` are the administrator's.

There is no clock: back-off is not modelled, and a waiting row may be claimed at
any time. A lock is stale when its worker is gone; a lock that goes stale under a
live worker is a fault of its own (`Overtaken`), and so is a commit that succeeds
and is reported as failed (`RecordUnacknowledged`). After either of these two
`trusted` is false for good. A secret that is missing or unreadable is one of the
permanent failures.

The run `webhooks` checks `OneSender`, `DeliveredWasAccepted`,
`ActiveIsBelowThreshold`, `AttemptsWithinBudget` and `DeliveryEnds`: two events for one endpoint, two
workers, one fault, an administrator. Two rows share the failure streak; two
workers are needed for a takeover, and a third could only repeat what the second
does to a row; two attempts, threshold two and one extra attempt per manual retry
reach the limit, the switch-off and the extension. `AttemptCap` ends the counting
where errors would count for ever.

What holds only while `trusted` does so because of the code: an overtaken row has
two senders and the slower one writes over the result of the other, since the
update names the row and not the claim; after a lost acknowledgement the catch
puts a delivered row back to `retry`. And a crash, error or slow answer costs an
attempt that no limit is compared with: a receiver whose every answer comes later
than the database lets a transaction idle (`db.js:16`, 15 s; the client's own
10 s limit is one of inactivity) is retried without end and never disabled, although
the comment at `066_integration_platform.sql:140` says a dead receiver is.

Fairness. Every process runs the worker on a timer and the claim takes the row
that waited longest, hence strong fairness of claiming each row; a worker's own
next step is taken because every call in it has a time limit.

### Theorems

`WebhookDeliveryProofs`, for any number of events, endpoints and workers. In
every state: `WebhookTypes`, `WebhookDeliveredWasAccepted` (strengthened by *a
worker about to record a success has been answered*) and
`WebhookActiveIsBelowThreshold`, which needs only that counting and comparing are
one step. While `trusted`: `WebhookOneSender` and `WebhookDeliveredStays`, both
from `Custody`, that is `OneSender` together with *a busy worker's row says
processing*. Neither half is inductive alone: a claim of a waiting row is safe
because nobody busy holds a waiting row, and a result may be written because
nobody else is busy with the row.

`WebhookAttemptsWithinBudget` counts attempts against the budget, also only while
`trusted`. It is not inductive by itself: an attempt begins in one step and its result is written
in another, so `Budgeted` says for each status what an attempt may still cost (a
waiting row is below its budget, `Due`). `RETRY_BUDGET` is assumed to be at
least 1, as the code's extension of a dead delivery is. `DeliveryEnds` is model-checked only:
it is liveness.

## Returns and refunds

`OrderReturns` EXTENDS `OrderInventory`: its steps are those of the orders and
their stock, and in addition what `modules/returns` does to the same rows. All
of it is one transaction per endpoint, so one action per endpoint and decision.

| state | code |
| --- | --- |
| `requests` | `return_requests` with the quantities of `return_items`, in order of insertion |
| `refunds` | `refunds` with the item and shipping rows of `refund_allocations` |
| `orders`, `inv` | the order and the stock of `OrderInventory`, which these handlers change too |

| action | code |
| --- | --- |
| `CreateReturnRequest` | `createReturnRequest`: eligibility by fulfilment, units left of a line |
| `RejectReturnRequest`, `ApproveReturn`, `ApproveExchange`, `ApproveCancellation` | `decideReturnRequest`; a cancellation cancels the whole order and its stock, an exchange inserts a replacement order that reserves stock |
| `ReceiveReturnRequest` | `receiveReturnRequest`: part of the units go back on the shelf |
| `CreateRefund` | `createRefund` with `calculateRefundQuote`; it writes two columns of the order directly, past the state machine, so only the trigger sees it |

Money is in cents and rounds as the code rounds. `RequestedTotal` and
`OrderTotal` are the two sides of the quote; prices include their tax. A line is
a variant. The provider is the manual one, the only one the code has, whose
refunds succeed when they are inserted.

Run `returns` has one customer order of up to three units of one variant, with
a price of 2, a line discount of 1 and a shipping fee of 1, two requests and
three refunds: enough for three refunds of one unit each, whose rounded
discounts do not add up to the discount of the line, for a rejected request
between two others' units, for a refund under the second request after one
under the first, and for an exchange. A second customer order would share only
stock with the first. A state constraint keeps to it, and keeps replacement
orders at paid or cancelled: they are shipped like any order, which
`OrderInventory` is about. Administrators move the `order` column and use the
legacy endpoint; callbacks and the payment pages are left to the core's runs.

* `RequestedWithinOrdered`: over all requests that are not rejected.
* `RefundedWithinApproved`: over all requests and refunds of an order. The code
  keeps it by an over-strict guard, which run `second_return` shows.
* `RefundedWithinPaid`: the cap is what holds when roundings add up, and the
  shipping fee is refunded once across the requests of an order.

Not in the model: the return window (a request that is too late is one not
made), attachments, taxes that are added to prices, the refund's idempotency key
(a replay returns the row it finds and changes nothing), two lines exchanged for
the same variant.

### Theorems

`OrderReturnsProofs` proves the type invariant, the three properties and
`StockSoundWithReturns`, for any orders, lines, prices, quantities, requests and
refunds. It assumes what the two modules assume of their constants, in particular
`ReturnsAssumption`, that no line is discounted below nothing, and `LinesAssumption`, that
there are finitely many variants.

The invariant of the core is not one here: an exchange inserts an order that is paid
while its stock is only reserved. `ReturnsInv` therefore holds the core's
facts as `FineExcept(Replacements)`, and `StockSoundWithReturns` states what of them survives: all
but *a paid order has consumed its stock*, which replacements break. The other
conjuncts are `RowsStand` (a request belongs to a placed order, a refund to a
request, and a request that is undecided has no replacement) and the three properties.

A step of the orders keeps the properties because the lines of a placed order never
change (`OrdersStay`, a lemma for every action of `OrderInventory`); a step
of returns because requests only go on (`RequestsGoOn`: quantities
approved or received stay within those requested, and never shrink under a refund). Sums are
counted as the elements of finite sets: `UnitsIn` has an element for each unit of a request
or a refund, `Cents` one for each cent, so that *at most* between sums is a set that
embeds in another, and no induction over lines is needed. `RefundedWithinPaid` rests on
the cap of `calculateRefundQuote`, which compares with what earlier refunds
really gave, whatever their roundings.

Nothing about this module is model-checked only.

## The services beside the orders

Each of these modules is one component with its own state, `...Init`, `...Next`
and specification. They share no row with each other, so `MCServices` composes
them by choice: a behaviour picks one `part`, and the others rest in an initial
state. The part `locks` (`RowLocks`) looks at transactions of the order core
itself, from the side of the row locks they take. What two components do share is
modelled where it matters: the order core has the stock, coupon and order rows of checkout, callbacks and returns;
`PaymentCallbacks` lets others move the order it works on (`OthersMoveOrder`),
`Shipments` lets an administrator do so (`ChangeOrder`), `OrderDesk` anybody
(`Elsewhere`).

Where a request is a transaction of several statements, it is cut into actions
at the points where another transaction can come between: before it waits for a
row lock, an advisory lock or a unique index, and after a read that takes no
lock. Under READ COMMITTED each statement sees what is committed when it starts,
and that is what the action reads. An aborted transaction leaves nothing. Time
(leases, expiry dates, back-off) is a step that may happen at any moment. A
history variable is marked as such at its declaration; no guard reads one.

### Messages

| Module | State | Property | What could break it |
|---|---|---|---|
| `Notifications` (`modules/notifications`) | alert subscriptions, consents, suppression, outbox rows, workers, the product's price | `OptOutWins`, `NotifyCustody` | an opt-out between queueing, claim, check and a retry; an error after the provider accepted; two workers |
| `OrderMail` (`services/orderOperations.js`, migration 044) | the mail rows of one order, mailers with a batch each | `SentStays`, `CopiesAreExplained` | a lease of ten minutes that runs out under a slow mailer, which still sends and whose late result meets the other's; mail that went out and counts as failed |
| `PaymentCallbacks` (`services/paymentCallbackEvents.js`) | event rows, the order's status, processes | `OneVerdict` | contrary events at once, an answer read before the order is locked, a failure written after another process succeeded |

### Catalogue and content

| Module | State | Property | What could break it |
|---|---|---|---|
| `ImportJobs` (`modules/imports`) | a job, its rows, workers | `RowAppliedOnce` | lost acknowledgements, retries and cancellations while a worker holds a row |
| `InstagramDrafts` (`modules/instagram`) | a draft, its post, workers, edits | `ProductsAreAccountedFor` | an edit that read before an application and writes after it; forced analyses |
| `MediaLibrary` (`services/mediaAssets.js`, `routes/upload.js`, `routes/media.js`, `scripts/cleanup-media.js`) | an image, its objects in storage, references, jobs, cleaners | `DeletedIsListed` | deletions that fail, take effect without an answer, or are taken over; jobs that do not name their image |
| `ThemeVersions` (`modules/themes/service.js`) | versions, publication records, editors' views and requests | `LiveThemeIsRecorded` | publication and rollback that read the live version before either replaced it |
| `Reviews` (`modules/reviews/service.js`) | reviews, votes, a question with answers, counters | `CountersMatchRows` | recounts whose snapshot is older than the row they wait for |
| `ProductStock` (`services/inventory.js`, `productVariants.js`, `routes/products.js`, `modules/imports/worker.js`) | variants, the product's stock and status, requests | `ShelfMatchesVariants` | a product form or an import against a movement; overtaken sums, an import that takes none |

### Platform

| Module | State | Property | What could break it |
|---|---|---|---|
| `ApiRequests` (`routes/v1.js`, `middleware/externalApi.js`, `db.js`) | requests of one idempotency key, its row, the quota counter | `KeyRunsOnce` | a commit that fails after the response, time-outs, closed connections |
| `ApiKeys` (`modules/integrations/service.js`, `services/planLimits.js`) | keys, advisory locks, administrators' requests | `OneCurrentKey`, `CreatedWithinPlan` | two rotations of one key, a revocation in between, the limit read before the lock |
| `CustomDomains` (`services/customDomains.js`, `routes/domains.js`) | domain rows, challenges, DNS, canonical domains | `HandOverIsProven` | an old proof after the hostname changed hands |
| `Subscriptions` (`services/subscription*.js`, `planVersions.js`) | subscriptions, trials, plan versions, grants, publications | `SoldVersionsArePublished` | two publications at once; a grant that outlasts the version it resolved |
| `StoreTeam` (`routes/organizations.js`, `routes/platform.js`) | members, invites, seat lock, requests | `SeatsWithinPlan`, `InviteAdmitsOnce` | two acceptances for the last seat; an invite replaced while it is accepted |
| `Migrations` (`scripts/run-migrations.js`, `rollback-migration.js`) | files of the images, `schema_migrations`, the advisory lock, processes | `MigratedOnce` | containers that start together, a list read before the lock, a rollback in between, a crash |

### Customers

| Module | State | Property | What could break it |
|---|---|---|---|
| `AuthSessions` (`routes/auth.js`, `services/authTokens.js`, `modules/security/sessions.js`) | sessions, refresh tokens, row locks, requests | `OneLiveToken` | a refresh against a replay, a revocation or a logout of the same session |
| `DashboardSession` (`apps/web`) | the server's session, the cookies, tabs, the refresh each shares, requests | `RefreshIsShared`, `SessionEndsForCause` | staggered 401s, keep-alives, lost answers, a second tab |
| `Carts` (`modules/cart/service.js`, `routes/payment.js`) | carts, checkouts | `OneOrderAsSeen` | two checkouts of a cart, an edit or a merge between page and order, a retry after a failed payment; clients that send no `cart_version` |
| `OrderClaims` (`services/orderClaims.js`, `customerAuthFlows.js`) | accounts, customers, guest orders, tokens | `OwnerStays` | two confirmations, a change of address to that of a guest order |
| `AddressBook` (`services/customerAddresses.js`, `routes/customerAddresses.js`, migration 056) | addresses, row locks, requests | `DefaultStays` | two requests that move one default, a deletion in between, a unique index or a deadlock that breaks one off |
| `OrderDesk` (`orders-section.tsx`, `routes/orders.js`) | order rows, the dashboard's cached list and detail, selection, preview, forms, requests | `MovesAreAsShown`, `PreviewIsOfSelection` | rows moved by others, a preview answered late, a form opened long ago |
| `SecondFactors` (`modules/security/mfa.js`, `routes/security.js`) | TOTP secrets, passkeys, recovery codes, challenges, requests | `CodesWorkOnce` | the same code twice at once, a regeneration meanwhile |
| `OrderPricing` (`services/promotionEngine.js`, `modules/invoicing/taxEngine.js`, `services/paymentProviders.js`) | one checkout, its prices, what it charged | `PricesAgree` | rounded shares, stacked discounts, clamps |
| `Shipments` (`modules/shipping/service.js`) | the order, parcels, carriers' requests | `FulfilmentMatchesShipments` | two parcels moved at once, returns, failed and lost parcels |

`OrderPricing` is pure: its one action evaluates the code's functions on a cart,
and TLC takes every cart of up to `MaxLines` lines over a few prices, campaigns,
coupons, fees and tax policies, including those whose halves of cents round. The
basket the provider is sent leaves out lines that cost nothing; in the model they
stay in the list as 0, so that a line keeps its position.

### The run `services`

It checks the properties above for every part in one run: about 462,000 states to
depth 30, about three minutes with two workers. Properties of the same kind
are joined: `ServicesTypes` (a type invariant per part), `CustodyIsKept`
(`NotifyCustody`, `SentStays`, `CopiesAreExplained`), `AppliedOnce` (`RowAppliedOnce`, `MigratedOnce`,
`InviteAdmitsOnce`, `KeyRunsOnce`), `CredentialsWorkOnce` (`OneLiveToken`, `CodesWorkOnce`,
`RefreshIsShared`, `SessionEndsForCause`), `WithinPlan` (`CreatedWithinPlan`,
`SeatsWithinPlan`), `AggregatesMatchRows` (`CountersMatchRows`,
`ShelfMatchesVariants`), `ActsAsSeen` (`OneOrderAsSeen`, `MovesAreAsShown`,
`PreviewIsOfSelection`), `HoldingsStay` (`OwnerStays`, `DefaultStays`).
`DeadlocksAreKnown` joins `CheckoutsSerialize` and `SettlementsSerialize`, of the
part `locks`: see "Who waits for whom". Each conjunct has a mutant of its own.

Bounds. Every part has two workers, requests or users on one contended row, and
what a third would do to a row the second does already; `ApiRequests` has three
requests, so that one may meet what a first and an abandoned second left, and
`ApiKeys` three, for two rotations and a creation. The workers of most parts, and
rows nothing tells apart, have the same names, and permuting them is the symmetry. The counters:

* attempts: `NotifyAttempts` 1 with `NotifyRetry` 2 more by hand, `RowAttempts`,
  `DraftAttempts`, `JobAttempts` 2, where the code has 3 to 10: the last attempt
  and one before it are the two cases its conditions tell apart;
* faults (crashes, overtaken leases, lost acknowledgements, failed commits): 2 of
  mails, imports and API requests, 1 of notifications, drafts and media;
* what people do: 3 choices (the third without a fault) and one sign-up of a recipient, 1 forced analysis, 3
  challenges for a hostname of two stores (claim, release, claim by the other),
  3 subscriptions, 2 drafted versions, 1 edit, 4 theme versions, 2 claims of an
  order, 3 addresses, 1 move of each of two orders, 2 invites and 1 addition under no limit or 2 seats, 1 change of an order;
* data: 2 price levels, 1 unit of each of two variants, carts of at most 1 unit
  and 3 versions, 2 units ordered, 3 lines of 3.00 or 10.00 and so on, two time
  steps, 2 files of 2 contents, 3 pairs of tokens and 2 in the dashboard.

The constraint `FewSteps` cuts what adds states and no case: more than three
products of one draft, shipments after an administrator changed the order by
hand (nothing is promised then), two unrelated counters of a product at once,
grants that overlap beside a publication (which one grant alone meets as well), a
login of the dashboard that is over, bulk moves interleaved with the form of one
order, which meet in the rows alone, and two transactions that are neither
settlements nor checkouts.

All of this is safety. Most of the queues promise no progress: a claimed import
job, a notification that is processing and a failed callback stay as they are when
their process dies, until a person acts.

### Theorems

`MessageServices`, `CatalogueServices`, `PlatformServices` and `CustomerServices` put several
of these modules into one name space, so that one module of proofs can speak of them, and join
their properties as the run does; they define nothing else. `MCServices` extends all four. Each
theorem holds for any number of workers, rows, requests and people and any bound, and each
part of it rests on an inductive invariant of its own. What the property alone does not say:

| Theorem | Invariant | Why the property is not inductive |
|---|---|---|
| `OptOutWinsHolds`, `CustodyIsKeptHolds` | `NotifyInv`, `MailInv` | a held message must say `processing` and have one holder (`EachHasItsOwn`), or a claim could meet a row another worker is about to send; and whoever can be written to now must be among the allowed (`AllowedIfCanSend`) when the check is made; of a mail, what went out, the mailers that may still send it and its next claim are together at most one more than the reasons (`Covered`) |
| `OneVerdictHolds` | `CallbackInv` | the verdict is taken from the status read under the lock, so the holder must be alone and know the status (`LockedKnowsOrder`) |
| `ProductsAreAccountedForHolds` | `DraftInv` | a second application is excluded only because the analysis is alone on its draft and draft and post are applied together |
| `DeletedIsListedHolds` | `MediaInv` | every object of an image needs a job before the image can be called deleted, and a completed job means a gone object; a job without the image's id is one the upload left |
| `LiveThemeIsRecordedHolds` | `ThemeInv` | between the locks and the record of a publication the old version may be archived already; the invariant says what each request knows and that locked rows are apart |
| `AggregatesMatchRowsHolds` | `ReviewInv`, `StockInv` | a recount or a sum in progress that nobody overtook has to equal what its commit makes the rows (`SumIsSeen`) |
| `AppliedOnceHolds` | `ImportInv`, `MigrationInv`, `TeamInv`, `CallInv` | a migration's list is read under the lock and stays true from its position on (`SessionIsAlone`); an invite is looked at under its lock |
| `KeyRunsOnceHolds` | `CallInv` | the holder of a key is the one request whose effect may be uncommitted |
| `OneCurrentKeyHolds`, `WithinPlanHolds` | `KeyInv`, `TeamInv` | room counted under an advisory lock stays until the lock's holder used it |
| `HandOverIsProvenHolds` | `DomainInv` | a proof is one of a challenge that was issued after the last hand-over |
| `SoldVersionsArePublishedHolds` | `SubInv` | a publication has its draft to itself (`DraftsAreHeld`) and writes only if the version it replaces is still the one on sale (`OneOnSale`); a grant has resolved a published version before it pins it |
| `CredentialsWorkOnceHolds` | `SessionInv`, `FactorInv`, `DashboardInv` | who is about to use a token or a code has it locked and knows it unused; in the browser, the pairs of tokens are handed on in order (`PairsAreHandedOn`): one that was not stored yet is the newest and nobody else has it, one that was stored is in the cookies or followed by a newer one |
| `ActsAsSeenHolds` | `CartInv`, `DeskInv` | a page, a form, a preview or a write keeps a version; the row is at that version only with the contents seen then (`CheckoutFollows`, `Copied`) |
| `HoldingsStayHolds` | `BookInv` | a request that has cleared a default is about to set it on a live row it holds, in the same transaction (`EditHolds`); of claims, each step alone keeps the owner |
| `FulfilmentMatchesShipmentsHolds` | `ShipmentInv` | a recomputation that changes the legacy status alone would be undone by the trigger; `MovedByParcels` lists the rows an order can be in, and from none of them one does |
| `PricesAgreeHolds` | `PricingInv` | the variables alone do not say that the prices are those of the checkout beside them; the rest is arithmetic over its lines (`SharesAddUp`, `BasketAddsUp`) |

The assumptions on constants say that the code's nulls are not values (`NoMessage`, `NoKey`,
`Nobody`, `NoAdmin`, `NoRecruiter`, `Unheld` and their like are no message, key, container, person
or request), that rows of different tables differ (`TablesAssumption`), that bounds are natural
numbers, and that the order desk offers a status to move to (`TargetAssumption`). The model
checker evaluates them on every run.

Two theorems compare sums over sets and need no induction: `StockInv` compares sums over equal rows,
and `ShipmentInv` that a sum depends on the rows it adds up (`UnitsAgree`) and is 0 over none
(`NoUnits`).

Prices need one. `LinesTotal` and the remainders of `AllocateDiscount` are recursive functions over
the lines of a cart. The induction theorems of the library take a predicate, which the provers cannot
fill in; `SetInduction` in `CheckoutProofs` takes the *set* of the lengths for which a claim holds,
which they can, and follows from the least member of its complement (`WFMin`). By it a total is a
natural number, it is monotone and additive line by line, and the last line that takes part in a
discount takes exactly what rounding has left. `PricesAgreeHolds` follows from `PricingInv`: what
stands in the variables is what `PriceCheckout` makes of a typed checkout, of any length.

Model-checked only: `ServicesTypes` as a whole (its parts are conjuncts of the
invariants above, some without the model's bounds).

### What the models showed without a property

These follow from the code and no document of the repository contradicts them, so
they are stated here and in the comments of the modules, and not as findings.

* `PaymentCallbacks`: a process that committed and then failed to read the
  customer for the mail marks a processed event failed; it is run again, and the
  guard on terminal states makes that harmless.
* `Subscriptions`: two grants that overlap for a store whose subscription has
  ended leave two live ones. A change of plan by the platform renames the plan and
  keeps the pinned version (`routes/platform.js`). A change at the end of the
  period, a cancellation at its end and the trial of a store that signed up after
  migration 058 are recorded and never carried out by the worker.
* `ApiKeys`: a rotation asks for no capacity; the old key counts until somebody
  revokes it.
* `ApiRequests`: what a handler does after its request timed out opens a
  connection nobody gives back.
* `StoreTeam`: an addition by the platform asks for no seat; a change of role
  writes over whatever the row has become since it was read.
* `AuthSessions`: a refresh does not extend a session, which ends thirty days after
  its login.
* `OrderDesk`: the version is compared by every write and raised by lifecycle
  columns only, so the later of two forms of tracking data opened at one version
  writes over the earlier; and a save that succeeds closes whatever form is open
  by then.
* `AddressBook`: the limit of 20 addresses is counted without a lock.
* `ProductStock`: the sum may be stale after two movements overlapped, or after an
  import made a variant active without moving it, until the next sum; the property says
  exactly when. (The counts of `Reviews` are, too; a comment says otherwise, see run
  `rating`.)
* `Carts`: a client that sends no `cart_version` orders the lines of its request
  whatever the cart has become; `OneOrderAsSeen` compares lines for the others.
* `MediaLibrary`: an upload whose commit succeeded without an answer leaves jobs that
  do not name the image, so the image may be called deleted before its objects are gone.
  `DeletedIsListed` says that these objects are still on the list of what to delete.
* `OrderMail`: a mail may go out twice: after ten minutes a second mailer takes up a batch the
  first still works on, and a mail whose record fails is sent again. `CopiesAreExplained` counts
  the reasons.
* `/payment/initialize` (`routes/payment.js:418`): a failed initialization clears
  the order's idempotency key and the reservation keeps its copy of it, so a retry
  with the same key meets the reservation's unique index and is refused.

## Who waits for whom

`RowLocks` looks at the transactions of the order core from the side: not what they write but
which rows they lock, and in which order. `work` says for each connection what it does, the list
of its locks and how many of them it has. `TakeLock` takes the next one unless another
transaction has one that clashes with it; `End` is the commit or an error; `AbortDeadlocked` is
PostgreSQL ending a circle. The lists are those of the code:

| Action | Code | Locks, in order |
|---|---|---|
| `Settle`, `Reopen` | `transitionOrderOperation`, callbacks, approved cancellations | [request,] order, reservation, variants ascending, products, redemption[, coupon] |
| `Adjust`, `AdjustDefaults` | `setInventoryBalances` | variants ascending, products; entries without a variant come first, as they came |
| `BeginCheckout` | `POST /orders`, `/payment/initialize` | limit of the plan, coupon, share of each variant as in the cart, variants ascending, products |
| `Compensate` | second transaction of `/initialize` | reservation, variants, products, redemption, order |
| `Expire` | `expireInventoryReservations` | the reservations nobody has, at once; then for each: variants, products, order, redemption |
| `Exchange`, `Receive` | `modules/returns/service.js` | request, order, then as a checkout; request, variants as received, products |
| `EditProduct` | product form | product, its variants in no order |

Locks have the three strengths the code uses (`FOR UPDATE`, what an `UPDATE` of other columns
takes, and the share of a foreign key), and `Clash` says which exclude each other. The products
are updated by one statement in an order it does not say, so `ListsOf` gives them every order.

`SettlementsSerialize` says that callbacks, administrators and stock edits can deadlock over
products only, and `CheckoutsSerialize` that checkouts cannot, when the plan limits the orders of
a month and the advisory lock of the limit comes first; `DeadlocksAreKnown` joins the two. All the
other mixtures can deadlock, among them an expiry and a callback: the model has those states, and
nothing is claimed of them but `LocksAreHeld`. PostgreSQL's abort then ends one transaction with
an error, which its caller sees.

The comment at `services/inventoryReservations.js:69-70` says more: "This query locks every
requested stock unit in ascending variant order. Concurrent checkouts therefore serialize without
deadlock or oversell." With `OrdersLimited = FALSE`, a plan or an override whose limit is 0, TLC
finds two checkouts of one variant in a deadlock. Both have inserted their order items
(`routes/payment.js:325`, `routes/orders.js:512`), whose foreign key
(`db/migrations/038_tenant_composite_fk_rls.sql:188-192`) shares the variant, and each then waits
for the other's share with its `FOR UPDATE`. The test of concurrent reservations
(`test/integration/tenant-rls.test.js:1248`) inserts no order items.

In the run `services` there are two transactions, two variants of a product each, and two orders,
one of both variants and one of the first: enough for two transactions to meet on every row, and
not for circles of three. Two that are neither settlements nor checkouts are not taken further
(`FewSteps`). Both are left to the theorems, which hold for any number of transactions, orders, variants
and products. The invariant `LockInv` says that each transaction has a first part of a list of
locks, that lists of settlements ascend (`Ascending`, `Place`), that lists of checkouts begin
with the limit, and that no two have clashing locks. From it:

* `DeadlocksAreKnownHolds`: of the settlements in a circle take one that waits at the last place
  (`LeastNumber`). The holder of that lock waits too, and further on, unless both locks are of
  products. Of checkouts in a circle, a holder and a holder it waits for would both have the lock
  of the limit.
* `LocksAreHeldCorrect`: an expiry run gets its reservations at once, so the invariant needs that
  its guard looks at all locks of all others; that the joined lists of its batch are lists of
  locks again is an induction over the batch (`FlattenRows`).

The assumption `LockAssumption` says that orders are finitely many, that the variants of a
reservation are variants and that each variant has a product.

Left out: rows only one transaction reaches, transactions with a single lock, carts, customers,
imports and notifications, and the shares of products, with which nothing here clashes. The queue
in which PostgreSQL serves waiting transactions is not modelled either; any of them may be next.

## Disagreements between code and documents

Six runs end in a counterexample, and `PROJECT.json` quotes the lines.

* `callback`: the README says a callback moves an order to paid or cancelled. If
  the reservation expires during the provider call, the second transaction of
  `/initialize` makes the cancelled order pending again; a paid callback can then
  never consume the reservation, and every retry of it, which nothing bounds, fails.
* `second_return`: a refund is refused when it exceeds what was approved, says its
  message. It is also refused when it does not: quantities refunded for other
  requests are subtracted from this request's own quantity.
* `restock`: a test's title and a note in the dashboard say that stock comes back
  by inspection only. Approving a cancellation restocks the order, and its
  receipt, which the dashboard hides and the API accepts, restocks it again.
* `cart`: a comment says a failed checkout hands its cart back. When the customer
  has another active cart by then, a unique index refuses that, the compensation
  rolls back, the order stays pending with its stock and the cart stays converted.
* `rating`: a comment says the rating a product shows never drifts. Of two moderations of
  two reviews at once, the one that waits for the product row writes what it counted before.
* `line_discount`: a test's title says the discount of a line never exceeds it. A
  campaign on all lines and a coupon on some of them are shared out apart from each
  other, and may together exceed a line; the tax snapshot clamps the line, so the
  buyer is charged more than was quoted.

## Not modelled

* **Reads and validation.** Lists, filters, exports and statistics, the shape of
  request bodies, texts, sanitizing, formats of files (`modules/imports/formats.js`,
  `modules/themes/schema.js`, `swagger.js`): functions of one input without a
  protocol, which the repository's unit tests reach. A failed validation is, in
  every model, an action that is not taken.
* **Tenant isolation.** Row-level security is enforced by policies of PostgreSQL
  (migration 038). Every model is of one organization, except where rows of
  several compete (`CustomDomains`).
* **Input and output.** Uploads, image processing, storage, e-mail, metrics,
  logging, rate limits, headers. Their failures are actions of the models that
  call them.
* **Dashboard.** Rendering, forms and tables over the API are about a third of the
  implementation's lines (`apps/web`). Most keep no state but the session, which
  `DashboardSession` models, and the rows on the screen; where acting on old rows
  matters most, at the order desk, `OrderDesk` models it. Together with the item above this is
  why the definitions map well under a third of all lines.
* **Rows edited one at a time.** Blog, slider, campaigns, size guides, wishlists,
  store settings, categories and collections: a statement each, whose
  last writer wins.
* **Code that nothing runs.** Billing events are stored and no code processes them;
  reminders of abandoned carts have no delivery adapter and no consent is ever set
  (see `Carts`).
* **Seeds and one-off scripts.** Demo data, back-fills, cleanup of workspaces.

## Running

    tlc -workers 2 -config MCOneOrder.cfg MCOrderInventory
    tlc -workers 2 -config MCServices.cfg MCServices
    tlapm OrderInventoryProofs.tla
    tlapm OrderReturnsProofs.tla
    tlapm CheckoutProofs.tla

A run takes at most about three and a half minutes with two workers. Each module of
proofs takes from half a minute to a few minutes.
