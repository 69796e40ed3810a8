# A TLA+ verification of the marketplace API

The program is a NestJS API over PostgreSQL, RabbitMQ and Redis. Buyers check
out; every order puts a row in a job table and an event in a transactional
outbox; a relay publishes the event; a consumer applies its effect once. Order
status changes are streamed to watching clients, and product cards are cached
and refreshed after orders. Listings, an idempotency cache and the list of orders
live in the memory of each API process; sessions and rate limits in Redis. This
project models those parts statement by statement, checks them with TLC on small
instances, and proves with TLAPS, for every value of the constants, the safety
properties of all of them and that checkout implements a one-step purchase.

## 1. Inventory

Paths are relative to the repository root.

| Component | State | Operations | What is hard | What makes it correct |
| --- | --- | --- | --- | --- |
| Checkout (`src/checkout/`, `src/common/with-retry.ts`) | `products.stock`, `users.balance_cents`, `orders`, `order_items`, `jobs`, `outbox`, `idempotency_keys` | `checkout`, `insertCheckout`, `findCommitted`, `withRetry` | row locks of concurrent transactions, repeats of a key, retries, a lost COMMIT answer | nothing sold twice or lost, order/job/event together, one order per call and per key, no deadlock, every call ends |
| Outbox relay (`src/messaging/outbox-relay.ts`, `order-placed.publisher.ts`) | `outbox.published_at`, `attempts`, row locks; the broker's queue | `publishPending` | stops between confirm and mark, two relays at once, a lost session | at least once; duplicates only from faults |
| Consumer and effect store (`order-placed.consumer.ts`, `effect-store.ts`) | unacked messages, `order_placed_deliveries`, `order_placed_effects`, `processed_messages` | message handler, `applyEffect`, `recordDelivery`, `markAcked`, `stopConsumer` | SIGKILL between effect and ack, redelivery while the old handler still runs | one effect per event, no message lost |
| Topology (`topology.ts`) | exchange, queue, binding, dead letter queue | `assertTopology` | publishes before the binding | lost messages are exactly those |
| Job queue (`src/jobs/`) | `jobs` | `claimJob`, `completeJob`, `runWorker` | overlapping workers, an empty SKIP LOCKED result, a failing holder | each job done once, return means drained, workers end |
| Orders service (`src/orders/orders.service.ts`) | in-memory idempotency cache and order list; `orders.status` | `create`, `list`, `getById`, `updateStatus` | cache read before and filled after several awaits, lost on restart, keyed by header while the database keys by account; commit and publish in different orders | the cache agrees with the key rows, one order per account and key, an account is shown only orders it paid for, the bus follows the table |
| Order events (`order-events.service.ts`, SSE controller, gateway) | id sequence and replay buffer of 50 per order, subscriptions, rooms | `publish`, `replayAfter`, `streamEvents`, `join` | events between replay and subscription, lost connections, ids that restart with the process | no gap and no repeat, only readers see events, clients catch up |
| Product card cache (`src/catalog/`) with the rating queue and worker (`src/queue/`) | Redis entries, single-flight lock, BullMQ jobs | `getCard`, `refresh`, `enqueueRecalc`, `process` | stale write after refresh, expired lock, dead holder, retried jobs | one load at a time, waiters outlast the lock, settled cards are current, everything ends |
| Rate limiter (`src/ratelimit/`) | Redis sorted set per handler and client | `canActivate`, `consume` | several processes with their own clocks, commands resent after a lost answer, whole seconds of `Retry-After` | the limit holds in every window, nobody is refused early, a client that waits as told gets in |
| Sessions (`src/session/`) | a Redis key with a TTL per session | middleware, guard, `create`, `me`, `end` | renewal racing deletion and expiry | a deleted session stays deleted, a used one alive |
| Listings and store (`src/store/`, `src/listings/`) | in-memory maps | `create`, `update`, `list`, `paginate` | the list changes between two pages, the cursor's item disappears | a client that follows the cursors misses nothing and sees nothing twice |
| Clients, shell, seed, demos, operations scripts | none of their own | set-up and I/O | – | not modelled |

How they interact: `CheckoutService` commits rows of `jobs` and `outbox` in the
transaction of the order. `JobQueueService` takes jobs from the first table,
`OutboxRelay` takes events from the second and is the only one that talks to
RabbitMQ; the consumer reads from the broker and writes the effect tables.
Each pair shares only a database table or a queue. `OrdersService.updateStatus`
publishes to the in-process bus, to which SSE responses and the gateway
subscribe. After an order `OrdersService` adds a rating job per product, whose
worker refreshes the card that `ProductCardService` serves. `OrdersService.create`
finds the product of a listing, calls `CheckoutService` and keeps the answer in
`StoreService`, which `ListingsController` changes at the same time. Every request
passes `SessionMiddleware` and `RateLimitGuard` before its handler. `PROJECT.json` lists, under
`hazards`, the line at which each hard behaviour bites and the property that
covers it.

## 2. Modules

| Module | Role |
| --- | --- |
| `Checkout` | `CheckoutService.checkout` under READ COMMITTED, any number of concurrent calls |
| `CheckoutAtomic` | the abstract specification: each call takes effect, or is refused, at one instant |
| `CheckoutRefinement` | the refinement mapping from the first to the second |
| `MCCheckout` | TLC instances of `Checkout` |
| `CheckoutProofs` | types, lock order, no deadlock, sums, atomic outbox, idempotency; the refinement step by step |
| `SumTheorems` | lemmas: sums over finite sets, least and greatest numbers |
| `OutboxPipeline`, `MCOutboxPipeline`, `OutboxPipelineProofs` | relay, broker, consumer, effect store |
| `JobQueue`, `MCJobQueue`, `JobQueueProofs` | the job table and its workers |
| `OrderEvents`, `MCOrderEvents`, `OrderEventsProofs` | status updates, event bus, SSE clients, socket.io rooms |
| `ProductCards`, `MCProductCards`, `ProductCardsProofs` | the card cache with its lock; rating jobs, workers and the sweep |
| `Catalog` | the in-memory store, the listing handlers, pages and a client that walks them |
| `Orders`, `MCOrders`, `OrdersProofs` | `OrdersService.create` and `list`: extends `Catalog`, instantiates `CheckoutAtomic`; the proofs about both |
| `ApiGuards`, `MCApiGuards`, `ApiGuardsProofs` | session middleware and guard, rate limit guard and script, session handlers |

### Checkout

A row of `products` or `users` is `[val, draft, owner]`: the committed version,
the version of the transaction holding the row lock, and that transaction. A
statement filters by what it can see, waits while another transaction owns a
row that passes the filter, and filters again afterwards, as PostgreSQL does
at READ COMMITTED. One action is one statement that can meet another
transaction:

| Action | Code |
| --- | --- |
| `Call` | argument checks at the head of `checkout` |
| `FindCommitted`, `FindAgain` | `findCommitted` before the transaction, and after `IdempotencyReplayError` |
| `UpdateProduct`, `OutOfStock` | `UPDATE products ... RETURNING` for the next of `itemsInLockOrder`; a quantity beyond int4 is an error, not `OutOfStock` |
| `DebitBalance`, `DebitRefused` | `UPDATE users ... RETURNING`, the int4 range error included |
| `InsertOrderRows` | INSERTs of order, items, job, outbox row; `failAfterOutbox`; the `order_items_uniq` violation |
| `InsertKey` | `INSERT idempotency_keys ... ON CONFLICT DO NOTHING`, waiting for a concurrent holder of the key |
| `Commit`, `CommitAckLost` | COMMIT, and COMMIT whose answer is lost |
| `RetryableFault`, `FatalFault` | an error `withRetry` retries, and one it rethrows |

The four INSERTs are one action since no other transaction can see their rows
or be made to wait by them before COMMIT. Foreign keys take key-share locks
only on rows the transaction already owns. `jobId` in the result, the times of
rows and the texts of errors are left out. Product ids are numbers in the order
their strings compare.

### OutboxPipeline

`row` holds the outbox table with its locks, `relay` one `publishPending` call
per relay (`Claim`, `Publish`, `Mark` per row, `CommitBatch`, and after a failed
publish `BumpAttempts`). The transaction is rolled back, with every mark in it,
by `PublishFails`, `RelayFails` and `SessionLost`; the message that was in flight may or
may not reach the broker. A publish that fails after the session was lost counts as
an attempt all the same. A call begins with `Claim`, the rest of it is `CallStep`. `queue` and `dlq` count the copies of an event. `slot` is a
handler of a consumer: `received`, `recorded`, `applied`, `acked`, and `held`
while the broker still counts on its answer. After `StopConsumer` a handler goes
on without its message, and its answer on the closed channel ends the process
(`AnswerOnClosed`). `ConsumerDies` covers SIGKILL, the loss of the channel or
the connection (neither has an `error` listener) and a failing `markAcked`,
whose nack or reject names a message already settled. Poison events have no
outbox row: the demos send them with `publishRaw`. `InsertRow` is the COMMIT of
`Checkout`. The model has no delivery limit: the quorum queue's (20) counts
crashes of consumers, not `nack` with requeue, as the repository's README says,
and 20 crashes are beyond every checked bound. Reaching it would dead-letter the
message, which `NoEventLost` allows.

RabbitMQ and PostgreSQL themselves are not in the repository; they are modelled
from how the code uses them: durable queue, confirms, requeue of unacked
messages when a channel goes, row locks, unique constraints.

### JobQueue

`job` holds the rows with their lock owner, `pc` the place of each worker in
the loop of `runWorker`: `ClaimJob`, `ClaimNothing`, `CompleteJob`,
`CountPending`, and `WorkerFails` for an error at any query, at COMMIT with
either outcome.

### OrderEvents

`upd` is a call of `updateStatus`: `UpdateStatus` (the check of the status),
`LoadOrder`, `UpdateRow` (which waits for the row lock), `CommitStatus` and
`PublishStatus`. `stream` holds `nextId` and the buffer of each order. An SSE
request is `Connect`, then after the awaited check `StreamEvents`: replay and
subscription run without an await between them and are one step. Frames wait on
`wire` until the client reads them (`Receive`), which sets the `Last-Event-ID`
it sends the next time; `Disconnect` loses them. `CheckFails` is a failing query of
the check: the answer is 500, after which an `EventSource` stays closed. `Join` and `JoinRoom` are the
gateway's handler. `Restart` loses buffers, ids, connections and running calls;
the transactions that were at COMMIT may have committed. Who may read an order is
the constant `CanRead`, the outcome of `loadAuthorizedOrder`, whose inputs (buyer
and seller of an order) never change. `epoch`, `raced`, `seen` and `heard` are history.

### ProductCards

A card is the number of committed changes of the product's rows it was read
after. `get` is a call of `getCard`, one action per Redis or SQL call. Time is
counted in polls: a `Tick` is `WAIT_POLL_MS`, in which locks age and sleeping
waiters wake; any other step takes any time, so a holder may outlive its lock.
`PlaceOrder` is the COMMIT of a checkout, followed by one `AddJob` per product,
which may fail (the code only logs it). A worker refreshes the products of its
job one by one (`RefreshLoad`, `RefreshWrite`); `JobFails` is a rejected job with
attempts, `WorkerDies` a job that BullMQ finds stalled. A sweep that dies is not
resumed in the model: doing it again is the same as the next sweep. `Evict` is
the end of a card's TTL or `allkeys-lru`, `EvictLock` the eviction of a lock, which is
a key of the same Redis. `AcquireResent` is a SET NX whose answer is lost and which
ioredis sends again: the call then waits for its own lock. Histories: `lostTo`,
`inTime`, `expired` (the lock of the call ran out or was evicted), `overlapped` (cards
on their way while another one is) and `unsure` (the last write of the product
overlapped or failed; a write that overlaps none clears it). Left out: missing products (a cached `found: false` behaves as any
other card), the limit of `HOT_PRODUCTS` and a worker that is alive but counted
as stalled.

### Catalog and Orders

`Catalog` holds the three maps of `StoreService`; the maps whose order a page
shows are sequences. `CreateListing` and `UpdateListing` are the handlers of
`ListingsController` (one step each: they do not await), `paginate` the page cut
for both list endpoints, and `walk` one client that asks for page after page with
limits of its choice (`StartWalk`, `NextPage`). Listings changed, archived or lost
between two pages are the point of it. Refusals with 403 or 404 change nothing and
are no steps. Prices of listings are left out: an order is priced by the product.

`Orders` splits `create` at its awaits: `Create` (role, cache, first item),
`FindProduct` (a query per item, then the next listing as it is at that moment),
`ResolveBuyer`, `Checkout`, and the synchronous tail: `AnswerFresh`,
`AnswerRefused`, or for a replay `LoadReplay` and `AnswerReplay`. `QueryFails`
is a rejected query at any of these awaits. The checkout is `Place` or `Refuse` of
`CheckoutAtomic`, which `Checkout` is proved to implement: this is how the two
components are composed without the statements of the first. In particular a
checkout may be placed and still end as an error, when the answer to COMMIT was
lost. A caller is the header string; `resolveUser` maps an alias, an email or an
id to an account (an id in any decimal spelling: `Numeral`), so that the cache (keyed
by header) and the key rows (keyed by account) can disagree. The cache key is the
string `${userId}:${idempotencyKey}`, and the cache is read before the buyer is
resolved. The concatenation is modelled as one (`Join`): headers that name an account
hold no colon and are told apart (`AccountsApart`), but a header that names nobody may
join with its key to the cache key of a buyer, and is then answered 201 with that
buyer's order if the body is the same. The repository's README.md:164 calls the key
together with `user_id` the key of the intent; the database keeps to that for every
header. Item rows of a replayed order come in any order. `Restart` empties the store, leaves the database, and lets
checkouts that were sent go on; for a walk, only the seeded listings that were not on
sale arrive anew. There is one API process at a time: a second
process has a store of its own and meets the first only in the database, like the
process after a restart. `UpdateStatus` is the committed row only (`OrderEvents` has the rest)
and the rating jobs of a fresh order are `AddJob` of `ProductCards`.

### ApiGuards

`req` is a request and the Redis command it waits for: `touch` (GETEX of the
middleware), `script` (the limiter's Lua script) and `handler` (SET, TTL or DEL of
a session handler). What runs between two commands without an await is part of
the step before (`Guarded`, `Handle`). Redis's `clock` is the reference; a process is
`Skew` ahead of it and reads its clock when it sends the script, at most `MaxDelay`
before the script runs. Keys expire by Redis's clock: sessions TTL after their last
GETEX or SET, a bucket a window after the last entry was added. A command may fail, carried out
or not (`SessionFails`, answered 500), the limiter's failure is swallowed
(`ConsumeFails`), and a script whose answer is lost is sent again with the same
member and time (`ConsumeResent`, `maxRetriesPerRequest: 2`). A bucket is a
handler with a user or, without a header or with an empty one, an ip. A session
route without its header is answered 400 by the validator of the OpenAPI document. `log`, `deleted`, `used` and some fields of `req`
are history. The guard fails open, the middleware does not: with Redis down a
limited handler answers, unless the request has a session header. A clock that is set back, and Redis losing its keys in a crash, are left out.

## 3. Runs

| Run | Shows |
| --- | --- |
| `checkout` | three checkouts over every kind of input, faults at every statement: `Conserved` (stock and money add up), `OneOrderPerCall`, `OutboxMatchesOrders`, `LocksInOrder`, `NoWaitCycle`, `OneOrderPerKey`, `ReplayNamesFirstOrder`, `TypeOK` (nothing negative), and `ActsAtOneInstant`: the statements implement `CheckoutAtomic` |
| `checkout_live` | `CallsEnd`: every call that starts ends |
| `checkout_twins` | a violation: see the first finding |
| `checkout_replay` | a violation: see the second finding |
| `outbox_pipeline` | `NoEventLost`, `EffectOnce`, `DuplicatesNeedFaults`, `TypeOK` with two relays and two consumers |
| `outbox_live` | `EventuallyHandled`: every `publishPending` call ends; rows get published if a relay is called again and again; events the broker was given are applied or dead-lettered if a consumer stays up |
| `job_queue` | `ProcessedOnce`, `DrainedOnReturn`, `JobsEnd` |
| `order_streams` | `NoGapNoRepeat` (what a client reads over all its connections), `BusFollowsTable` (the newest event is the row's status), `CaughtUp` (a client that reconnects reads the newest event in the end), `OnlyReadersSee`, `TypeOK` (the buffer's limit), for two orders, two SSE clients and a socket |
| `card_lock` | `SingleFlight`, `WaitersOutlastLock` and `CardsSettle` (reads end, locks go away) for three readers of one product, with cards and locks evicted |
| `card_refresh` | `SettledCardIsCurrent` and `CardsSettle` (jobs end) with two orders of a product, two workers, a sweep and a reader |
| `orders` | `CacheAgreesWithKeys`, `SameKeySameOrder`, `PaidByCaller`, `WalkMissesNothing`, `WalkRepeatsNothing`, `TypeOK` (quantities never negative) for three concurrent orders, one of them with a header that names nobody and a colliding cache key, while listings and pages change |
| `guards` | `AtMostLimitPerWindow`, `RefusesOnlyOverLimit`, `RetryAfterIsEnough`, `EndedStaysEnded`, `ActiveNeverLoggedOut`, `TypeOK` (a bucket never holds more than its limit) for four requests at two processes |

Some of these properties name the cases in which the code gives no promise.
`BusFollowsTable` exempts an order whose last commit came between the commit and
the publish of another update, or whose COMMIT failed at the caller: the bus then
shows another status than the table until the next update. `SettledCardIsCurrent`
exempts a product whose last write overlapped another load or whose last SET failed:
an old card may then stay for its TTL. The code does not prevent these races. Both
properties say that nothing else breaks the agreement, and that the next commit or
write that meets no other one restores it.
`SingleFlight` exempts a call whose lock ran out or was evicted.
`SameKeySameOrder` speaks of headers that name an account; `PaidByCaller` promises a
header that names none only that the order it is shown exists.
`CaughtUp` exempts a client whose check was answered 500, since it does not come back.
`NoGapNoRepeat` allows a gap when the buffer has dropped the event, and after a
restart allows events up to the client's old cursor to be missed.
`AtMostLimitPerWindow` allows the window to be shorter by what the processes'
clocks differ and by the delay of a command: that is all the callers' clocks cost. It
says nothing of requests let through while Redis does not answer.
`RefusesOnlyOverLimit` counts the refused request's own first run when its script was
resent: such a request may take the last place and then be refused for it.
`WalkRepeatsNothing` exempts a walk whose cursor was no longer in the list, where
`paginate` starts again; nothing is missed even then (`WalkMissesNothing`).
`PaidByCaller` says that what is listed is the
caller's own; that everything is listed the code does not promise, since the list
is in memory and keyed by the header.

Bounds. *Checkout*: three calls, so that a third can act between the two that
race; two active products, enough for opposite lock orders, and an inactive
one; stocks and balances that let some orders through and refuse others;
`MaxAttempts = 2`, so that a retry both succeeds and runs out; `MaxFaults = 2`,
so that the retry itself may fail; `PgIntMax = 8`, a small stand-in for
2^31 - 1 that the total of one input and the quantity of another pass. Calls are interchangeable, so `checkout`
uses symmetry. *Pipeline*: two outbox rows and `Limit = 2`, so that a
batch fails in its middle; one poison event; two faults, so that a relay's and a
consumer's can combine; `Prefetch = 1`, two consumers giving the concurrency of
handlers. The liveness run has one consumer and one fault. *Job queue*: four
jobs, three workers with overlapping ids, two faults, so that one worker is left.
*Order events*: a buffer of two stands for 50 and is passed by the
updates; two orders, one of which a client may not read; three updates, so that two can race and a later one follow; two faults, so that a client reconnects after a restart. *Product cards*:
`LockTtl` of one to three polls stands for 250, with `WaitPolls = LockTtl` as in
the code; three readers, so that a waiter and a second holder meet; two faults,
so that a job runs out of attempts. The readers' run has no orders: a refresh takes
no lock. *Orders*: three calls, so that a third comes after two that race; one
account under two headers and another one, two bodies for one key, an unknown
buyer and a wrong role, and two posts of different headers and keys with one cache key; three listings, one archived; `MaxEvents = 4` requests and
restarts together, so that two orders of a key leave room for a restart and a listing
change between them, or a listing change for a walk of three pages. Calls are
interchangeable, so it uses symmetry. *Guards*: four requests against limits of one
and two; a window of 3 ticks, of which a second is 2, so that `Retry-After` must
round; a TTL of 2 and 5 ticks of time, so that windows slide, buckets and sessions
expire; clocks one tick apart, a delay of one, one fault.

Deadlock is checked in every run but `orders` and `guards`, which follow a
finite set of requests and rest when all are answered and the bound on time or
events is reached. `AllDone`, `AllEnded`, `AllQuiet` and `EmptyClaim` are the ways
the other systems may rest.

Fairness. *Checkout*: weak fairness of each call's own next statement; a
statement that can run is run by the event loop and the database, and one that
waits for a lock is not enabled. Clients need not call and faults need not
happen. *Job queue*: weak fairness of each worker's loop. *Pipeline*: weak
fairness of `assertTopology`, of what is left of a `publishPending` call once it has
claimed its rows, and of delivery to and the handlers of each consumer that is up.
Nothing in the repository calls `publishPending` again: only one-shot demos call it
(`demo-outbox.ts:29`, `demo-crash-relay.ts:29,40`, `demo-crash-write.ts:33`). Nothing
restarts a consumer either. So neither `Claim` nor `Restart` is fair, and
`EventuallyHandled` states the two conditions instead, as hypotheses of its conjuncts:
fairness of the claims of some relay, and a consumer that is up from some time
on. *Order events*: weak fairness of each update's steps
and of each client: the server goes on with a request, frames arrive, and an
`EventSource` whose connection is lost connects again by itself. *Product cards*: weak fairness of
time, of each `getCard`'s next call, of adding jobs and of each worker; nobody
needs to read, order or fail.

Each property of a passing run has a mutant in `PROJECT.json`: a plausible
mistake (no `SKIP LOCKED`, no check of the inserted key row, locks in request
order, an unconditional debit...) that makes TLC report that property.

## 4. Findings

1. `SameKeySameAnswer`. `openapi/openapi.yaml:146-147` says that the same key
   with the same body returns the same answer. When the repeat overlaps the
   first call it has already passed `findCommitted`; its `UPDATE products`
   waits for the first call's row, then finds no stock, and the repeat is refused
   with `OutOfStock` although the first was answered with an order. What the code
   does keep is proved: the key buys once.
2. `UnitPricesAligned`. The comment of `itemsInLockOrder` says that unit prices
   stay aligned with the items. They do in a fresh answer; a replay reads them
   in the order of `order_items.id`, which is the lock order.

## 5. Proofs

Every invariant that a run checks, and the refinement, is a theorem `Spec => [](...)`
or `Spec => ...` of its specification.

| Theorem | States |
| --- | --- |
| `CheckoutProofs!TypeCorrect` | `TypeOK`: no stock or balance is negative, committed or draft |
| `!LocksAreOrdered`, `!CheckoutsDoNotDeadlock` | `LocksInOrder`, `NoWaitCycle`: one lock order, and no finite set of calls waits in a circle |
| `!NothingIsLost` | `Conserved`: stock and money add up |
| `!OutboxIsAtomic`, `!RetriesBuyOnce` | `OutboxMatchesOrders`, `OneOrderPerCall` |
| `!KeysBuyOnce`, `!ReplaysAreFaithful` | `OneOrderPerKey`, `ReplayNamesFirstOrder` |
| `!CheckoutsAreAtomic` | `ActsAtOneInstant`: `Checkout` implements `CheckoutAtomic` |
| `OutboxPipelineProofs!PipelineTypeCorrect`, `!EffectsHappenOnce`, `!EventsAreNotLost`, `!DuplicatesAreBounded` | `TypeOK`, `EffectOnce`, `NoEventLost`, `DuplicatesNeedFaults` |
| `JobQueueProofs!JobsAreDoneOnce`, `!ReturnMeansDrained` | `ProcessedOnce`, `DrainedOnReturn` |
| `OrderEventsProofs!EventsTypeCorrect`, `!StreamsHaveNoGaps`, `!BusAgreesWithTable`, `!OnlyReadersAreSent` | `TypeOK`, `NoGapNoRepeat`, `BusFollowsTable`, `OnlyReadersSee` |
| `ProductCardsProofs!LoadsAreSingleFlight`, `!WaitersWaitLongEnough`, `!SettledCardsAreCurrent` | `SingleFlight`, `WaitersOutlastLock`, `SettledCardIsCurrent` |
| `OrdersProofs!OrdersTypeCorrect`, `!CacheIsBackedByKeys`, `!OneOrderPerAccountKey`, `!OnlyBuyersSeeOrders` | `TypeOK`, `CacheAgreesWithKeys`, `SameKeySameOrder`, `PaidByCaller` |
| `OrdersProofs!WalksAreComplete`, `!WalksDoNotRepeat` | `WalkMissesNothing`, `WalkRepeatsNothing` |
| `ApiGuardsProofs!GuardsTypeCorrect`, `!LimitHoldsPerWindow`, `!NobodyIsRefusedEarly`, `!RetryAfterSuffices` | `TypeOK`, `AtMostLimitPerWindow`, `RefusesOnlyOverLimit`, `RetryAfterIsEnough` |
| `ApiGuardsProofs!LogoutIsFinal`, `!ActiveUsersStayLoggedIn` | `EndedStaysEnded`, `ActiveNeverLoggedOut` |

They hold for any sets of calls, products, users, keys, relays, consumers,
events, jobs, workers, clients, readers, listings and requests, for any inputs
and for every value of the bounds (faults, restarts, time). The assumptions are
the named `ASSUME`s of the modules, which TLC evaluates on every run:

* names: product ids, events and jobs are ordered as numbers; `NoOne`, `NoKey`,
  `NoHash`, `NoPost`, `None` and the like are not members of the sets they are
  used with, and readers of cards are not workers;
* data: prices are positive, initial stocks and balances are not negative, and
  inputs have the types the controllers let through. An order posted to the
  API has a key and at least one item, as the OpenAPI document requires; two
  accounts share neither id nor email, an email is not a number, and headers that name an
  account, joined with their keys, stay apart (`AccountsApart`: no alias, email or number
  holds a colon);
* the seeded listings have distinct ids, none above their number (ids go on from
  there), and new listings and patches have the types of their fields;
* limits: `BUFFER_LIMIT`, `MAX_ATTEMPTS`, the batch limit, the prefetch, windows,
  TTLs and rate limits are positive, clocks are ahead by a natural number, and the
  limited handlers are among those without a session guard.

The inductive invariants, and why they are needed:

*Checkout.*
* `TypeInv` adds to `TypeOK` that a call past its argument checks has valid
  items (`CallsOK`), without which a decrement could be negative.
* `LocksInv` adds which lines a transaction has priced, in lock order
  (`LinesOK`), and that it owns product rows of those lines only, its own user's
  row only after the debit and nothing outside a transaction (`LocksOK`). There is
  no cycle of waits because in a finite set of waiting calls the one that waits for
  the greatest product can wait for nobody in the set: all it could wait for own
  only rows before theirs. A call that waits for a user row or a key waits for one that
  no longer waits for products. That a finite set of numbers has a greatest one is
  `GreatestNatural` of `SumTheorems`.
* `MoneyInv` adds that a draft is what the owner's lines leave of the row
  (`DraftsOK`). The sums over orders and over lines are handled by lemmas that add
  or change one element (`SumTheorems`, from the fold of the community modules).
* `OrdersInv` adds that order ids are below the sequence, pairwise different
  among open transactions and committed orders, and that a call with a
  committed order is done (`IdsOK`); a retried or repeated commit would break it.
* `KeysInv` adds that a key row belongs to the order of its call and that at
  most one open transaction has inserted a key, which is then uncommitted
  (`KeysOK`).
* `BillInv` adds, for the refinement, that the lines of a transaction are exactly
  the items no longer pending and that each is charged at the price of its row.
  So an `UPDATE` that finds too little stock, or a debit refused, says so of the
  whole order against the committed rows, as `CheckoutAtomic` demands, and COMMIT takes exactly
  what the order costs. Each action then maps to a step or a stutter
  (`CallMaps`, `NoRowMaps`, `OutOfStockMaps`, `DebitRefusedMaps`, `ReplayMaps`, `CommitMaps`,
  `ThrowMaps`, `RollbackMaps`, `StutterMaps`, put together in `StepMaps`).

*OutboxPipeline.* `EffectInv` adds that a handler has recorded its delivery, and
past `applied` its effect exists (`SlotsInv`). `LossInv` adds that the broker waits
for answers of running consumers only, so that a handler which ends its process
takes no unanswered message with it (`ChannelInv`), and that what a relay has
published in its open transaction is kept (`RelaysInv`); the lemma `SafeStays` shows
that no step of anybody loses what is kept. `CopyInv` adds that a relay at work holds
the locks of its batch and nobody else does (`LockInv`), and accounts for
every copy of an event: it is the one its row records or a relay is about to
record, or it was paid for by a fault, those still to come from a lost
session included (`CopiesInv`).

*JobQueue.* `QueueInv` adds that a worker holds a job exactly when it owns the lock
of its row, and the row is pending (`LocksHeld`).

*OrderEvents.* `TypeInv` adds that a buffer holds the newest events, numbered in a row
(`StreamsOK`), and where the updates are (`UpdatesOK`). `WatchInv` says the same of
what is on the wire of an open stream, and that rooms are of readers. `ReadInv` adds that the
cursor is the id of the last frame and the wire goes on after it, or with the
oldest event the buffer had (`SeenOK`). `BusInv` adds that, unless two
commits met, at most one committed update is unpublished and the row has its status.

*ProductCards.* `FlightInv`: who is under the lock owns it unless it expired or was evicted. `CardInv`
adds which job and product a worker is on. `WaitInv` counts polls against the age
of the lock. `CurrentInv`: the writers of a product follow one another, and what is
written is current unless a job is still to come.

*Orders.* `OrdersInv` keeps apart the database (`KeysOK`: whoever placed an order owns its
key alone, a replay names that owner), what `create` holds, caches and answers
(`AnswersOK`), and the list (`ListedOK`). `WalkInv` says, by the rank of an item in the filtered
list, that all items up to the cursor were shown unless they arrived
during the walk, and that items shown are at or before the cursor unless it strayed.

*ApiGuards.* `SessionInv`: a session lives a TTL after its last use until it is
deleted. `RefuseInv`: the entries of a bucket are admissions in the log, one per
request (`EntriesOK`). `WindowInv`: admissions too young for any process to prune are
in their bucket, whose key does not expire while they are (`LogOK`). `RetryInv`: after a
refusal, and while nobody is admitted, the bucket has room at the end of
`Retry-After` (`RetryOK`).

Only model-checked: the liveness properties `CallsEnd`, `EventuallyHandled`,
`JobsEnd`, `CaughtUp` and `CardsSettle`. They rest on fairness, hence on `ENABLED`,
which the provers do not handle. Induction over data is out of their reach
too: the proofs use finite sets with a least or greatest element, cardinalities and
one-step lemmas about sums instead.

## 6. What is left

A composition of `Checkout` with `OutboxPipeline` through `outbox` would add
little: `InsertRow` may already happen at any time.

Not modelled: connection set-up, bootstrap, error formatting and logging hold no
protocol state. Seed, report and demo scripts are sequential, run by hand, and
drive what is modelled; `resetQueues` and `EffectStore.reset` are their calls
before they start. Backups, secrets and the pooler are scripts and configuration
around PostgreSQL. `SessionStore.exists` and `newOrderId` are not called by the running system.
