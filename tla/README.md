# Deal Hunter in TLA+

A verification project for the Deal Hunter product tracker (FastAPI, Celery,
Redis, Postgres): TLA+ models of its core logic, TLC configurations that check
them on small instances, and TLAPS proofs of the properties that matter most.

## 1. The system

| Part | Code | State it keeps | Operations |
|---|---|---|---|
| Price pipeline | `workers/tasks.py`, `workers/pipeline.py` | rows of `offers`, `price_history`, `dead_letters` | `enqueue_due_refreshes`, `refresh_product`, `fetch_offer` |
| Offer lock, best-deal cache, rate limiter | `core/cache.py` | Redis keys `lock:offer:*`, `bestdeal:*`, `ratelimit:*` | acquire / release / expire; get / set / invalidate; allow |
| Notifications | `workers/notifications.py`, task `notify` | `alerts.last_fired_at`, mails sent | evaluate, debounce, send, stamp |
| 3D previews | `workers/model3d.py`, task `generate_model3d`, `item_generate_model3d`, quota in `core/cache.py` | `product_models` row, provider tasks, monthly counter | request, generate, poll, retry, fail |
| Best-deal grading | `compute_best_deal`, `_verdict`, `lowest_in_window` | none (pure over the rows) | pick, grade |
| Price sources | `sources/*` | `PoliteClient._last_call`, eBay's token | search, fetch, error classification, throttling |
| API and web UI | `api/routers/*`, `api/deps.py`, `api/jobs.py` | users, tracked products, alerts, clicks | CRUD, track by URL, refresh, best deal |
| Live page | `item_stream`, `core/events.py` | a pub/sub subscription per open tab | subscribe, first frame, a frame per message |
| MCP endpoint | `api/mcp_*`, `core/tokens.py` | `api_tokens`, a context variable per request | resolve a token, four tools that read, two that write |

The parts share three stores and nothing else. Postgres is reached through ORM
sessions, one per task or request: a session reads a row once, keeps it, and at
flush time writes only the attributes that differ from what it read. Redis holds
the broker's queue, the locks, the cached best deals and the counters; no
sequence of commands on it is atomic. Celery acknowledges a message before the
task body runs, so a crash loses the task; retries are new messages with a
counter. Workers run in parallel (`--concurrency=2` in production, `--scale
worker=3` in the README).

What is hard: steps of two workers in an order nobody tested (row read before
the lock, delisting after it), keys that expire under their holder, a commit in
Postgres followed by a publish in Redis that may fail, retries of work already
done, cache fills racing invalidations, check-then-act on counters and unique
rows, products deleted under running tasks, handlers that decide on a row and
write it later, windows and lifetimes measured by a clock, and pages that are
rendered before they listen. `PROJECT.json` lists each at its
line under `hazards`.

What makes each part correct:

| Part | Correct when |
|---|---|
| Price pipeline | one fetch of an offer at a time; the snapshot on the row agrees with the append-only history; a drop is announced exactly when the recorded price fell; a listing that is gone is not offered; a fall that is recorded is announced; every fetch ends, and one that is given up leaves a dead letter |
| Offer lock | two workers are never inside it; nobody holds it for ever |
| Best-deal cache | a stale entry is replaced or expires |
| Notifications | an alert mails once per cooldown; it is silenced only by a mail; an event that was handled mailed everyone it met; every event ends, and one that is given up is parked |
| 3D previews | paid jobs are bounded by the counted ones; served files are complete and of one job; a ready model is not generated again unasked; a pending row settles |
| Best-deal grading | the pick is the cheapest available offer; the verdict agrees with its definition over the 30-day window |
| Rate limiter, polite client, eBay token | no window lets more than the limit through, and no old counter denies anybody; a client spaces its calls, retries included; a token is never used past its life |
| Price sources | what is recorded was quoted by the answer, and is no bot wall the adapter can tell |
| API and web UI | only owners change what is theirs; deletion takes everything along and nothing is added to what is gone; tracking again adds nothing; what is active is refreshed in the end |
| Live page | an open page ends up with every recorded price |
| MCP tokens | a tool runs for its caller, with a token that was issued to it |

Not all of it holds: sections 5 and 7 say what does not.

## 2. Modules

| Module | Models | Uses |
|---|---|---|
| `OfferRow` | the `offers` row and the pipeline functions that write it | |
| `FetchPipeline` | `refresh_product`, `fetch_offer`, lock, cache, queue, best-deal requests | `OfferRow` |
| `PriceBook` | the abstract promise: one entry per listing with log, price, standing | |
| `FetchPipelineProofs` | theorems about `FetchPipeline` | `FetchPipeline` |
| `Notifications` | `notify`, `fire_alerts`, the edits they race with | |
| `NotificationsProofs` | theorems about `Notifications` | `Notifications` |
| `Model3D` | the 3D request, its quota, `generate_model3d`, `run_generation`, the pre-generation script | |
| `BestDeal` | `compute_best_deal`, `lowest_in_window`, `_verdict` as operators | `OfferRow` |
| `ItemPage` | the cached best deal and the live page of one product, among workers' commits | `BestDeal` |
| `SourceAnswers` | what each adapter makes of a store's answer | |
| `Sourcing` | the rate limiter, `PoliteClient` and eBay's token under concurrent calls | `SourceAnswers` |
| `Wishlist` | accounts, tracked products, alerts, tokens, clicks: every request that writes them, and the sweep | |
| `SumTheorems` | lemmas about the sum of a function over a finite set | |
| `SourcingProofs` | theorems about the adapters and `Sourcing` | `Sourcing`, `SumTheorems` |
| `WishlistProofs` | theorems about `Wishlist` | `Wishlist` |
| `Model3DProofs` | theorems about `Model3D` | `Model3D` |
| `ItemPageProofs` | theorems about `BestDeal` and `ItemPage` | `ItemPage` |
| `MCFetchPipeline`, `MCNotifications`, `MCModel3D`, `MCItemPage`, `MCSourcing`, `MCWishlist` | instances for TLC | their module |

All components are written the same way. A process (a worker, a request, a
script run) is a program counter with the local variables of the task it runs;
every statement another process can observe, or that reads what another process
writes, is one action. A database transaction takes effect at its commit. What
a session read is kept in `loaded` and written back by `Flushed`: the ORM issues
an UPDATE of the attributes that differ from it, so the writer cannot see, and
may fail to overwrite, what was committed in between. Faults are the constant
`Faults`, a set of kinds, so that an instance says which failures it contains.

Prices are cents. Sources, users, the clock and the faults are the environment.

Where components meet, each model has the other's side as far as it shows there:
`FetchPipeline` takes a source's answer as a price, gone, throttled or an error,
which is what `Sourcing` derives; `ItemPage` takes a fetch as the commit,
invalidation and publication that `FetchPipeline` ends in; `Wishlist` takes a
refresh as one step, which `FetchPipeline` has in full; `Notifications` starts
from the event `FetchPipeline` announces.

### OfferRow and FetchPipeline

One tracked product. `row`, `history`, `present`, `tracked`, `deadLetters` are
the tables; `lock`, `cache` the Redis keys; `refreshes`, `queue`, `dropped` the
broker's messages; `pc`, `fetch`, `refresh` the workers; `reader` the requests
for the best deal; `listed` is what the sources still have; `failed` records
fetches that ended in FAILURE.

| Code | Actions |
|---|---|
| any request for a refresh | `RequestRefresh` |
| `refresh_product`, `discover_offers` | `StartRefresh`, `SearchSource` (per source), `SearchDone`, `FlushOffers`, `FanOut` (per offer), `FanOutDone` |
| `fetch_offer` up to the lock | `StartFetch`, `LoadOffer`, `AcquireLock` |
| inside the lock | `RateAllowed` / `RateDenied`, `FetchPrice` / `FetchRaises`, `CommitPrice` |
| leaving it | `ReleaseLock` |
| after a price | `InvalidateCache`, `AnnounceDrop` |
| after `ListingGone` | `RereadOffer`, `CommitDelisted`, `ForgetDeal` |
| after any other exception | `RetryOrGiveUp`; out of retries `LoadStale`, `DeadLetter` if the handler is reached |
| `best_deal` | `ReadItem`, `LookupDeal`, `ComputeDeal`, `StoreDeal` |
| Redis | `LockExpires`, `CacheExpires` |
| the rest of the world | `ListingEnds`, `ListingReturns`, `DeleteItem`, `RedisFault`, `DatabaseFault`, `Crash` |

`LockExpires` may take the key from a dead holder always, and from a live one
only with the fault `"slow"`: the ttl is 10 s, a fetch may take longer.

`PriceBook` knows a listing as absent, trusted, doubted, delisted or returned:
`Standing` reads that off the row, its presence, `is_delisted` and `is_available`.
Returned is a row that is delisted and available, which a fetch that was queued
before the delisting leaves when the listing has come back by then; only a search
makes it carried again, as `mark_offer_delisted` says. Unless listings come back
(`Relists`), no price of a delisted listing is read and nothing is revived.

### Notifications

One product, a set of alerts, a set of `price_dropped` events. `mails` keeps the
firing times of delivered mails; `lastFired` is `alerts.last_fired_at`; `now` the
clock. `StartNotify`, `LoadProduct`, `SelectAlerts` (rules engine and debounce),
then per alert `SendMail` or `SendFails`, `StampAlert`; `FinishNotify`, or
`RetryOrGiveUp` and `ParkNotification`; `RedisFault` loses the task whose retry cannot
be queued. `SelectAlerts` keeps the identity map's
behaviour: alerts loaded with the product keep the stamps they were loaded with,
the select only decides which alerts there are. The edits are `SetTarget`,
`CreateAlert`, `DeleteAlert`, `DeleteItem`; `PriceMoves` is the price pipeline.

### Model3D

`row` is the committed `product_models` row, `lock` says whose transaction holds
it, `used` is the month's counter, `jobs` the provider's paid jobs, `files` what
the storage directory holds, each file named by the job it is of. A request is
`RequestModel`, `CheckQuota`, `CommitRequest`, `SpendCredit`, `Enqueue`; a
generation is `LoadModel` (or `StartScript`), `BeginGeneration`, `CreateJob`,
`PollJob`, `DownloadGlb`, `DownloadUsdz`, `CommitModel`; then `RetryOrGiveUp`,
`ParkGeneration`, `MarkFailed`. Redis may refuse a request's message and a task's retry.
`BeginGeneration` flushes `"generating"` and
`CommitModel` commits, so the row is locked in between: nobody else ever reads
`"generating"`, and a second writer of the row waits. Assumed: one calendar
month, every product has a photo, a file is written as a whole.

### BestDeal and ItemPage

`Deals` is the set of results `compute_best_deal` may return for rows, a window's
low and a target: equal prices tie. `rows`, `history`, `target` are the tables,
`now` the day, `fetch` the task of each worker: `LoadOffer` reads the row before the
lock, as `fetch_offer` does; then `Skip`, `CommitPrice`, or `Reread` with `Withdraw`
(gone) or `GiveUp` (out of retries) write it back by what differs from it; `Invalidate`
and `Publish` follow, and a `Crash` may come anywhere; `breaks` remembers one between a commit and its
message. The lock is left to
`FetchPipeline`: fetches of one offer overlap freely here, which is more than it lets
through. A client
asks the API (`LoadItem`, `LookupDeal`, `ComputeDeal`, `StoreDeal`; the rows it
grades are those it loaded, the low is read later) or opens a page (`OpenPage`,
`Connect`, `ReadOffers`, `SendFrame`, `NextMessage`). `inbox` counts the messages
a subscription has not handled. An outage of Redis kills the subscriptions: the
generator ends at its next `get_message` (`StreamFails`) and the browser connects
again. redis-py may instead reconnect below the generator and subscribe again;
then nothing repaints until the next message, which is outside this model.

### SourceAnswers and Sourcing

An `Answer` says where on a page or in a JSON body prices are and whether they
parse. One operator per adapter picks the price in the adapter's order
(`FromPage`, `FromEbayPage`, `FromSheinPage`, `FromCard`, `FromField`,
`FromProduct`); `Fetched` and `Searched` are `fetch` and `search`. `TellsGone`,
`TellsThrottled` and `SeesWall` say which adapters call the helpers of `base.py`
and look at the final URL: not all do.

`Sourcing` has workers, which fetch and search, and threads of the API, which search
or read a page. Only a worker's fetch asks the limiter (`Ask` is the INCR, `Decide` the
EXPIRE and the answer). `Prepare`, `MintToken`, `StoreToken` are eBay's token,
`Throttled`, `Call`, `Reply`, `WakeUp` the polite client. `Pass` is one tick of the clock; it waits for code that does not
wait itself (`Urgent`), and expires keys. `asked`, `granted` and `heard` only
record what happened.

### Wishlist

A request is `Begin` with its session or token, `Accept` and `EnterTool` for a
token, `Load` (what the handler reads and decides on), one commit (`AddItems`,
`EditItem`, `DeleteItem`, `AddAlert`, `DropAlert`, `MintToken`, `RevokeToken`,
`Register`, `LogClick`) and `Enqueue` for each product to refresh. The web form,
the JSON API and the MCP tool of one operation are one action: they read and
write the same. `Abandon` ends a request anywhere. `behind` holds the active
products that were added or resumed and not refreshed since, `queue` those with a
message; `Sweep` is Beat. Accounts are never removed: no endpoint does.
`Standing` and `TokenOf` are the tables to begin with, so that one request more
finds something to work on.

### Out of retries

`self.retry(exc=exc)` with no retries left raises `exc` itself; only without
`exc` does Celery raise `MaxRetriesExceededError` (celery 5, `app/task.py`, of
which `requirements.txt` asks for 5.4 or later). The handlers that park a task
catch the latter, so their dead-letter paths are dead code with this Celery. The
constant `OutOfRetries` says what may happen: `"raise"` is what runs, `"park"` what the
code was written for. No passing run and no theorem rests on `"park"`: where the safety
of both is checked, or their termination, it is `{"raise", "park"}`, so that the handlers
are covered in case the `exc=` is removed; the runs that refute a sentence have
`{"raise"}`, the program as it is.

## 3. Runs

State counts are distinct states. `CHECK_DEADLOCK FALSE` where refreshes, events,
calls or requests are finite and the system really stops when they are used up;
`Wishlist` is checked for deadlock too.

| Run | Instance | Properties | States |
|---|---|---|---|
| `SingleWorker` | 1 worker, 1 offer, prices {1,2}, 1 retry, 2 refreshes; all faults | `SnapshotIsLatest`, `DropsAreGenuine`, `ImplementsPriceBook` | 401 942 |
| `FetchLiveness` | 2 workers, the same; source, crash | `TypeOK`, `MutualExclusion`, `SnapshotFromHistory`, `DelistedNotTrusted`, `LockIsFreed`, `BacklogDrains` | 157 220 |
| `DealsSettle` | 1 worker, 1 reader, 1 refresh; source, redis, crash, relist | `CacheSettles` | 72 818 |
| `NotifyWorkers` | 2 workers, 1 alert, 2 events; all faults | `TypeOK`, `StampsAreBacked`, `HandledMeansMailed` | 792 631 |
| `NotifyDebounce` | 1 worker, 2 alerts (one per rule), 2 events; smtp | `DebounceHolds`, `NotifyConcludes` | 562 271 |
| `PreviewFiles` | 1 product, 3 requests, a cap of 2, 1 worker, 1 retry; all faults | `TypeOK`, `JobsBounded`, `ServedTogether` | 1 124 021 |
| `PreviewLiveness` | 2 requests, 2 workers, 1 script run; photo, provider, redis, crash | `GenerationsEnd` | 508 323 |
| `ItemPage` | 1 offer, 2 workers, 1 client, prices 100 and 104, a target, 2 days, 2 changes; outage, stream, giveup, crash | `TypeOK`, `GradedAgainstItself`, `CachedVerdictSettles`, `PagesCatchUp` | 475 666 |
| `Sourcing` | 2 workers, 1 thread of the API, a scraped page and eBay, limit 1 in windows of 2 ticks, 3 calls; network, crash | `TypeOK`, `RateHeld`, `OffersAreQuoted`, `DenialsAreDue`, `AsksPolitely`, `TokenFresh` | 1 002 808 |
| `Wishlist` | 2 requests at once, 3 accounts, 2 of them with a token, one product with an alert; broker, abandon | `TypeOK`, `NoOrphans`, `TracksOnce`, `OwnersOnly`, `ActiveIsRefreshed` | 144 945 |
| `StaleSnapshot` | 2 workers, no failure | `SnapshotIsLatest` violated | |
| `SilentFailure` | 1 worker, source failures | `NoSilentFailure` violated | |

What they show:

- *Overlapping fetches are mostly harmless.* With two workers, crashes and
  failing sources, the lock excludes, the snapshot is always a recorded price, and
  a delisted offer is never left available, although delisting is committed after
  the lock was given back (`FetchLiveness`, and proved).
- *One worker keeps the whole promise.* It implements `PriceBook`: nothing but an
  observation moves a price, giving up costs trust and never the price, a delisted
  listing is carried again only when a search finds it, and unless listings come
  back no price is observed of one that is gone (`SingleWorker`, with crashes and failures
  in every step; proved for any offers, prices and bounds). It announces no fall
  twice and none that the history does not show. The pipeline's own tests run one
  worker.
- *Two do not*: the row is read before the lock is taken (`StaleSnapshot`).
- *Everything ends.* Locks are freed by expiry whoever died, retries are bounded
  (`FetchLiveness`); a stale deal lives no longer than its ttl, although an invalidation
  may be lost to Redis or to a crash (`DealsSettle`). That is termination, not success:
  what is given up is not parked (`SilentFailure`), and a fall that is recorded may
  stay unannounced (section 5).
- *Alerts are silenced only by mails*, for any race and failure (`NotifyWorkers`,
  and proved). One worker never mails twice in a cooldown when sending fails part
  of the way, because each stamp is committed on its own; nor does an event that is
  published go without an end (`NotifyDebounce`: a failing mail server only. A crash or
  a Redis that refuses the retry loses the event, section 7).
- *Previews*: a counted request pays for one job per attempt of its task and no
  more; the files are consistent with one worker whatever fails between the two
  downloads (`PreviewFiles`). Processes that wait for each other's row do not wait for
  ever: the queue empties and every row is free again (`PreviewLiveness`). The row need
  not be settled by then, nor made once (section 5).
- *The live page catches up* because the stream subscribes before it draws its
  first frame, and draws one again after every reconnection. Only a worker that dies
  between its commit and its message leaves it behind, until the next message or reload.
  The cached verdict settles because it expires: nothing drops it when the target or the
  day changes, and a crash, an outage or a late store may leave a stale one. A deal is
  cheaper than "the lowest in 30 days" only if its own last observation is older than
  that (`ItemPage`).
- *The window limiter* lets 2 x limit through in a span as long as a window, never
  more, and a key without an expiry denies nobody, as each window has its own key
  (`Sourcing`). A polite client spaces retries like calls. A cached token is dead
  in the cache before it is dead at eBay for lifetimes of two minutes and more.
- *Requests of different accounts do not touch each other*, through sessions,
  tokens and the context variable; what is deleted stays without alerts and clicks
  thanks to the foreign keys; every active product is refreshed after an outage of the
  broker (`Wishlist`).

Every property has a mutant in `PROJECT.json`: a small change of one definition
(a dropped guard, a swapped order, a missing reset) under which TLC refutes it in
the same instance. The mutated forms stand next to the originals, marked
"Mutant".

### Bounds

One offer is enough for properties of one offer: offers share only the cache key
and the queue, and no property counts across them. Two workers are the least that
overlap; production runs two. `SingleWorker` runs one since its properties are false
of two (`StaleSnapshot`, section 7). Two prices give falls, rises and repeats. Two
refreshes bring two messages for one offer, and with one retry three attempts
that overlap; `StaleSnapshot` needs three refreshes. Two events and two instants
bring a mail within and a mail after the cooldown. Three requests for previews under
a cap of two are the least for two that overlap and one that is denied.

Larger instances that are too slow to be kept as runs: the invariants of
`FetchLiveness` with redis and database failures as well (4 610 048 states), its
`DelistedNotTrusted` with three refreshes and no retry (536 358), `DebounceHolds` with
`Cooldown = 2`, `MaxTime = 2` (2 226 199), and `TypeOK` and `JobsBounded` of
`PreviewFiles` with two workers, two products, two requests and no retry (53 320); with
two offers, `GradedAgainstItself` of `ItemPage` (1 848 664) and, with crashes and given
up fetches as the only faults, `CachedVerdictSettles` (413 906). All of them hold.

In `ItemPage` two workers are the least whose fetches overlap; 104 is within 5 % of
100; two changes are a price and what races with it, one day with `Window = 0` moves a
price out of the window. One offer does not tie: what is picked among several is a
theorem about all rows (`VerdictsMeanWhatTheySay`) and in the larger instances above.
One client suffices,
since clients share only the cache and the tables, which the workers and expiry
change as well: a second reader storing a stale deal is a first one that is slow.
`Sourcing` has windows of two ticks, so that a span may lie across a boundary, and
time for two windows; two retries of two callers would add nothing but time.
`Wishlist` starts from a state with something of each kind, and any two requests
overlap in it at any of their steps; a third adds no new pair.

`MaxRefreshes`, `MaxRetries`, `MaxTime`, `Request`, `Event`, `Changes`, `LastDay`,
`breaks`, `LastTick`, `Calls`, `Requests` and `outages` are the only bounds; there
is no state constraint. `NotifyWorkers` and `Sourcing` alone use symmetry (of
their workers), and have no liveness property.

### Fairness

`FairSpec` asks weak fairness of each worker over "take a message or run the
next statement of the task": Celery workers keep consuming, and each blocking
call in a task has a timeout. It asks it of the expiry of keys in Redis, and of
requests that were begun. Nothing is owed by users, sources, prices, the clock or
failures, and no action is strongly fair. `ItemPage` owes the ends of tasks and
requests, a stream's next step, the cache's ttl, and that Redis is started again;
`Wishlist` the Beat sweep, the broker's return and the workers, and nothing of a
request, which may die. The per-worker disjunction matters: a
worker that may choose among messages need not ever choose a given one, and
`BacklogDrains` and `NotifyConcludes` hold because messages run out.

## 4. Proofs

TLAPS checks 9 707 obligations, for all values of the constants: any number of
workers, readers, clients, offers, alerts, events, retries, requests, accounts,
products, tokens and callers, any prices and answers of stores, any set of faults.
The assumptions are the modules' `ASSUME`s: sentinels differ from values, bounds are naturals, faults are of the
listed kinds, requests at once are finitely many and the tables to begin with are
ones the program could have left (`StandingAssumption`), eBay issues tokens for
long enough (`LifetimeAssumption`).

`FetchPipelineProofs` and `NotificationsProofs`:

| Theorem | States | Argument |
|---|---|---|
| `TypeCorrect` | `Spec => [](TypeOK /\ ProcessesOK)` | the type invariant is not inductive alone: a step appends `observed.price` to a history, and only the program counter says that it is a price by then. `LocalsOK` adds what each local holds at each point |
| `FetchesExclude` | `"slow" \notin Faults` implies `Spec => []MutualExclusion` | nothing in mutual exclusion says that the key exists while somebody is inside; `LockOK` adds it. Expiry is the step where the assumption is used: a key may then only be taken from a dead holder, and a crash takes the holder out |
| `SnapshotsAreBacked` | `Spec => []SnapshotFromHistory` | an append may leave the snapshot alone (dirty tracking), so an empty snapshot beside a history must be excluded: `HistoryOK` adds that a task that loaded a price still finds one in the row, and that a deletion leaves nothing |
| `DelistedStaysUntrusted` | without `"slow"` and `"relist"`, `Spec => []DelistedNotTrusted` | the commit that delists runs after the lock was released, so the lock alone does not keep a price from landing after it. `TrustOK` adds why none does: who found the listing gone held the lock then (`LockOK`), so nobody was between fetch and commit, and nobody gets there again, for the listing is gone. Both assumptions are used, one at the release of the lock, one at the next fetch |
| `SnapshotsAreLatest` | `OneWorker => (Spec => []SnapshotIsLatest)` | `CurrentOK`: the copy a session loaded is still the row, so that a flush of what differs from the copy leaves the observed price; `BlankOK`: a row that is not there left no price and no history. With two workers it is false (section 5) |
| `AnnouncedDropsAreGenuine` | `OneWorker => (Spec => []DropsAreGenuine)` | the bound says nothing of events still to come. `GenuineOK` adds that while a worker has recorded a fall and not announced it (`OwesDrop`) there are fewer events than falls. That its commit made a fall of what it compares is `LatestOK`: the loaded price is the last recorded one. `FallsCounted` counts the falls of a history and of one with a price appended. With two workers it is false (section 7) |
| `PipelineIsABook` | `OneWorker => (Spec => ImplementsPriceBook)` | four lemmas map the four commits that write rows to `Observe`, `Doubt`, `Delist` and `Discover`, one maps the deletion to `Erase`, and the rest stutters. `ReviveOK`: what a search is about to revive is delisted, and still there. If listings do not come back, `SearchOK` and `TrustOK` add that a search finds none that was seen to be gone, and no commit does |
| `NotifyTypeCorrect` | `Spec => []TypeOK` | with `EventsKnown`: a task at work has an event, so its retry is a message |
| `StampsHaveMails` | `Spec => []StampsAreBacked` | `StampsOwed` adds the mail that is out and not stamped yet; stamps a session loaded need nothing, since they are only compared |
| `SuccessMeansMailed` | `Spec => []HandledMeansMailed` | `MailsPromised`: from the selection on, each alert an event met has mailed or is still to mail, so that success, which comes when none is left, means mailed. An alert is passed over only for a stamp, and a stamp, loaded or committed, means a mail (`StampsLoaded`, `StampsAreBacked`). `NothingAhead` and `NoOrphans` say that nothing is created later than now, nor for a product that is gone |
| `MailsAreDebounced` | `OneWorker`, `Faults \subseteq {"smtp", "redis"}`: `Spec => []DebounceHolds` | the last mail of an alert is its stamp, but between a mail and the stamp's commit (`StampOrder`, `StampDue`); the stamps the worker compares with are those in the table (`StampsCurrent`), and what it still has to mail was not stamped since (`DueLater`). A second worker, or a failure after the mail was taken, breaks it (section 7): mail and stamp are no transaction |

`WishlistProofs`, all from one inductive invariant `IInv` (`Tables`, `Refreshes`,
`Handling`), since what a request may do to the tables depends on what it carries
and what it carries on what it read:

| Theorem | States | Argument |
|---|---|---|
| `WishlistTypeCorrect` | `Spec => []TypeOK` | `Typed` and `Carries` give each local its type by the kind of request and the point it is at |
| `RowsHaveProducts` | `Spec => []NoOrphans` | a conjunct of `Tables`: an insert looks at the row in its own commit, not at what was loaded; ids are used up in order, so no later product inherits rows |
| `OwnersAct` | `Spec => OwnersOnly` | `TokensIssued`: a token that opens something opens it for whom it was issued to; `Trusted`: from the lookup to the tool's thread the request's user is its credential's; `Held`: the row it looked up is still that user's, or gone |
| `DuplicatesOverlap` | `Spec => []TracksOnce` | the bound is not inductive: `Overlapping` counts, per account and key, the products there are together with the requests that have looked and not inserted yet. Somebody who looks when there is a product does not wait; so when there is one, whoever waits looked before it, and an insert turns one that waits into a product |

`SourcingProofs`. Its invariant types the locals of a call and says what the clock
owes them: `Pass` waits where `Urgent` says so, so that a token that was alive when
it was looked up or stored is alive when eBay is called.

| Theorem | States | Argument |
|---|---|---|
| `SourcingTypeCorrect` | `Spec => []TypeOK` | a caller that just counted still finds its counter, since no time passes before it sets the expiry |
| `PricesAreQuoted` | `Spec => []OffersAreQuoted` | `QuotedIsThere`, a lemma over the eight adapters: what `First` finds in any sequence of places is in one of them (the least index exists by well-foundedness), and junk is never a price |
| `TokensLive` | `Spec => TokenFresh` | `token.until <= token.dies`, because `Ttl` is the lifetime less the margin and the token is stored within the margin |
| `WindowsHoldTheRate` | `Spec => []RateHeld` | the sums are of the past, the counter is of now. `Tallied`: the counter of this window is the number of calls asked in it, and at least of those granted; `ExpiresLate`: it does not expire in its own window; `FutureBlank`: nothing was counted ahead. So `WindowsHeld`: no window grants more than `Limit`; and a span as long as a window meets two windows (`SpanInWindows`), of which its calls are a part (`SumOfParts`, `SumOfSome`) |
| `DenialsFollowTheWindow` | `Spec => DenialsAreDue` | from `CountsNow` and `Tallied` at the one step that denies |
| `CallsAreSpaced` | `OneSearcher => (Spec => AsksPolitely)` | `Spaced`: what a call waits for is later than its client's last call by the interval; with one thread of the API nobody else writes that client's record. `OneSearcher` is needed (section 7) |

`RateHeld` and `DenialsAreDue` add up calls with a fold, which takes its elements in
an order of its own choice. `SumTheorems` proves that the order does not matter
(`SumTakes`), that equal functions have equal sums, that sums of disjoint sets add
up and a part sums to no more. Induction over the size of a set would need an
operator as a parameter, which the provers cannot instantiate; each of these facts
is proved of the least counterexample instead, since a set of numbers that is not
empty has a least element (`LeastNumber`, by well-foundedness).

`Model3DProofs`. Two inductive invariants, over the same types (`Typed`):

| Theorem | States | Argument |
|---|---|---|
| `PreviewTypeCorrect` | `Spec => []TypeOK` | `Errands`: a worker at work has the product and the request of its message, so that its retry is a message |
| `JobsAreCounted` | `Script = {} => (Spec => []JobsBounded)` | the bound says nothing of jobs still to come. `Open` is the set of attempts, by request and number, that may yet create a job, and `Budget` bounds the jobs and the open attempts together: a credit opens `MaxRetries + 1`, a call to the provider closes one, no other step opens any. That an attempt is closed once is `OneCarrier`: a request has not enqueued yet, or has one message, or one worker. Without `Script = {}` it is false (section 7) |
| `FilesAreOfOneJob` | `OneProcess => (Spec => []ServedTogether)` | `InHand`: while a process works on a product its row is not ready, and what it is about to commit as ready it downloaded in this attempt, both files of one job. With a second process it is false (section 7) |

`ItemPageProofs`:

| Theorem | States | Argument |
|---|---|---|
| `PageTypeCorrect` | `Spec => []TypeOK` | a low of a window exists and is one of its prices (`LeastPrice`, by well-foundedness) |
| `VerdictsMeanWhatTheySay` | of `Deals` for any rows, history, window and target | `BestIsLeast` and `LowIsLeast` say of every offer and every observation what `min` returns; each verdict is then a comparison with all of them. No state is involved, so it holds for the API's answer, the cached deal and the page alike |
| `DealsCountThemselves` | `Spec => GradedAgainstItself` | `Backed`: every price of a row is in the history, in the table and in what any session has loaded; the history only grows, so the low that is read later counts it |

Each step of the induction is a lemma per action or group of actions; the
temporal step combines initiation, consecution and implication.

Hypotheses of theorems are of two kinds. `OneWorker`, `OneProcess` and
`OneSearcher` describe a deployment: without them the code does otherwise, as
sections 5 and 7 show. `"slow"`, `"relist"` and the like leave out one kind of
failure, and are named where it would make the statement false (section 7 has the
instances). None is about `OutOfRetries`: the theorems hold for both.

Only model-checked: everything live (fairness and ENABLED are out of the prover's
reach), which is `LockIsFreed`, `BacklogDrains`, `CacheSettles`, `NotifyConcludes`,
`GenerationsEnd`, `CachedVerdictSettles`, `PagesCatchUp` and `ActiveIsRefreshed`. Every
invariant and every action property of the passing runs has a theorem.

## 5. Where the code does something else

Two runs are expected to find a violation; `PROJECT.json` quotes the sentence
each of them refutes.

1. `StaleSnapshot`. Worker A loads the row (price 1) and waits for its turn;
   worker B records 2; A then takes the lock, observes 1, appends 1 to the history
   and leaves `last_price` at 2, since 1 equals what it had loaded. No failure is
   involved. Loading the row inside the lock would do.
2. `SilentFailure`. A fetch out of retries is not parked, see "Out of retries". With
   `OutOfRetries = {"park"}`, `NoSilentFailure` holds in `FetchLiveness`.

Three more sentences are refuted by instances of section 7. They are stated as properties
and not claimed by a passing run, since they hold only where the case they are about
does not happen:

3. `FallsAreAnnounced`. "When a tracked offer's price falls, `fetch_offer` emits a
   `price_dropped` event" (README.md:119). A fetch commits a fall (`tasks.py:165`) and
   fails to reach Redis for the invalidation or the event. Its retry loads the price just
   committed as the previous one and sees no fall: it is in the history and announced to
   nobody. A crash at the same point does the same. With failing sources only it holds.
4. `PreviewSettles`. "transient errors retry with backoff, exhausted retries dead-letter"
   (`tasks.py:298`). As in 2 the handler that marks the row failed is not reached, the row
   stays pending, and a request for a pending row starts nothing. With `{"park"}`, and
   `"photo"` and `"provider"` as the only faults, it holds in `PreviewLiveness` (453 507
   states); a Redis that refuses the message after the commit breaks it even then.
5. `CacheOnce`. "cache-once: never regenerate implicitly" (`tasks.py:308`). Two requests
   queue a message each for one row. Both tasks read it pending, the second waits for the
   first one's transaction and generates again over a ready model: the check is on a row
   that was read before the wait. It takes two worker processes, which production has.

Read while modelling, and not worth a run each:

- `base.py:61` and `base.py:72` offer their helpers to "any adapter". The scraper
  of listing pages, eBay's HTML, SHEIN and the mock store do not ask whether a
  listing is gone, Best Buy and the page reader do not tell a 429 from other
  failures: `SourceAnswers` has it adapter by adapter.
- `RateLimiter` is asked before a fetch and never before a search, which the
  "shared sliding-window rate limiter" of the adapters suggests; and its window is
  fixed, not sliding (`RateHeld` says what that allows).
- One card whose price is no number ends the whole search of a source that
  converts with `Decimal` unguarded (`Aborts`).
- A new target price neither publishes an update nor drops the cached deal
  (`web.py:628`, `wishlist.py:143`): the old verdict is shown until its ttl ends.
- An offer that is marked unavailable by the dead-letter handler is not announced
  to open pages, which draw it as available until the next price.
- `track_by_url` calls itself "Idempotent per (user, url)" (`web.py:500`). Two posts
  of one link that overlap create two products; `TracksOnce` bounds them by the
  requests at work.
- A regenerated preview is "reset for a fresh run" (`web.py:1011`), but not when the
  row the request read had no job and a whole generation went by before its commit:
  the old job is resumed then, and a credit spent for no new model (section 7,
  `PendingIsFresh`).
- Two toggles that overlap count as one, and a rule that can never fire, which
  `mcp_service.py` and `wishlist.py` reject with 422, is created when the target is
  cleared between the look and the insert.
- A session's JWT outlives logout, which only removes the cookie; nothing removes
  an account.

## 6. What is not modelled

`PROJECT.json` lists every component with its status. Left out for good:

- *Text.* Templates, wording of mails, HTML selectors, titles, links, currencies,
  metrics, health and logging: nothing that is modelled depends on them.
- *Reading only.* Lists, charts, the ops page, the read-only MCP tools, the mock
  store's search page. They take no lock and write nothing.
- *Cryptography.* Password hashes, JWT signatures and their expiry, token hashes:
  a session is an account's name, an API token a member of a set.
- *Others' programs.* PostgreSQL, Redis, Celery, eBay, the model providers, browsers
  are modelled by what the code sees of them. The vision model is one call with
  no state.
- *Deployment.* Migrations, containers, start and stop of the API process.

Left out of parts that are modelled: editing a product's title and query, the
photo a preview is made from and the frames beside its model, the other values in
the cached deal (`BestDeal` has them as operators, `FetchPipeline` the price only),
cookies of a polite client, retries of a database connection.

## 7. Other instances worth running

A change of constants makes TLC refute each of these within seconds, one of them
within minutes. `CacheIsCurrent`, `CapRespected`, `CreditsCover`,
`PendingIsFresh`, `FallsAreAnnounced`, `PreviewSettles` and `CacheOnce` are in no run;
the other properties are those of section 3. Each row shows a limit of the code.

| Base | Change | Refuted | How |
|---|---|---|---|
| `FetchLiveness` | `Spec`, `Faults = {"slow"}`, `Price = {1}`, no retry | `MutualExclusion` | a fetch outlives its lock, a second worker enters, and the first one's exit deletes the second one's key: the unlock does not look at the owner |
| `FetchLiveness` | the same, 3 refreshes | `DelistedNotTrusted` | a fetch that outlived its lock sets `is_available` after another one delisted the offer |
| `StaleSnapshot` | none | `DropsAreGenuine` | the previous price is from the row loaded before the lock: one fall is announced twice |
| `FetchLiveness` | one worker, `Faults = {"redis"}`, or `{"crash"}` | `FallsAreAnnounced` | section 5, 3 |
| `DealsSettle` | `Spec`, no faults | `CacheIsCurrent` | a request computes, a worker commits and invalidates, the request stores |
| `NotifyWorkers` | no faults, no retry, `Cooldown = 2`, `MaxTime = 0` | `DebounceHolds` | two tasks read `last_fired_at` before either stamps it |
| `NotifyDebounce` | `Spec`, `Faults` one of `{"reply"}`, `{"database"}`, `{"crash"}` | `DebounceHolds` | the mail was taken, and its stamp is not committed: the reply is lost, the commit fails (the retry mails again), or the worker dies and another event mails |
| `NotifyDebounce` | `Faults` one of `{"crash"}`, `{"smtp", "redis"}` | `NotifyConcludes` | the message is acknowledged before the task runs, so a crash loses the event; a retry that cannot be queued is rejected and lost |
| `PreviewFiles` | one request, `Faults = {"provider"}` | `CreditsCover` | `provider_task_id` is flushed, not committed, before polling: a failing poll rolls it back, and the retry creates and pays a second job under the one credit that was counted |
| `PreviewFiles` | one request, `Script = {s1}`, no faults | `CreditsCover` | the pre-generation script spends no credit |
| `PreviewFiles` | two products, two requests, `Cap = 1`, no faults | `CapRespected` | two requests read the counter before either increments it |
| `PreviewFiles` | `OutOfRetries = {"park"}`, `Faults = {"provider"}` | `PendingIsFresh` | a request reads a failed row without a job, another request's generation makes it ready, the first one commits: its `provider_task_id = None` changes nothing it knows of, so the old job stays and is resumed. A credit is spent for no new model |
| `PreviewFiles` | the same with `{"raise"}`: six requests, `Cap = 6`, no retry, `Faults = {"photo"}`, `SYMMETRY Interchangeable` | `PendingIsFresh` | two messages for one row: the second task reads the failed row, a request resets it, and that task's failure is written without a job; then as above (some minutes) |
| `PreviewFiles` | two workers, no faults | `CacheOnce` | section 5, 5 |
| `PreviewFiles` | two workers, no retry, no faults | `ServedTogether` | the same second task replaces the first file of a model that is ready |
| `PreviewLiveness` | one request, one worker, no script, `OutOfRetries = {"raise"}`, `Faults = {"provider"}` | `PreviewSettles` | section 5, 4 |
| `PreviewLiveness` | the same, `{"park"}`, `Faults = {"redis"}` | `PreviewSettles` | the pending row is committed and its message is refused; a request for a pending row starts nothing |
| `Sourcing` | `Searcher = {s1, s2}`, both of the API's process | `AsksPolitely` | two threads of one process read the client's last call of a host before either writes it |
| `Sourcing` | lifetimes shorter than `Floor + Margin`, without `LifetimeAssumption` | `TokenFresh` | `max(60, expires_in - 60)` keeps a token that is issued for a minute or less longer than it lives |

## 8. Plan

Done: every module of section 2, the runs of section 3, the theorems of section 4.
Grading became `BestDeal` and `ItemPage`, limits and sources `SourceAnswers` and
`Sourcing`, live updates are in `ItemPage`, tokens in `Wishlist`.

Theorems to come: invariants of `PriceBook` itself, which a reader of the offers may
then take from `PipelineIsABook`.

To model, if the code grows there: edits of a query while its refresh runs, frames
of the 3D preview on the live page, the other six adapters in the `Sourcing` run.

## 9. Running it

    tlc -workers 2 -config FetchLiveness.cfg MCFetchPipeline
    tlapm FetchPipelineProofs.tla

The slowest run is `Sourcing` (two to three minutes), the slowest proof
`FetchPipelineProofs` (about seven).
