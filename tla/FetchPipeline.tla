---------------------------- MODULE FetchPipeline ----------------------------
(***************************************************************************)
(* The price pipeline of one tracked product: the Celery tasks             *)
(* refresh_product and fetch_offer, run by a set of worker processes over  *)
(* the shared `offers` / `price_history` tables, the per-offer Redis lock, *)
(* the cached best deal and the broker's queue, with API requests that     *)
(* read the best deal through the cache.                                   *)
(*                                                                         *)
(* A worker's local state is its program counter and the local variables   *)
(* of the task it runs; every statement that another process can observe,  *)
(* or that reads what another process writes, is a step of its own.  A     *)
(* database transaction takes effect at its commit.                        *)
(***************************************************************************)
EXTENDS OfferRow, Sequences, FiniteSets

CONSTANTS
  Offer,           \* listings the sources can return for the product
  Source,          \* active price sources
  SourceOf,        \* the source of each listing
  Worker,          \* Celery worker processes
  Reader,          \* API requests for the best deal
  MaxRetries,      \* fetch_offer's max_retries
  MaxRefreshes,    \* bound: refresh_product messages ever published
  OutOfRetries,    \* what self.retry(exc=e) does then: "raise" e, or "park"
  Faults,          \* the kinds of failure a behaviour may contain
  NoEntry          \* the best-deal key is absent from Redis

(***************************************************************************)
(* "source"   a source call fails, and the failure looks transient         *)
(* "throttle" a source answers 429, or our own rate limit is used up       *)
(* "redis"    a Redis command of a worker raises                           *)
(* "database" a transaction of a worker fails                              *)
(* "crash"    a worker process dies                                        *)
(* "slow"     a fetch outlives the ttl of the lock it holds                *)
(* "relist"   a listing that ended comes back                              *)
(***************************************************************************)
FaultKind ==
  {"source", "throttle", "redis", "database", "crash", "slow", "relist"}

ASSUME SourceOfAssumption   == SourceOf \in [Offer -> Source]
ASSUME BoundsAssumption     == MaxRetries \in Nat /\ MaxRefreshes \in Nat
ASSUME FaultsAssumption     == Faults \subseteq FaultKind
\* Celery raises e itself ("raise"); the handlers that park a task wait for
\* MaxRetriesExceededError ("park").
ASSUME RetryAssumption ==
  OutOfRetries \subseteq {"raise", "park"} /\ OutOfRetries # {}
ASSUME NoneOfferAssumption  == None \notin Offer
ASSUME NoEntryAssumption    == NoEntry \notin Price \cup {None}

VARIABLES
  listed,       \* [Offer -> BOOLEAN]: the source still has the listing
  tracked,      \* the tracked_products row exists
  present,      \* offers that have a row
  row,          \* [Offer -> Row], meaningful for present offers
  history,      \* [Offer -> Seq(Price)]: price_history, oldest first
  deadLetters,  \* offers with a row in dead_letters
  failed,       \* offers a fetch_offer of which ended in state FAILURE
  lock,         \* [Offer -> BOOLEAN]: key lock:offer:<id> exists
  cache,        \* the value of key bestdeal:<id>, or NoEntry
  refreshes,    \* refresh_product messages waiting
  published,    \* refresh_product messages published so far
  queue,        \* [Message -> Nat]: fetch_offer messages waiting
  dropped,      \* [Offer -> Seq(Drop)]: notify messages published
  pc,           \* [Worker -> Control]
  fetch,        \* [Worker -> FetchLocals]
  refresh,      \* [Worker -> RefreshLocals]
  reader        \* [Reader -> ReaderState]

database  == <<tracked, present, row, history, deadLetters>>
redis     == <<lock, cache>>
messages  == <<refreshes, published, queue, dropped>>
processes == <<pc, fetch, refresh>>
vars == <<listed, failed, database, redis, messages, processes, reader>>

-----------------------------------------------------------------------------
Message == [offer : Offer, retries : 0..MaxRetries]
Drop    == [new : Price, previous : Price]

FetchControl   == {"load", "lock", "rate", "fetch", "commit", "release",
                   "invalidate", "announce", "reread", "delist", "forget",
                   "retry", "deadLetter", "park"}
RefreshControl == {"search", "flush", "fanout"}
Control        == {"idle"} \cup FetchControl \cup RefreshControl

\* How the body of `with offer_lock(...)` was left.
Outcome == {"none", "ok", "gone", "error", "stop"}

FetchLocals ==
  [offer   : Offer \cup {None},  \* offer_id
   retries : 0..MaxRetries,      \* self.request.retries
   known   : BOOLEAN,            \* tracked_product_id is set
   loaded  : Row,                \* the ORM's copy of the row
   observed: [price : Price \cup {None}, available : BOOLEAN],
   outcome : Outcome]

NoFetch == [offer |-> None, retries |-> 0, known |-> FALSE, loaded |-> NewRow,
            observed |-> [price |-> None, available |-> TRUE],
            outcome |-> "none"]

\* A session keeps the attributes of the rows it has loaded: a later select
\* decides which rows there are, not what is in those it knows.
RefreshLocals ==
  [todo   : SUBSET Source,       \* sources not searched yet
   known  : SUBSET Offer,        \* loaded with the product
   gone   : SUBSET Offer,        \* and delisted then
   insert : SUBSET Offer,        \* found, and no row was there
   revive : SUBSET Offer,        \* found, and loaded as delisted
   fan    : SUBSET Offer]        \* offer_ids still to enqueue

NoRefresh == [todo |-> {}, known |-> {}, gone |-> {}, insert |-> {},
              revive |-> {}, fan |-> {}]

ReaderState == [at    : {"idle", "lookup", "compute", "store"},
                known : SUBSET Offer,     \* offers loaded with the user
                rows  : [Offer -> Row],   \* as they were then
                deal  : Price \cup {None}]
IdleReader  == [at |-> "idle", known |-> {}, rows |-> [o \in Offer |-> NewRow],
                deal |-> None]

TypeOK ==
  /\ listed \in [Offer -> BOOLEAN]
  /\ tracked \in BOOLEAN
  /\ present \in SUBSET Offer
  /\ row \in [Offer -> Row]
  /\ history \in [Offer -> Seq(Price)]
  /\ deadLetters \in SUBSET Offer
  /\ failed \in SUBSET Offer
  /\ lock \in [Offer -> BOOLEAN]
  /\ cache \in Price \cup {None, NoEntry}
  /\ refreshes \in Nat
  /\ published \in 0..MaxRefreshes
  /\ queue \in [Message -> Nat]
  /\ dropped \in [Offer -> Seq(Drop)]
  /\ pc \in [Worker -> Control]
  /\ fetch \in [Worker -> FetchLocals]
  /\ refresh \in [Worker -> RefreshLocals]
  /\ reader \in [Reader -> ReaderState]

\* create_item: a product without offers, for the first refresh to discover.
TrackedByName ==
  /\ present = {}
  /\ row = [o \in Offer |-> NewRow]
  /\ history = [o \in Offer |-> <<>>]

\* track_by_url: one offer, its first price recorded with it.
TrackedByUrl(o, observed) ==
  /\ present = {o}
  /\ row = [x \in Offer |->
              IF x = o THEN RecordPrice(NewRow, NewRow, observed) ELSE NewRow]
  /\ history = [x \in Offer |-> IF x = o THEN <<observed.price>> ELSE <<>>]

Init ==
  /\ listed = [o \in Offer |-> TRUE]
  /\ tracked = TRUE
  /\ \/ TrackedByName
     \/ \E o \in Offer, observed \in Observation : TrackedByUrl(o, observed)
  /\ deadLetters = {}
  /\ failed = {}
  /\ lock = [o \in Offer |-> FALSE]
  /\ cache = NoEntry
  /\ refreshes = 0
  /\ published = 0
  /\ queue = [m \in Message |-> 0]
  /\ dropped = [o \in Offer |-> <<>>]
  /\ pc = [w \in Worker |-> "idle"]
  /\ fetch = [w \in Worker |-> NoFetch]
  /\ refresh = [w \in Worker |-> NoRefresh]
  /\ reader = [r \in Reader |-> IdleReader]

-----------------------------------------------------------------------------
(* Steps shared by the tasks.                                              *)

Goto(w, from, to) == pc[w] = from /\ pc' = [pc EXCEPT ![w] = to]

\* The task returns, raises, or dies: the worker is free again.
Finish(w) ==
  /\ pc' = [pc EXCEPT ![w] = "idle"]
  /\ fetch' = [fetch EXCEPT ![w] = NoFetch]
  /\ refresh' = [refresh EXCEPT ![w] = NoRefresh]

Publish(o, n) == queue' = [queue EXCEPT ![[offer |-> o, retries |-> n]] = @ + 1]

\* The task leaves the `with offer_lock` block; __exit__ is still to run.
Leave(w, from, outcome) ==
  /\ Goto(w, from, "release")
  /\ fetch' = [fetch EXCEPT ![w].outcome = outcome]

\* Workers inside `with offer_lock(o)`.
InLock == {"rate", "fetch", "commit", "release"}

Holders(o) == {w \in Worker : pc[w] \in InLock /\ fetch[w].offer = o}

-----------------------------------------------------------------------------
(* refresh_product                                                         *)

\* A refresh is asked for: the API's refresh button, or Beat's sweep.
RequestRefresh ==
  /\ tracked
  /\ published < MaxRefreshes
  /\ published' = published + 1
  /\ refreshes' = refreshes + 1
  /\ UNCHANGED <<listed, failed, database, redis, queue, dropped, processes,
                 reader>>

\* A worker takes the message (acknowledged at once) and reads the product.
StartRefresh(w) ==
  /\ pc[w] = "idle"
  /\ refreshes > 0
  /\ refreshes' = refreshes - 1
  /\ IF tracked
     THEN /\ pc' = [pc EXCEPT ![w] = "search"]
          /\ refresh' = [refresh EXCEPT
                           ![w].todo  = Source,
                           ![w].known = present,
                           ![w].gone  = {o \in present : row[o].delisted}]
     ELSE UNCHANGED <<pc, refresh>>
  /\ UNCHANGED <<listed, failed, database, redis, published, queue, dropped,
                 fetch, reader>>

\* discover_offers, one source: search, then select each listing found.
\* A search returns any part of what the source still lists; one that fails
\* is skipped.
SearchSource(w, s) ==
  /\ pc[w] = "search"
  /\ s \in refresh[w].todo
  /\ \E found \in SUBSET {o \in Offer : SourceOf[o] = s /\ listed[o]} :
       refresh' = [refresh EXCEPT
                     ![w].todo   = @ \ {s},
                     ![w].insert = @ \cup (found \ present),
                     ![w].revive = @ \cup {o \in found \cap present :
                                             IF o \in refresh[w].known
                                             THEN o \in refresh[w].gone
                                             ELSE row[o].delisted}]
  /\ UNCHANGED <<listed, failed, database, redis, messages, pc, fetch, reader>>

SearchDone(w) ==
  /\ refresh[w].todo = {}
  /\ Goto(w, "search", "flush")
  /\ UNCHANGED <<listed, failed, database, redis, messages, fetch, refresh,
                 reader>>

\* discover_offers' flush and final select, and refresh_product's commit.
\* A row inserted meanwhile violates uq_offer_identity, a product deleted
\* meanwhile violates the foreign key: either way the whole refresh fails,
\* and refresh_product has no retry.
FlushOffers(w) ==
  /\ pc[w] = "flush"
  /\ IF tracked /\ refresh[w].insert \cap present = {}
     THEN /\ present' = present \cup refresh[w].insert
          /\ row' = [o \in Offer |->
                       IF o \in refresh[w].insert THEN NewRow
                       ELSE IF o \in refresh[w].revive THEN Revive(row[o])
                       ELSE row[o]]
          /\ pc' = [pc EXCEPT ![w] = "fanout"]
          /\ refresh' = [refresh EXCEPT
                           ![w] = [NoRefresh EXCEPT
                              !.fan = {o \in present' : ~row'[o].delisted}]]
          /\ UNCHANGED fetch
     ELSE Finish(w) /\ UNCHANGED <<present, row>>
  /\ UNCHANGED <<listed, failed, tracked, history, deadLetters, redis,
                 messages, reader>>

\* The loop of fetch_offer.delay() calls, after the commit.
FanOut(w, o) ==
  /\ pc[w] = "fanout"
  /\ o \in refresh[w].fan
  /\ Publish(o, 0)
  /\ refresh' = [refresh EXCEPT ![w].fan = @ \ {o}]
  /\ UNCHANGED <<listed, failed, database, redis, refreshes, published,
                 dropped, pc, fetch, reader>>

FanOutDone(w) ==
  /\ pc[w] = "fanout"
  /\ refresh[w].fan = {}
  /\ Finish(w)
  /\ UNCHANGED <<listed, failed, database, redis, messages, reader>>

-----------------------------------------------------------------------------
(* fetch_offer                                                             *)

\* A worker takes a message; acknowledged before the task body runs.
StartFetch(w, m) ==
  /\ queue[m] > 0
  /\ queue' = [queue EXCEPT ![m] = @ - 1]
  /\ Goto(w, "idle", "load")
  /\ fetch' = [fetch EXCEPT ![w].offer = m.offer, ![w].retries = m.retries]
  /\ UNCHANGED <<listed, failed, database, redis, refreshes, published,
                 dropped, refresh, reader>>

\* offer = get_offer(db, offer_id): before the lock is asked for.
LoadOffer(w) ==
  LET o == fetch[w].offer IN
  /\ pc[w] = "load"
  /\ IF o \in present
     THEN /\ pc' = [pc EXCEPT ![w] = "lock"]
          /\ fetch' = [fetch EXCEPT ![w].loaded = row[o]]
          /\ UNCHANGED refresh
     ELSE Finish(w)
  /\ UNCHANGED <<listed, failed, database, redis, messages, reader>>

\* Mutant: SET without NX takes the lock whoever holds it.
AcquireLockAlways(w) ==
  /\ Goto(w, "lock", "rate")
  /\ lock' = [lock EXCEPT ![fetch[w].offer] = TRUE]
  /\ UNCHANGED <<listed, failed, database, cache, messages, fetch, refresh,
                 reader>>

\* SET lock:offer:<id> "1" NX EX ttl; "skipped: locked" when it is taken.
AcquireLock(w) ==
  LET o == fetch[w].offer IN
  /\ pc[w] = "lock"
  /\ IF lock[o]
     THEN Finish(w) /\ UNCHANGED lock
     ELSE /\ lock' = [lock EXCEPT ![o] = TRUE]
          /\ pc' = [pc EXCEPT ![w] = "rate"]
          /\ UNCHANGED <<fetch, refresh>>
  /\ UNCHANGED <<listed, failed, database, cache, messages, reader>>

\* RateLimiter().allow(source).
RateAllowed(w) ==
  /\ Goto(w, "rate", "fetch")
  /\ fetch' = [fetch EXCEPT ![w].known = TRUE]
  /\ UNCHANGED <<listed, failed, database, redis, messages, refresh, reader>>

\* Over our own budget: the retry is published first, the lock released as
\* the Retry exception passes; out of retries the cycle is skipped.
RateDenied(w) ==
  /\ "throttle" \in Faults
  /\ Leave(w, "rate", "stop")
  /\ IF fetch[w].retries < MaxRetries
     THEN Publish(fetch[w].offer, fetch[w].retries + 1)
     ELSE UNCHANGED queue
  /\ UNCHANGED <<listed, failed, database, redis, refreshes, published,
                 dropped, refresh, reader>>

\* source.fetch() returns the current price of a live listing.
FetchPrice(w, observed) ==
  /\ Goto(w, "fetch", "commit")
  /\ listed[fetch[w].offer]
  /\ fetch' = [fetch EXCEPT ![w].observed = observed]
  /\ UNCHANGED <<listed, failed, database, redis, messages, refresh, reader>>

\* source.fetch() raises: ListingGoneError, RateLimitedError, anything else.
FetchRaises(w, outcome) ==
  /\ Leave(w, "fetch", outcome)
  /\ \/ outcome = "gone"  /\ ~listed[fetch[w].offer]
     \/ outcome = "stop"  /\ "throttle" \in Faults
     \/ outcome = "error" /\ "source" \in Faults
  /\ UNCHANGED <<listed, failed, database, redis, messages, refresh, reader>>

\* Mutant: an out-of-stock observation gets no history point.
CommitPriceInStock(w) ==
  LET o == fetch[w].offer IN
  /\ pc[w] = "commit"
  /\ o \in present
  /\ Leave(w, "commit", "ok")
  /\ row' = [row EXCEPT ![o] =
               RecordPrice(@, fetch[w].loaded, fetch[w].observed)]
  /\ history' = IF fetch[w].observed.available
                THEN [history EXCEPT ![o] = Append(@, fetch[w].observed.price)]
                ELSE history
  /\ UNCHANGED <<listed, failed, tracked, present, deadLetters, redis,
                 messages, refresh, reader>>

\* record_price and db.commit().  The row is gone when the item was deleted
\* meanwhile: the UPDATE matches nothing and the flush raises.
CommitPrice(w) ==
  LET o == fetch[w].offer IN
  /\ pc[w] = "commit"
  /\ IF o \in present
     THEN /\ Leave(w, "commit", "ok")
          /\ row' = [row EXCEPT ![o] =
                       RecordPrice(@, fetch[w].loaded, fetch[w].observed)]
          /\ history' = [history EXCEPT
                           ![o] = Append(@, fetch[w].observed.price)]
     ELSE Leave(w, "commit", "error") /\ UNCHANGED <<row, history>>
  /\ UNCHANGED <<listed, failed, tracked, present, deadLetters, redis,
                 messages, refresh, reader>>

\* offer_lock's finally: delete the key, whoever set it.
ReleaseLock(w) ==
  LET o == fetch[w].offer IN
  /\ pc[w] = "release"
  /\ lock' = [lock EXCEPT ![o] = FALSE]
  /\ \/ /\ fetch[w].outcome = "stop"
        /\ Finish(w)
     \/ /\ fetch[w].outcome # "stop"
        /\ pc' = [pc EXCEPT ![w] = CASE fetch[w].outcome = "ok"   -> "invalidate"
                                     [] fetch[w].outcome = "gone" -> "reread"
                                     [] OTHER                     -> "retry"]
        /\ UNCHANGED <<fetch, refresh>>
  /\ UNCHANGED <<listed, failed, database, cache, messages, reader>>

\* invalidate_best_deal after a price landed.
InvalidateCache(w) ==
  /\ Goto(w, "invalidate", "announce")
  /\ cache' = NoEntry
  /\ UNCHANGED <<listed, failed, database, lock, messages, fetch, refresh,
                 reader>>

\* Mutants: a first sighting counts as a drop; an unchanged price counts as
\* a drop; the previous price is read after the new one was recorded.
AnnounceSightings(w) ==
  LET previous == fetch[w].loaded.price
      new      == fetch[w].observed.price
  IN
  /\ pc[w] = "announce"
  /\ IF previous = None \/ new < previous
     THEN dropped' = [dropped EXCEPT ![fetch[w].offer] =
                        Append(@, [new |-> new, previous |-> previous])]
     ELSE UNCHANGED dropped
  /\ Finish(w)
  /\ UNCHANGED <<listed, failed, database, redis, refreshes, published, queue,
                 reader>>

AnnounceRepeats(w) ==
  LET previous == fetch[w].loaded.price
      new      == fetch[w].observed.price
  IN
  /\ pc[w] = "announce"
  /\ IF previous # None /\ new <= previous
     THEN dropped' = [dropped EXCEPT ![fetch[w].offer] =
                        Append(@, [new |-> new, previous |-> previous])]
     ELSE UNCHANGED dropped
  /\ Finish(w)
  /\ UNCHANGED <<listed, failed, database, redis, refreshes, published, queue,
                 reader>>

\* notify.delay(...) when the price fell since the row was loaded.
AnnounceDrop(w) ==
  LET previous == fetch[w].loaded.price
      new      == fetch[w].observed.price
  IN
  /\ pc[w] = "announce"
  /\ IF previous # None /\ new < previous
     THEN dropped' = [dropped EXCEPT ![fetch[w].offer] =
                        Append(@, [new |-> new, previous |-> previous])]
     ELSE UNCHANGED dropped
  /\ Finish(w)
  /\ UNCHANGED <<listed, failed, database, redis, refreshes, published, queue,
                 reader>>

\* except ListingGoneError: rollback expires the row, get_offer rereads it.
RereadOffer(w) ==
  LET o == fetch[w].offer IN
  /\ pc[w] = "reread"
  /\ IF o \in present
     THEN /\ pc' = [pc EXCEPT ![w] = "delist"]
          /\ fetch' = [fetch EXCEPT ![w].loaded = row[o]]
     ELSE pc' = [pc EXCEPT ![w] = "forget"] /\ UNCHANGED fetch
  /\ UNCHANGED <<listed, failed, database, redis, messages, refresh, reader>>

\* mark_offer_delisted and commit, without the lock.  The flush fails when
\* there is something to write and no row to write it to.
CommitDelisted(w) ==
  LET o == fetch[w].offer
      unchanged == fetch[w].loaded.delisted /\ ~fetch[w].loaded.available
  IN
  /\ pc[w] = "delist"
  /\ IF o \in present \/ unchanged
     THEN /\ row' = [row EXCEPT ![o] = MarkOfferDelisted(@, fetch[w].loaded)]
          /\ pc' = [pc EXCEPT ![w] = "forget"]
          /\ UNCHANGED <<failed, fetch, refresh>>
     ELSE Finish(w) /\ failed' = failed \cup {o} /\ UNCHANGED row
  /\ UNCHANGED <<listed, tracked, present, history, deadLetters, redis,
                 messages, reader>>

\* invalidate_best_deal at the end of the delisting and dead-letter paths.
ForgetDeal(w) ==
  /\ pc[w] = "forget"
  /\ cache' = NoEntry
  /\ Finish(w)
  /\ UNCHANGED <<listed, failed, database, lock, messages, reader>>

\* Mutant: the retry does not count as one.
RetryForever(w) ==
  /\ pc[w] = "retry"
  /\ Publish(fetch[w].offer, fetch[w].retries)
  /\ Finish(w)
  /\ UNCHANGED <<listed, failed, database, redis, refreshes, published, dropped,
                 reader>>

\* except Exception: rollback, then retry with backoff while retries last.
RetryOrGiveUp(w) ==
  /\ pc[w] = "retry"
  /\ \/ /\ fetch[w].retries < MaxRetries
        /\ Publish(fetch[w].offer, fetch[w].retries + 1)
        /\ Finish(w)
        /\ UNCHANGED failed
     \/ /\ fetch[w].retries = MaxRetries
        /\ "raise" \in OutOfRetries
        /\ failed' = failed \cup {fetch[w].offer}
        /\ Finish(w)
        /\ UNCHANGED queue
     \/ /\ fetch[w].retries = MaxRetries
        /\ "park" \in OutOfRetries
        /\ pc' = [pc EXCEPT ![w] = "deadLetter"]
        /\ UNCHANGED <<failed, queue, fetch, refresh>>
  /\ UNCHANGED <<listed, database, redis, refreshes, published, dropped, reader>>

\* _dead_letter, its db.get.  Without the offer the dead letter will violate
\* its foreign key; the write fails and the original error is raised.
LoadStale(w) ==
  LET o == fetch[w].offer IN
  /\ pc[w] = "deadLetter"
  /\ IF o \in present
     THEN /\ pc' = [pc EXCEPT ![w] = "park"]
          /\ fetch' = [fetch EXCEPT ![w].loaded = row[o]]
          /\ UNCHANGED <<failed, refresh>>
     ELSE Finish(w) /\ failed' = failed \cup {o}
  /\ UNCHANGED <<listed, database, redis, messages, reader>>

\* Its flush and commit, which fail if the offer was deleted since.
DeadLetter(w) ==
  LET o == fetch[w].offer IN
  /\ pc[w] = "park"
  /\ IF o \in present
     THEN /\ row' = [row EXCEPT
                       ![o] = MarkOfferUnavailable(@, fetch[w].loaded)]
          /\ deadLetters' = deadLetters \cup {o}
          /\ UNCHANGED failed
          /\ IF fetch[w].known
             THEN /\ pc' = [pc EXCEPT ![w] = "forget"]
                  /\ UNCHANGED <<fetch, refresh>>
             ELSE Finish(w)
     ELSE /\ failed' = failed \cup {o}
          /\ Finish(w)
          /\ UNCHANGED <<row, deadLetters>>
  /\ UNCHANGED <<listed, tracked, present, history, redis, messages, reader>>

-----------------------------------------------------------------------------
(* Failures.  A Redis command that raises has had no effect.               *)

RedisFault(w) ==
  /\ "redis" \in Faults
  /\ \/ /\ pc[w] \in {"lock", "release", "invalidate", "announce"}
        /\ pc' = [pc EXCEPT ![w] = "retry"]
        /\ UNCHANGED <<failed, fetch, refresh>>
     \/ /\ Leave(w, "rate", "error")
        /\ UNCHANGED <<failed, refresh>>
     \/ /\ pc[w] = "forget"       \* raised inside an except clause
        /\ failed' = failed \cup {fetch[w].offer}
        /\ Finish(w)
     \/ /\ \/ pc[w] = "fanout"    \* the rest of the loop is lost
           \/ pc[w] = "retry" /\ fetch[w].retries < MaxRetries
        /\ Finish(w)
        /\ UNCHANGED failed
  /\ UNCHANGED <<listed, database, redis, messages, reader>>

DatabaseFault(w) ==
  /\ "database" \in Faults
  /\ \/ /\ Goto(w, "load", "retry")
        /\ UNCHANGED <<failed, fetch, refresh>>
     \/ /\ Leave(w, "commit", "error")
        /\ UNCHANGED <<failed, refresh>>
     \/ /\ pc[w] \in {"reread", "delist", "deadLetter", "park"}
        /\ failed' = failed \cup {fetch[w].offer}
        /\ Finish(w)
     \/ /\ pc[w] \in {"search", "flush"}
        /\ Finish(w)
        /\ UNCHANGED failed
  /\ UNCHANGED <<listed, database, redis, messages, reader>>

\* The process dies: its message was acknowledged, its lock stays.
Crash(w) ==
  /\ "crash" \in Faults
  /\ pc[w] # "idle"
  /\ Finish(w)
  /\ UNCHANGED <<listed, failed, database, redis, messages, reader>>

-----------------------------------------------------------------------------
(* The environment: key expiry, the source, the other API requests.        *)

\* Mutants: the keys are set without an expiry.
LockNeverExpires(o) == FALSE

CacheNeverExpires == FALSE

LockExpires(o) ==
  /\ lock[o]
  /\ "slow" \in Faults \/ Holders(o) = {}
  /\ lock' = [lock EXCEPT ![o] = FALSE]
  /\ UNCHANGED <<listed, failed, database, cache, messages, processes, reader>>

CacheExpires ==
  /\ cache # NoEntry
  /\ cache' = NoEntry
  /\ UNCHANGED <<listed, failed, database, lock, messages, processes, reader>>

ListingEnds(o) ==
  /\ listed[o]
  /\ listed' = [listed EXCEPT ![o] = FALSE]
  /\ UNCHANGED <<failed, database, redis, messages, processes, reader>>

ListingReturns(o) ==
  /\ "relist" \in Faults
  /\ ~listed[o]
  /\ listed' = [listed EXCEPT ![o] = TRUE]
  /\ UNCHANGED <<failed, database, redis, messages, processes, reader>>

\* delete_item: the product's offers and their history go with it, a dead
\* letter stays but no longer points to an offer.
DeleteItem ==
  /\ tracked
  /\ tracked' = FALSE
  /\ present' = {}
  /\ row' = [o \in Offer |-> NewRow]
  /\ history' = [o \in Offer |-> <<>>]
  /\ deadLetters' = {}
  /\ UNCHANGED <<listed, failed, redis, messages, processes, reader>>

\* best_deal: authentication loads the user with products and offers; a hit
\* ends the request, a miss is answered from what was loaded and cached.
ReadItem(r) ==
  /\ tracked
  /\ reader[r].at = "idle"
  /\ reader' = [reader EXCEPT ![r].at = "lookup", ![r].known = present,
                              ![r].rows = row]
  /\ UNCHANGED <<listed, failed, database, redis, messages, processes>>

LookupDeal(r) ==
  /\ reader[r].at = "lookup"
  /\ reader' = [reader EXCEPT ![r] = IF cache = NoEntry
                                     THEN [@ EXCEPT !.at = "compute"]
                                     ELSE IdleReader]
  /\ UNCHANGED <<listed, failed, database, redis, messages, processes>>

ComputeDeal(r) ==
  LET loaded == [o \in Offer |-> IF o \in reader[r].known
                                 THEN reader[r].rows[o] ELSE row[o]]
  IN
  /\ reader[r].at = "compute"
  /\ reader' = [reader EXCEPT ![r] = [IdleReader EXCEPT
                                        !.at = "store",
                                        !.deal = BestPrice(loaded, present)]]
  /\ UNCHANGED <<listed, failed, database, redis, messages, processes>>

StoreDeal(r) ==
  /\ reader[r].at = "store"
  /\ cache' = reader[r].deal
  /\ reader' = [reader EXCEPT ![r] = IdleReader]
  /\ UNCHANGED <<listed, failed, database, lock, messages, processes>>

-----------------------------------------------------------------------------
RefreshStep(w) ==
  \/ \E s \in Source : SearchSource(w, s)
  \/ SearchDone(w)
  \/ FlushOffers(w)
  \/ \E o \in Offer : FanOut(w, o)
  \/ FanOutDone(w)

FetchStep(w) ==
  \/ LoadOffer(w)
  \/ AcquireLock(w)
  \/ RateAllowed(w)
  \/ RateDenied(w)
  \/ \E observed \in Observation : FetchPrice(w, observed)
  \/ \E outcome \in Outcome : FetchRaises(w, outcome)
  \/ CommitPrice(w)
  \/ ReleaseLock(w)
  \/ InvalidateCache(w)
  \/ AnnounceDrop(w)
  \/ RereadOffer(w)
  \/ CommitDelisted(w)
  \/ ForgetDeal(w)
  \/ RetryOrGiveUp(w)
  \/ LoadStale(w)
  \/ DeadLetter(w)

TakeMessage(w) == StartRefresh(w) \/ \E m \in Message : StartFetch(w, m)

Fault(w) == RedisFault(w) \/ DatabaseFault(w) \/ Crash(w)

Request ==
  \/ RequestRefresh
  \/ DeleteItem
  \/ \E r \in Reader : ReadItem(r) \/ LookupDeal(r) \/ ComputeDeal(r)
                         \/ StoreDeal(r)

Environment ==
  \/ CacheExpires
  \/ \E o \in Offer : LockExpires(o) \/ ListingEnds(o) \/ ListingReturns(o)

Next ==
  \/ \E w \in Worker : TakeMessage(w) \/ RefreshStep(w) \/ FetchStep(w)
                         \/ Fault(w)
  \/ Request
  \/ Environment

Spec == Init /\ [][Next]_vars

\* A worker keeps running its task and taking messages (every blocking call
\* in a task has a timeout); Redis expires keys; a request that was
\* begun is answered.  Nothing obliges anyone to ask for anything.
Fairness ==
  /\ \A w \in Worker : WF_vars(TakeMessage(w) \/ RefreshStep(w) \/ FetchStep(w))
  /\ \A o \in Offer : WF_vars(LockExpires(o))
  /\ WF_vars(CacheExpires)
  /\ \A r \in Reader : WF_vars(LookupDeal(r) \/ ComputeDeal(r) \/ StoreDeal(r))

FairSpec == Spec /\ Fairness

-----------------------------------------------------------------------------
(* Safety                                                                  *)

\* While no fetch outlives its lock's ttl, at most one worker is inside
\* offer_lock for an offer: what fetch_offer's "only one worker fetches a
\* given offer at a time" asks of SET NX, the expiry and the ownerless DEL.
MutualExclusion ==
  \A o \in Offer : \A v, w \in Holders(o) : v = w

\* A snapshot price is always one that was appended to the history, and an
\* offer with a history has one: no step writes the one without the other.
SnapshotFromHistory ==
  \A o \in present :
    IF history[o] = <<>>
    THEN row[o].price = None
    ELSE \E i \in DOMAIN history[o] : row[o].price = history[o][i]

\* record_price's "the append is the source of truth; the snapshot is a
\* cache": the snapshot price is the last one appended.
SnapshotIsLatest ==
  \A o \in present :
    history[o] # <<>> => row[o].price = history[o][Len(history[o])]

\* mark_offer_delisted's "best-deal must not trust a dead listing's price".
DelistedNotTrusted ==
  \A o \in present : row[o].delisted => ~row[o].available

\* The places where the history of an offer falls.
Falls(h) == {i \in 2..Len(h) : h[i] < h[i - 1]}

\* fetch_offer publishes price_dropped "only when the price genuinely fell":
\* never more events than falls in the recorded history.
DropsAreGenuine ==
  tracked => \A o \in Offer :
               Len(dropped[o]) <= Cardinality(Falls(history[o]))

\* The cached deal is the current one unless a worker has yet to invalidate
\* the key: best_deal's "a fresh price always recomputes".
OwesInvalidation(w) ==
  \/ pc[w] \in {"invalidate", "forget"}
  \/ pc[w] = "release" /\ fetch[w].outcome = "ok"

CacheIsCurrent ==
  \/ ~tracked
  \/ cache \in {NoEntry, BestPrice(row, present)}
  \/ \E w \in Worker : OwesInvalidation(w)

\* A fetch out of retries leaves a dead letter and never just a FAILURE: what
\* the README says of the dead-letter queue.
NoSilentFailure == failed \cap present \subseteq deadLetters

-----------------------------------------------------------------------------
(* The promise: a single worker implements PriceBook.                      *)

Standing(o) ==
  IF o \notin present THEN "absent"
  ELSE IF row[o].delisted
       THEN IF row[o].available THEN "returned" ELSE "delisted"
  ELSE IF row[o].available THEN "trusted" ELSE "doubted"

Book == INSTANCE PriceBook WITH
  Relists <- "relist" \in Faults,
  book <- [o \in Offer |-> [standing |-> Standing(o), price |-> row[o].price,
                           log |-> history[o]]]

ImplementsPriceBook == Book!Spec

-----------------------------------------------------------------------------
(* Liveness                                                                *)

\* A lock is never held for ever, whoever died holding it.
LockIsFreed == \A o \in Offer : lock[o] ~> ~lock[o]

Quiet ==
  /\ \A w \in Worker : pc[w] = "idle"
  /\ refreshes = 0
  /\ \A m \in Message : queue[m] = 0

\* Retries are bounded and skips end a task: the backlog always drains.
BacklogDrains == <>[]Quiet

\* A stale best deal does not survive: once the prices stop moving the cache
\* is empty or current for ever.
CacheSettles == <>[](tracked => cache \in {NoEntry, BestPrice(row, present)})

\* A recorded fall is announced in the end: "when a tracked offer's price
\* falls, fetch_offer emits a price_dropped event".
FallsAreAnnounced ==
  \A o \in Offer :
    []<>(tracked => Len(dropped[o]) >= Cardinality(Falls(history[o])))

=============================================================================
