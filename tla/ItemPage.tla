------------------------------ MODULE ItemPage ------------------------------
(***************************************************************************)
(* One product's page and its best deal while workers record prices.       *)
(*                                                                         *)
(* A worker commits what it fetched, drops the cached best deal and        *)
(* publishes an update; the three are separate steps.  An API reader       *)
(* (GET /wishlist/{id}/best-deal) goes through the cache.  A page is       *)
(* rendered once, then subscribes to the product's channel, draws a first  *)
(* frame of the offers and draws another one for every message.            *)
(*                                                                         *)
(* A fetch loads its offer, and then asks for the lock that FetchPipeline   *)
(* models: here it commits, or ends without a trace.                       *)
(* An outage of Redis ends every subscription and loses what is published  *)
(* while it lasts; the browser connects again (htmx's sse extension).      *)
(***************************************************************************)
EXTENDS BestDeal, FiniteSets

CONSTANTS
  Offer,        \* the product's offers
  Worker,       \* Celery worker processes
  Client,       \* users' clients: each asks the API or keeps a page open
  Target,       \* target prices a user may set
  Window,       \* price_history_window_days
  LastDay,      \* bound: days that pass
  Changes,      \* bound: fetches and edits of the target
  Faults        \* subset of {"outage", "stream", "giveup", "crash"}

ASSUME WindowAssumption == Window \in Nat /\ LastDay \in Nat /\ Changes \in Nat
ASSUME DistinctNone == None \notin Offer

VARIABLES
  rows,         \* the offers' rows
  history,      \* price_history, a set: two equal points tell nothing apart
  target,       \* the item's target_price
  now,          \* the day
  fetch,        \* the fetch task of each worker
  cache,        \* the cached best deal
  redisUp,
  reading,      \* what each reader and viewer has loaded in its session
  pc,           \* control of each reader and viewer
  shown,        \* the rows a page displays
  deal,         \* the deal a reader has computed and not stored yet
  inbox,        \* messages a subscription has not handled
  dead,         \* subscriptions whose connection is gone
  changes,      \* fetches and edits left
  breaks        \* an outage or a cut stream, at most one, and untold crashes

dbVars    == <<rows, history, target, now>>
redisVars == <<cache, redisUp>>
pageVars  == <<reading, pc, shown, deal, inbox, dead>>
bounds    == <<changes, breaks>>
vars      == <<dbVars, fetch, redisVars, pageVars, bounds>>

Targets == Target \cup {None}
Streams == {"render", "drawing", "live"}
OpenPages == Streams \cup {"page"}
Point   == [offer : Offer, price : Price, at : 0..LastDay]
Deal    == [offer : Offer \cup {None}, price : Price \cup {None}, low : Price \cup {None},
            verdict : {"no_data", "below_target", "all_time_low", "great", "fair"}]
Loaded  == [rows : [Offer -> Row], target : Targets]
NoDeal  == [offer |-> None, price |-> None, low |-> None, verdict |-> "no_data"]
Since   == now - Window

\* What the session has loaded matters up to the commit.
Fetch   == [at : {"loaded", "gone", "stale"}, offer : Offer, loaded : Row] \cup
           [at : {"idle", "recorded", "givenup", "forgotten"}, offer : {None},
            loaded : {NewRow}]
NoFetch == [at |-> "idle", offer |-> None, loaded |-> NewRow]

\* What a subscription must never hold: messages without a subscriber.
TypeOK ==
  /\ rows \in [Offer -> Row] /\ history \subseteq Point
  /\ target \in Targets /\ now \in 0..LastDay
  /\ fetch \in [Worker -> Fetch]
  /\ cache \in Deal \cup {None} /\ redisUp \in BOOLEAN
  /\ reading \in [Client -> Loaded]
  /\ pc \in [Client -> {"idle", "loaded", "missed", "graded", "page"} \cup Streams]
  /\ shown \in [Client -> [Offer -> Row]] /\ deal \in [Client -> Deal]
  /\ inbox \in [Client -> Nat] /\ dead \subseteq Client
  /\ \A v \in Client : inbox[v] > 0 => pc[v] \in Streams /\ v \notin dead
  /\ changes \in 0..Changes /\ breaks \subseteq {"outage", "stream", "crash"}

NewRows == [o \in Offer |-> NewRow]
Nothing == [rows |-> NewRows, target |-> None]

Init ==
  /\ rows = NewRows /\ history = {} /\ target = None /\ now = 0
  /\ fetch = [w \in Worker |-> NoFetch]
  /\ cache = None /\ redisUp = TRUE
  /\ reading = [c \in Client |-> Nothing]
  /\ pc = [c \in Client |-> "idle"]
  /\ shown = [v \in Client |-> NewRows] /\ deal = [r \in Client |-> NoDeal]
  /\ inbox = [v \in Client |-> 0] /\ dead = {}
  /\ changes = Changes /\ breaks = {}

-----------------------------------------------------------------------------
(* The worker.                                                             *)

\* get_offer, before the lock; the row may be delisted since it was queued.
LoadOffer(w, o) ==
  /\ fetch[w].at = "idle" /\ changes > 0 /\ changes' = changes - 1
  /\ fetch' = [fetch EXCEPT ![w] = [at |-> "loaded", offer |-> o, loaded |-> rows[o]]]
  /\ UNCHANGED <<dbVars, redisVars, pageVars, breaks>>

\* Locked, throttled or failed: a retry is another fetch.
Skip(w) ==
  /\ fetch[w].at = "loaded" /\ fetch' = [fetch EXCEPT ![w] = NoFetch]
  /\ UNCHANGED <<dbVars, redisVars, pageVars, bounds>>

Commits(w, from, to) ==
  /\ fetch[w].at = from /\ fetch' = [fetch EXCEPT ![w] = [NoFetch EXCEPT !.at = to]]
  /\ UNCHANGED <<target, now, redisVars, pageVars, bounds>>

\* record_price and the commit.  The point carries the time its transaction
\* began (the server's now()), which may be the day before.
CommitPrice(w) ==
  LET o == fetch[w].offer IN
  /\ Commits(w, "loaded", "recorded")
  /\ \E observed \in Observation, day \in {now, now - 1} \cap Nat :
       /\ rows' = [rows EXCEPT ![o] = RecordPrice(@, fetch[w].loaded, observed)]
       /\ history' = history \cup {[offer |-> o, price |-> observed.price, at |-> day]}

\* The fetch found the listing gone, or failed for the last time: the row is
\* read again.
Reread(w, as) ==
  /\ fetch[w].at = "loaded"
  /\ as = "gone" \/ (as = "stale" /\ "giveup" \in Faults)
  /\ LET o == fetch[w].offer
     IN  fetch' = [fetch EXCEPT ![w] = [at |-> as, offer |-> o, loaded |-> rows[o]]]
  /\ UNCHANGED <<dbVars, redisVars, pageVars, bounds>>

\* ListingGoneError: the offer is delisted, and announced like a price.
Withdraw(w) ==
  /\ Commits(w, "gone", "recorded") /\ UNCHANGED history
  /\ rows' = [rows EXCEPT ![fetch[w].offer] = MarkOfferDelisted(@, fetch[w].loaded)]

\* Out of retries: a dead letter, and the offer is no longer available.
GiveUp(w) ==
  /\ Commits(w, "stale", "givenup") /\ UNCHANGED history
  /\ rows' = [rows EXCEPT ![fetch[w].offer] = MarkOfferUnavailable(@, fetch[w].loaded)]

\* invalidate_best_deal.  Without Redis it raises and the task fails (a retry
\* is another fetch); nobody hears of an offer that was given up.
Invalidate(w) ==
  /\ fetch[w].at \in {"recorded", "givenup"}
  /\ cache' = IF redisUp THEN None ELSE cache
  /\ fetch' = [fetch EXCEPT
       ![w].at = IF redisUp /\ @ = "recorded" THEN "forgotten" ELSE "idle"]
  /\ UNCHANGED <<dbVars, redisUp, pageVars, bounds>>

Subscribed == {v \in Client : pc[v] \in Streams /\ v \notin dead}

\* Mutant: an unsubscribed page is still delivered to.
PublishToAll(w) ==
  /\ fetch[w].at = "forgotten" /\ fetch' = [fetch EXCEPT ![w].at = "idle"]
  /\ inbox' = [v \in Client |-> IF redisUp THEN inbox[v] + 1 ELSE inbox[v]]
  /\ UNCHANGED <<dbVars, redisVars, reading, pc, shown, deal, dead, bounds>>

\* publish_price_update: best effort, it never raises.
Publish(w) ==
  /\ fetch[w].at = "forgotten" /\ fetch' = [fetch EXCEPT ![w].at = "idle"]
  /\ inbox' = [v \in Client |-> IF redisUp /\ v \in Subscribed
                                THEN inbox[v] + 1 ELSE inbox[v]]
  /\ UNCHANGED <<dbVars, redisVars, reading, pc, shown, deal, dead, bounds>>

\* The process dies; its message was acknowledged, so nobody resumes it.
Crash(w) ==
  /\ "crash" \in Faults /\ fetch[w].at # "idle"
  /\ fetch' = [fetch EXCEPT ![w] = NoFetch]
  /\ breaks' = breaks \cup (IF fetch[w].at \in {"recorded", "forgotten"}
                          THEN {"crash"} ELSE {})
  /\ UNCHANGED <<dbVars, redisVars, pageVars, changes>>

-----------------------------------------------------------------------------
(* The best deal of the API, cache-aside.                                  *)

Load(c, next) ==
  /\ reading' = [reading EXCEPT ![c] = [rows |-> rows, target |-> target]]
  /\ pc' = [pc EXCEPT ![c] = next]

LoadItem(r) ==
  /\ pc[r] = "idle" /\ Load(r, "loaded")
  /\ UNCHANGED <<dbVars, fetch, redisVars, shown, deal, inbox, dead, bounds>>

Answer(r) ==
  /\ pc' = [pc EXCEPT ![r] = "idle"]
  /\ reading' = [reading EXCEPT ![r] = Nothing]

\* A hit is returned as it is; without Redis the request fails.
LookupDeal(r) ==
  /\ pc[r] = "loaded"
  /\ IF redisUp /\ cache = None
     THEN pc' = [pc EXCEPT ![r] = "missed"] /\ UNCHANGED reading
     ELSE Answer(r)
  /\ UNCHANGED <<dbVars, fetch, redisVars, shown, deal, inbox, dead, bounds>>

\* The deal is graded with the rows loaded earlier and the history of now.
ComputeDeal(r) ==
  /\ pc[r] = "missed"
  /\ \E d \in Deals(reading[r].rows, Offer, LowestInWindow(history, Since),
                    reading[r].target) : deal' = [deal EXCEPT ![r] = d]
  /\ pc' = [pc EXCEPT ![r] = "graded"]
  /\ reading' = [reading EXCEPT ![r] = Nothing]
  /\ UNCHANGED <<dbVars, fetch, redisVars, shown, inbox, dead, bounds>>

StoreDeal(r) ==
  /\ pc[r] = "graded"
  /\ cache' = IF redisUp THEN deal[r] ELSE cache
  /\ deal' = [deal EXCEPT ![r] = NoDeal]
  /\ Answer(r)
  /\ UNCHANGED <<dbVars, fetch, redisUp, shown, inbox, dead, bounds>>

\* Mutant: the cached deal has no expiry.
CacheKept ==
  /\ FALSE
  /\ UNCHANGED vars

CacheExpires ==
  /\ cache # None /\ cache' = None
  /\ UNCHANGED <<dbVars, fetch, redisUp, pageVars, bounds>>

\* PATCH /wishlist/{id} and the page's form: neither drops the cached deal
\* nor publishes anything.
SetTarget ==
  /\ changes > 0 /\ changes' = changes - 1
  /\ target' \in Targets \ {target}
  /\ UNCHANGED <<rows, history, now, fetch, redisVars, pageVars, breaks>>

-----------------------------------------------------------------------------
(* The page and its stream.                                                *)

OpenPage(v) ==
  /\ pc[v] = "idle" /\ pc' = [pc EXCEPT ![v] = "page"]
  /\ shown' = [shown EXCEPT ![v] = rows]
  /\ UNCHANGED <<dbVars, fetch, redisVars, reading, deal, inbox, dead, bounds>>

\* Mutant: the first frame is drawn before the channel is subscribed to.
ConnectAfterReading(v) ==
  /\ pc[v] = "page" /\ redisUp
  /\ pc' = [pc EXCEPT ![v] = "drawing"]
  /\ reading' = [reading EXCEPT ![v].rows = shown[v]]
  /\ dead' = dead \ {v}
  /\ UNCHANGED <<dbVars, fetch, redisVars, shown, deal, inbox, bounds>>

\* item_stream: it subscribes before its first frame reads anything.  Without
\* Redis it answers 503 and the page stays as it is.
Connect(v) ==
  /\ pc[v] = "page" /\ redisUp
  /\ pc' = [pc EXCEPT ![v] = "render"]
  /\ dead' = dead \ {v}
  /\ UNCHANGED <<dbVars, fetch, redisVars, reading, shown, deal, inbox, bounds>>

ReadOffers(v) ==
  /\ pc[v] = "render" /\ Load(v, "drawing")
  /\ UNCHANGED <<dbVars, fetch, redisVars, shown, deal, inbox, dead, bounds>>

SendFrame(v) ==
  /\ pc[v] = "drawing" /\ pc' = [pc EXCEPT ![v] = "live"]
  /\ shown' = [shown EXCEPT ![v] = reading[v].rows]
  /\ reading' = [reading EXCEPT ![v] = Nothing]
  /\ UNCHANGED <<dbVars, fetch, redisVars, deal, inbox, dead, bounds>>

NextMessage(v) ==
  /\ pc[v] = "live" /\ inbox[v] > 0
  /\ inbox' = [inbox EXCEPT ![v] = @ - 1]
  /\ pc' = [pc EXCEPT ![v] = "render"]
  /\ UNCHANGED <<dbVars, fetch, redisVars, reading, shown, deal, dead, bounds>>

\* The generator's finally clause: the subscription ends with the stream.
EndStream(v, next) ==
  /\ pc' = [pc EXCEPT ![v] = next]
  /\ reading' = [reading EXCEPT ![v] = Nothing]
  /\ inbox' = [inbox EXCEPT ![v] = 0]
  /\ dead' = dead \ {v}
  /\ UNCHANGED <<dbVars, fetch, redisVars, deal, changes>>

\* get_message raises on a connection that is gone.
StreamFails(v) ==
  v \in dead /\ pc[v] = "live" /\ EndStream(v, "page") /\ UNCHANGED <<shown, breaks>>

\* The network or Redis fails, at most once.
Breaks(kind) ==
  /\ kind \in Faults /\ breaks \subseteq {"crash"} /\ breaks' = breaks \cup {kind}

\* The network between browser and server.
StreamCut(v) ==
  /\ Breaks("stream")
  /\ pc[v] \in Streams /\ EndStream(v, "page") /\ UNCHANGED shown

ClosePage(v) ==
  /\ pc[v] \in OpenPages /\ EndStream(v, "idle") /\ UNCHANGED breaks
  /\ shown' = [shown EXCEPT ![v] = NewRows]

-----------------------------------------------------------------------------
DayPasses ==
  /\ now < LastDay /\ now' = now + 1
  /\ UNCHANGED <<rows, history, target, fetch, redisVars, pageVars, bounds>>

OutageStarts ==
  /\ Breaks("outage") /\ redisUp /\ redisUp' = FALSE
  /\ dead' = {v \in Client : pc[v] \in Streams}
  /\ inbox' = [v \in Client |-> 0]
  /\ UNCHANGED <<dbVars, fetch, cache, reading, pc, shown, deal, changes>>

OutageEnds ==
  /\ ~redisUp /\ redisUp' = TRUE
  /\ UNCHANGED <<dbVars, fetch, cache, pageVars, bounds>>

WorkerStep(w) ==
  \/ Skip(w) \/ CommitPrice(w) \/ (\E as \in {"gone", "stale"} : Reread(w, as))
  \/ Withdraw(w) \/ GiveUp(w) \/ Invalidate(w) \/ Publish(w)
ClientStep(c) ==
  \/ LookupDeal(c) \/ ComputeDeal(c) \/ StoreDeal(c)
  \/ Connect(c) \/ ReadOffers(c) \/ SendFrame(c) \/ NextMessage(c) \/ StreamFails(c)

Next ==
  \/ \E w \in Worker : \/ \E o \in Offer : LoadOffer(w, o)
                       \/ WorkerStep(w) \/ Crash(w)
  \/ \E c \in Client : \/ LoadItem(c) \/ OpenPage(c) \/ ClientStep(c)
                       \/ ClosePage(c) \/ StreamCut(c)
  \/ CacheExpires \/ SetTarget \/ DayPasses \/ OutageStarts \/ OutageEnds

Spec == Init /\ [][Next]_vars

\* A task and a request run to their end, a tab keeps its stream, the cached
\* deal has a ttl, and Redis is started again.
Fairness ==
  /\ \A w \in Worker : WF_vars(WorkerStep(w))
  /\ \A c \in Client : WF_vars(ClientStep(c))
  /\ WF_vars(CacheExpires) /\ WF_vars(OutageEnds)

FairSpec == Spec /\ Fairness

-----------------------------------------------------------------------------
\* A price compute_best_deal calls best was observed, and if that was in
\* the window the low it is graded against counts it: a deal is cheaper than
\* "the lowest in 30 days" only when it was last seen before those 30 days.
\* This rests on compute_best_deal reading the rows before the low, while
\* workers commit between the two.
CountsItself(d) ==
  d.price # None =>
    \E h \in history :
      /\ h.offer = d.offer /\ h.price = d.price
      /\ h.at >= Since => d.low # None /\ d.low <= d.price

GradedAgainstItself ==
  [][\A r \in Client :
       pc[r] = "missed" /\ pc'[r] = "graded" => CountsItself(deal'[r])]_vars

\* The deal the API serves from its cache settles on the current rows, target
\* and window, although a new target and a new day do not drop it and a
\* reader may store what it computed before the last invalidation.
CachedVerdictSettles ==
  <>[](cache # None =>
         cache \in Deals(rows, Offer, LowestInWindow(history, Since), target))

\* An open page ends up with every price that was recorded, whatever was
\* committed while it was being rendered, connecting or drawing, and although
\* an outage of Redis loses messages: a stream that starts again repaints.
\* Only a worker that dies between its commit and its message is excepted: it
\* tells nobody.
PagesCatchUp ==
  \A v \in Client :
    <>[](pc[v] \in OpenPages /\ "crash" \notin breaks => \A o \in Offer : shown[v][o].price = rows[o].price)
=============================================================================
