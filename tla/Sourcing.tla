------------------------------ MODULE Sourcing ------------------------------
(***************************************************************************)
(* Calling the price sources: the fixed-window rate limiter in Redis, the  *)
(* polite HTTP client of the scraping adapters and the cached application  *)
(* token of eBay, with a clock.                                            *)
(*                                                                         *)
(* A worker process fetches an offer through all three; it searches, as a  *)
(* thread of the API does, without asking the limiter.  Each worker        *)
(* process has its own polite client, the threads of the API share one.    *)
(***************************************************************************)
EXTENDS SourceAnswers, Integers, FiniteSets, FiniteSetsExt

CONSTANTS
  Worker, Searcher,
  Called,       \* the sources that are configured
  Polite,       \* those that go through PoliteClient
  Tokened,      \* those that need the application token
  Limit,        \* calls a window allows (source_rate_limit_per_sec)
  Window,       \* ticks of a window
  MinInterval,  \* ticks between two calls to one host (1 / rate_per_sec)
  MaxRetries, BackoffBase,
  Lifetimes,    \* lifetimes of tokens
  Margin, Floor,\* ttl = max(Floor, lifetime - Margin)
  Answers,      \* what stores answer
  LastTick, Calls,  \* bounds: time, and calls that begin
  Faults        \* subset of {"network", "crash"}

ASSUME ConfiguredSources == Called \subseteq Source /\ Polite \subseteq Called
                            /\ Tokened \subseteq Called \ Polite /\ None \notin Called
ASSUME NaturalBounds == {Limit, Window, MinInterval, MaxRetries, BackoffBase, Margin,
                         Floor, LastTick, Calls} \subseteq Nat /\ Window > 0 /\ Floor > 0
ASSUME LifetimeAssumption == \A l \in Lifetimes : l \in Nat /\ l >= Floor + Margin
ASSUME AnswersAssumption  == Answers \subseteq Answer
ASSUME ProcessesApart     == "api" \notin Worker

VARIABLES
  now,
  counters,     \* Redis: ratelimit:{source}:{window}, with its expiry
  asked,        \* how often the limiter was asked about a source, per tick
  granted,      \* how often it said yes
  pc, job,      \* control and locals of each caller
  lastCall,     \* PoliteClient._last_call of each client
  heard,        \* when a store answered each client last
  token,        \* Redis: ebay:app_token
  calls

redisVars == <<counters, token>>
ghosts    == <<asked, granted>>
clients   == <<lastCall, heard>>
vars      == <<now, redisVars, ghosts, pc, job, clients, calls>>

Caller == Worker \cup Searcher
Tick   == 0..LastTick
\* The API's one registry is shared by its threads.
ClientOf(c) == IF c \in Worker THEN c ELSE "api"
Client      == {ClientOf(c) : c \in Caller}

Refused == {403, 429, 503}
Counter == [count : Nat, expires : Int \cup {None}]
Zero    == [count |-> 0, expires |-> None]
Fresh   == [dies |-> 0, until |-> 0]      \* nothing cached
Idle    == [source |-> None, search |-> FALSE, key |-> 0, count |-> 0, attempt |-> 0,
            wake |-> 0, token |-> 0, since |-> 0, answer |-> None, outcome |-> None]

\* A caller that knows no token yet does not carry one, a retry never counts
\* beyond max_retries, and a counter that was never hit has no expiry.
TypeOK ==
  /\ now \in Tick /\ calls \in 0..Calls
  /\ counters \in [Called -> [Tick -> Counter]]
  /\ \A s \in Called, k \in Tick : counters[s][k].count = 0 => counters[s][k].expires = None
  /\ asked \in [Called -> [Tick -> Nat]] /\ granted \in [Called -> [Tick -> Nat]]
  /\ pc \in [Caller -> {"idle", "asking", "counted", "preparing", "minting", "minted",
                        "ready", "calling", "backoff", "done"}]
  /\ \A c \in Caller :
       /\ (job[c].source = None) = (pc[c] = "idle")
       /\ job[c].attempt \in 0..MaxRetries
       /\ pc[c] \in {"ready", "calling"} /\ job[c].source \in Tokened => job[c].token > 0
  /\ lastCall \in [Client -> [Polite -> Tick \cup {None}]]
  /\ token \in [dies : Nat, until : Nat]

Init ==
  /\ now = 0 /\ calls = Calls
  /\ counters = [s \in Called |-> [k \in Tick |-> Zero]]
  /\ asked = [s \in Called |-> [t \in Tick |-> 0]] /\ granted = asked
  /\ pc = [c \in Caller |-> "idle"] /\ job = [c \in Caller |-> Idle]
  /\ lastCall = [k \in Client |-> [s \in Polite |-> None]] /\ heard = lastCall
  /\ token = Fresh

Go(c, to) == pc' = [pc EXCEPT ![c] = to]

\* An offer, with the answer it was read from, and a denial stay with the
\* caller until its next call; nobody looks at the other outcomes again.
Conclude(c, answer, outcome) ==
  LET kept == outcome.kind \in {"offer", "denied"}
  IN  /\ Go(c, IF kept THEN "done" ELSE "idle")
      /\ job' = [job EXCEPT ![c] =
           IF kept THEN [Idle EXCEPT !.source = job[c].source, !.outcome = outcome,
                                     !.answer = answer] ELSE Idle]

-----------------------------------------------------------------------------
\* fetch_offer asks the limiter; refresh_product's searches do not, nor does
\* the API.  A page is fetched by the API too, when its link is tracked, and
\* WebPageSource.search calls nobody.
StartCall(c) ==
  /\ pc[c] \in {"idle", "done"} /\ calls > 0 /\ calls' = calls - 1
  /\ \E s \in Called, search \in BOOLEAN :
       /\ search => s # "web"
       /\ c \in Searcher => search \/ s = "web"
       /\ job' = [job EXCEPT ![c] = [Idle EXCEPT !.source = s, !.search = search]]
       /\ Go(c, IF c \in Worker /\ ~search THEN "asking" ELSE "preparing")
  /\ UNCHANGED <<now, redisVars, ghosts, clients>>

\* Mutant: one key for all windows, which only its expiry resets.
KeyForever(t) == 0

\* Mutant: a window of one tick.
KeyPerTick(t) == t

\* int(time.time()) // window
KeyAt(t) == t \div Window

\* RateLimiter.allow, its INCR.
Ask(w) ==
  /\ pc[w] = "asking"
  /\ LET s == job[w].source
         n == counters[s][KeyAt(now)].count + 1
     IN  /\ counters' = [counters EXCEPT ![s][KeyAt(now)].count = n]
         /\ job' = [job EXCEPT ![w].key = KeyAt(now), ![w].count = n]
         /\ asked' = [asked EXCEPT ![s][now] = @ + 1]
         /\ granted' = [granted EXCEPT ![s][now] = IF n <= Limit THEN @ + 1 ELSE @]
  /\ Go(w, "counted")
  /\ UNCHANGED <<now, token, clients, calls>>

\* Its EXPIRE, and the answer.  A denied fetch is retried a second later or,
\* out of retries, skipped (FetchPipeline).
Decide(w) ==
  /\ pc[w] = "counted"
  /\ counters' = IF job[w].count = 1
                 THEN [counters EXCEPT ![job[w].source][job[w].key].expires = now + Window + 1]
                 ELSE counters
  /\ IF job[w].count <= Limit THEN Go(w, "preparing") /\ UNCHANGED job
     ELSE Conclude(w, None, Outcome("denied"))
  /\ UNCHANGED <<now, token, ghosts, clients, calls>>

\* The wait of PoliteClient._throttle, with or without its jitter.
Throttled(c) ==
  LET last == lastCall[ClientOf(c)][job[c].source]
      wait == IF last = None THEN 0 ELSE MinInterval - (now - last)
  IN  IF wait <= 0 THEN {now} ELSE {now + wait, now + wait + MinInterval \div 2}

\* EbaySource._access_token looks into the cache; a polite client throttles.
Prepare(c) ==
  /\ pc[c] = "preparing"
  /\ IF job[c].source \in Tokened
     THEN IF now < token.until
          THEN Go(c, "ready") /\ job' = [job EXCEPT ![c].token = token.dies, ![c].wake = now]
          ELSE Go(c, "minting") /\ UNCHANGED job
     ELSE /\ Go(c, "ready")
          /\ \E t \in IF job[c].source \in Polite THEN Throttled(c) ELSE {now} :
               job' = [job EXCEPT ![c].wake = t]
  /\ UNCHANGED <<now, redisVars, ghosts, clients, calls>>

MintToken(c) ==
  /\ pc[c] = "minting" /\ Go(c, "minted")
  /\ \E l \in Lifetimes : job' = [job EXCEPT ![c].token = now + l, ![c].since = now]
  /\ UNCHANGED <<now, redisVars, ghosts, clients, calls>>

\* Mutant: the token is cached for all of its lifetime.
TtlOf(lifetime) == lifetime

\* The cache expires early, so as not to use a token that has just expired.
Ttl(lifetime) == Max({Floor, lifetime - Margin})

StoreToken(c) ==
  /\ pc[c] = "minted" /\ Go(c, "ready")
  /\ token' = [dies |-> job[c].token, until |-> now + Ttl(job[c].token - job[c].since)]
  /\ job' = [job EXCEPT ![c].wake = now]
  /\ UNCHANGED <<now, counters, ghosts, clients, calls>>

Call(c) ==
  /\ pc[c] = "ready" /\ now >= job[c].wake /\ Go(c, "calling")
  /\ UNCHANGED <<now, redisVars, ghosts, job, clients, calls>>

\* PoliteClient._backoff: what Retry-After asks for, or exponential.
Backoffs(attempt, answer) ==
  IF answer.retryAfter # None THEN {answer.retryAfter}
  ELSE {BackoffBase * 2^attempt, BackoffBase * 2^attempt + 1}

\* What a fetch or a search makes of the final answer.
Verdict(c, answer) ==
  IF job[c].search THEN Outcome(Searched(job[c].source, answer, {answer}).kind)
  ELSE Fetched(job[c].source, answer)

\* Mutant: only an answer that is returned counts as a call.
LastCallReturned(c, answer) ==
  IF job[c].source \in Polite /\ answer.status \notin Refused
  THEN [lastCall EXCEPT ![ClientOf(c)][job[c].source] = now] ELSE lastCall

LastCall(c, answer) ==
  IF job[c].source \in Polite
  THEN [lastCall EXCEPT ![ClientOf(c)][job[c].source] = now] ELSE lastCall

\* Mutant: one attempt too many.
LastAttemptLate(attempt) == attempt > MaxRetries

\* for attempt in range(max_retries + 1)
LastAttempt(attempt) == attempt >= MaxRetries

\* An answer arrives.  A polite client that is refused sleeps and calls again,
\* through the throttle, until it gives up with SourceBlockedError.
Reply(c) ==
  /\ pc[c] = "calling"
  /\ \E answer \in Answers :
       /\ lastCall' = LastCall(c, answer)
       /\ heard' = IF job[c].source \in Polite
                   THEN [heard EXCEPT ![ClientOf(c)][job[c].source] = now] ELSE heard
       /\ IF job[c].source \in Polite /\ answer.status \in Refused
          THEN IF LastAttempt(job[c].attempt)
               THEN Conclude(c, answer, Outcome("failed"))
               ELSE /\ \E pause \in Backoffs(job[c].attempt, answer) :
                         job' = [job EXCEPT ![c].attempt = @ + 1, ![c].wake = now + pause]
                    /\ Go(c, "backoff")
          ELSE Conclude(c, answer, Verdict(c, answer))
  /\ UNCHANGED <<now, redisVars, ghosts, calls>>

\* No answer: an exception of the HTTP client, which nothing here retries.
NetworkFails(c) ==
  /\ "network" \in Faults /\ pc[c] \in {"minting", "calling"}
  /\ Conclude(c, None, Outcome("failed"))
  /\ UNCHANGED <<now, redisVars, ghosts, clients, calls>>

\* The sleep of the backoff is over: the next attempt goes through the throttle.
WakeUp(c) ==
  /\ pc[c] = "backoff" /\ now >= job[c].wake
  /\ Go(c, "ready")
  /\ \E t \in Throttled(c) : job' = [job EXCEPT ![c].wake = t]
  /\ UNCHANGED <<now, redisVars, ghosts, clients, calls>>

\* The process dies; a counter it just created keeps no expiry.
Crash(w) ==
  /\ "crash" \in Faults /\ pc[w] \notin {"idle", "done"}
  /\ Go(w, "idle") /\ job' = [job EXCEPT ![w] = Idle]
  /\ lastCall' = [lastCall EXCEPT ![ClientOf(w)] = [s \in Polite |-> None]]
  /\ heard' = [heard EXCEPT ![ClientOf(w)] = [s \in Polite |-> None]]
  /\ UNCHANGED <<now, redisVars, ghosts, calls>>

\* Code between two waits takes no time that matters, and the token's request
\* is answered and stored within the margin (10 s timeout against 60 s).
Urgent ==
  \E c \in Caller :
    \/ pc[c] \in {"counted", "preparing"}
    \/ pc[c] \in {"ready", "backoff"} /\ now >= job[c].wake
    \/ pc[c] = "minted" /\ now + 1 >= job[c].since + Margin

Pass ==
  /\ now < LastTick /\ ~Urgent /\ now' = now + 1
  /\ counters' = [s \in Called |-> [k \in Tick |->
       LET counter == counters[s][k]
       IN  IF counter.expires # None /\ counter.expires <= now' THEN Zero ELSE counter]]
  /\ UNCHANGED <<token, ghosts, pc, job, clients, calls>>

Next ==
  \/ \E c \in Caller : \/ StartCall(c) \/ Prepare(c) \/ MintToken(c) \/ StoreToken(c)
                       \/ Call(c) \/ Reply(c) \/ NetworkFails(c) \/ WakeUp(c)
  \/ \E w \in Worker : Ask(w) \/ Decide(w) \/ Crash(w)
  \/ Pass

Spec == Init /\ [][Next]_vars

-----------------------------------------------------------------------------
CallsIn(f, span) == MapThenSumSet(LAMBDA t : f[t], span \cap Tick)

\* Of the fetches the limiter lets through to a source, no window of it has
\* more than Limit and no span as long as a window more than twice as many:
\* the price of a fixed window at its boundary, whoever of the workers ask,
\* crash between INCR and EXPIRE, or lose their key.
RateHeld ==
  \A s \in Called, t \in Tick :
    LET span == t..(t + Window - 1)
    IN  CallsIn(granted[s], span) <= (IF t % Window = 0 THEN Limit ELSE 2 * Limit)

\* A fetch is denied only when its own window was asked for more than Limit
\* calls: a counter left without an expiry by a crash denies nothing later.
DenialsAreDue ==
  [][\A w \in Worker :
       pc[w] = "counted" /\ pc'[w] = "done" =>
         LET first == (now \div Window) * Window
         IN  CallsIn(asked[job[w].source], first..now) > Limit]_vars

\* One client calls a host again no sooner than MinInterval after its last
\* answer, refusals and the retries after them included.
AsksPolitely ==
  [][\A c \in Caller :
       pc[c] = "ready" /\ pc'[c] = "calling" /\ job[c].source \in Polite =>
         LET last == heard[ClientOf(c)][job[c].source]
         IN  last # None => now - last >= MinInterval]_vars

\* eBay is never called with a token that has expired, whoever minted it and
\* however late it was stored.
TokenFresh ==
  [][\A c \in Caller :
       pc[c] = "ready" /\ pc'[c] = "calling" /\ job[c].source \in Tokened =>
         now < job[c].token]_vars

\* A price is recorded only if the store's answer quotes it and is no bot wall
\* that the adapter can tell: a page that merely came with status 200 does not.
OffersAreQuoted ==
  \A c \in Caller :
    pc[c] = "done" /\ job[c].outcome.kind = "offer" =>
      /\ job[c].outcome.price \in Quotes(job[c].answer) \cap Price
      /\ job[c].source \in SeesWall => ~job[c].answer.wall
=============================================================================
