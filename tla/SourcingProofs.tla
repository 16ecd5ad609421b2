--------------------------- MODULE SourcingProofs ---------------------------
(* Theorems about SourceAnswers and Sourcing, for every value of their *)
(* constants.                                                          *)
EXTENDS Sourcing, SumTheorems, SequenceTheorems, TLAPS

-----------------------------------------------------------------------------
(* What the adapters read is in the answer.                                *)

\* First finds a value of the sequence, one that was looked for, or nothing.
LEMMA FirstIsThere ==
  ASSUME NEW seq \in Seq(Raw), NEW values
  PROVE  \/ First(seq, values) = None
         \/ /\ First(seq, values) \in values
            /\ \E i \in DOMAIN seq : First(seq, values) = seq[i]
<1> DEFINE hits == {i \in DOMAIN seq : seq[i] \in values}
<1>1. hits \subseteq Nat
  OBVIOUS
<1>2. CASE hits = {}
  BY <1>2 DEF First
<1>3. CASE hits # {}
  <2> DEFINE first == CHOOSE i \in hits : \A j \in hits : i <= j
  <2>1. first \in hits
    BY <1>1, <1>3, LeastNumber
  <2>2. First(seq, values) = seq[first]
    BY <1>3 DEF First
  <2> QED
    BY <2>1, <2>2
<1> QED
  BY <1>2, <1>3

LEMMA PageQuotes ==
  ASSUME NEW answer \in Answer
  PROVE  FromPage(answer) \in (Quotes(answer) \cap Price) \cup {None}
<1> DEFINE ld == First(answer.ld, Price \cup {Junk})
           layers == <<ld, answer.meta, answer.microdata>>
<1>1. /\ answer.ld \in Seq(Raw) /\ answer.meta \in Raw /\ answer.microdata \in Raw
  BY DEF Answer
<1>2. ld = None \/ (ld \in Quotes(answer) /\ ld \in Raw)
  BY <1>1, FirstIsThere DEF Quotes, Raw
<1>3. layers \in Seq(Raw) /\ DOMAIN layers = 1..3
  BY <1>1, <1>2 DEF Raw
<1>4. /\ layers[1] = ld /\ layers[2] = answer.meta /\ layers[3] = answer.microdata
  OBVIOUS
<1>5. FromPage(answer) = First(layers, Price)
  BY DEF FromPage
<1> HIDE DEF layers, ld
<1>6. \/ FromPage(answer) = None
      \/ /\ FromPage(answer) \in Price
         /\ \E i \in 1..3 : FromPage(answer) = layers[i]
  BY <1>3, <1>5, FirstIsThere
<1>7. answer.meta \in Quotes(answer) /\ answer.microdata \in Quotes(answer)
  BY DEF Quotes
<1>8. \A i \in 1..3 : i = 1 \/ i = 2 \/ i = 3
  OBVIOUS
<1> QED
  BY <1>2, <1>4, <1>6, <1>7, <1>8, DistinctRaw

LEMMA StructuredQuotes ==
  ASSUME NEW answer \in Answer, NEW rest \in Seq(Raw),
         \A i \in DOMAIN rest : rest[i] \in Quotes(answer)
  PROVE  First(answer.ld \o rest, Price) \in (Quotes(answer) \cap Price) \cup {None}
<1> DEFINE all == answer.ld \o rest
<1>1. answer.ld \in Seq(Raw)
  BY DEF Answer
<1>2. /\ all \in Seq(Raw) /\ Len(all) = Len(answer.ld) + Len(rest)
      /\ \A i \in 1..(Len(answer.ld) + Len(rest)) :
           all[i] = IF i <= Len(answer.ld) THEN answer.ld[i] ELSE rest[i - Len(answer.ld)]
  BY <1>1, ConcatProperties
<1>3. \A i \in DOMAIN answer.ld : answer.ld[i] \in Quotes(answer)
  BY DEF Quotes
<1> HIDE DEF all
<1>4. ASSUME NEW i \in DOMAIN all
      PROVE  all[i] \in Quotes(answer)
  <2>1. i \in 1..(Len(answer.ld) + Len(rest))
    BY <1>2
  <2>2. CASE i <= Len(answer.ld)
    BY <1>1, <1>2, <1>3, <2>1, <2>2
  <2>3. CASE ~(i <= Len(answer.ld))
    <3>1. i - Len(answer.ld) \in DOMAIN rest
      BY <1>1, <2>1, <2>3
    <3> QED
      BY <1>2, <2>1, <2>3, <3>1
  <2> QED
    BY <2>2, <2>3
<1>5. \/ First(all, Price) = None
      \/ /\ First(all, Price) \in Price
         /\ \E i \in DOMAIN all : First(all, Price) = all[i]
  BY <1>2, FirstIsThere
<1> QED
  BY <1>4, <1>5 DEF all

\* Each adapter's price is one that its answer quotes.
LEMMA QuotedIsThere ==
  ASSUME NEW source \in Source, NEW answer \in Answer
  PROVE  QuotedPrice(source, answer) \in (Quotes(answer) \cap Price) \cup {None}
<1>1. /\ answer.dom \in Raw /\ answer.microdata \in Raw /\ answer.price \in Raw
      /\ answer.offers \in Seq(Raw)
  BY DEF Answer
<1>2. /\ answer.dom \in Quotes(answer) /\ answer.microdata \in Quotes(answer)
      /\ answer.price \in Quotes(answer)
      /\ \A i \in DOMAIN answer.offers : answer.offers[i] \in Quotes(answer)
  BY DEF Quotes
<1>3. \A raw \in Raw : ParsePrice(raw) = None \/ (ParsePrice(raw) = raw /\ raw \in Price)
  BY DEF ParsePrice, Raw
<1>4. CASE source \in {"mock", "ebay", "bestbuy"}
  BY <1>1, <1>2, <1>3, <1>4 DEF QuotedPrice, FromField
<1>5. CASE source = "scraper"
  BY <1>1, <1>2, <1>3, <1>5 DEF QuotedPrice, FromCard
<1>6. CASE source = "ebay_scraper"
  <2> DEFINE rest == <<answer.microdata, answer.dom>>
  <2>1. rest \in Seq(Raw) /\ \A i \in DOMAIN rest : rest[i] \in Quotes(answer)
    BY <1>1, <1>2
  <2> HIDE DEF rest
  <2>2. First(answer.ld \o rest, Price) \in (Quotes(answer) \cap Price) \cup {None}
    BY <2>1, StructuredQuotes
  <2> QED
    BY <1>6, <2>2 DEF QuotedPrice, FromEbayPage, rest
<1>7. CASE source = "shein_scraper"
  <2> DEFINE rest == <<answer.dom>>
  <2>1. rest \in Seq(Raw) /\ \A i \in DOMAIN rest : rest[i] \in Quotes(answer)
    BY <1>1, <1>2
  <2> HIDE DEF rest
  <2>2. First(answer.ld \o rest, Price) \in (Quotes(answer) \cap Price) \cup {None}
    BY <2>1, StructuredQuotes
  <2> QED
    BY <1>7, <2>2 DEF QuotedPrice, FromSheinPage, rest
<1>8. CASE source = "web"
  BY <1>8, PageQuotes DEF QuotedPrice
<1>9. CASE source = "rapidapi"
  <2>1. CASE answer.price = None /\ answer.offers # <<>>
    <3>1. 1 \in DOMAIN answer.offers /\ answer.offers[1] \in Raw
      BY <1>1, <2>1
    <3>2. QuotedPrice(source, answer) = ParsePrice(answer.offers[1])
      BY <1>9, <2>1 DEF QuotedPrice, FromProduct
    <3> QED
      BY <1>2, <1>3, <3>1, <3>2
  <2>2. CASE ~(answer.price = None /\ answer.offers # <<>>)
    <3>1. QuotedPrice(source, answer) = ParsePrice(answer.price)
      BY <1>9, <2>2 DEF QuotedPrice, FromProduct
    <3> QED
      BY <1>1, <1>2, <1>3, <3>1
  <2> QED
    BY <2>1, <2>2
<1> QED
  BY <1>4, <1>5, <1>6, <1>7, <1>8, <1>9 DEF Source

Outcomes ==
  [kind : {"gone", "throttled", "failed", "denied", "offer", "offers"},
   price : Price \cup {None}]

\* What an adapter makes of an answer, and what it takes to make an offer of it.
LEMMA FetchedQuotes ==
  ASSUME NEW source \in Source, NEW answer \in Answer
  PROVE  /\ Fetched(source, answer) \in Outcomes
         /\ Fetched(source, answer).kind = "offer" =>
              /\ Fetched(source, answer).price \in Quotes(answer) \cap Price
              /\ source \in SeesWall => ~answer.wall
<1> DEFINE quoted == QuotedPrice(source, answer)
<1>1. quoted \in (Quotes(answer) \cap Price) \cup {None}
  BY QuotedIsThere
<1> HIDE DEF quoted
<1>2. CASE answer.status \in {404, 410} /\ source \in TellsGone
  BY <1>2 DEF Fetched, Outcome, Outcomes
<1>3. CASE /\ ~(answer.status \in {404, 410} /\ source \in TellsGone)
           /\ answer.status = 429 /\ source \in TellsThrottled
  BY <1>3 DEF Fetched, Outcome, Outcomes
<1>4. CASE /\ ~(answer.status \in {404, 410} /\ source \in TellsGone)
           /\ ~(answer.status = 429 /\ source \in TellsThrottled)
  <2>1. Fetched(source, answer) =
          IF answer.status >= 400 \/ (answer.wall /\ source \in SeesWall) \/ quoted = None
          THEN Outcome("failed") ELSE [kind |-> "offer", price |-> quoted]
    BY <1>4 DEF Fetched, quoted
  <2>2. CASE answer.status >= 400 \/ (answer.wall /\ source \in SeesWall) \/ quoted = None
    BY <2>1, <2>2 DEF Outcome, Outcomes
  <2>3. CASE ~(answer.status >= 400 \/ (answer.wall /\ source \in SeesWall) \/ quoted = None)
    BY <1>1, <2>1, <2>3 DEF Outcomes
  <2> QED
    BY <2>2, <2>3
<1> QED
  BY <1>2, <1>3, <1>4

-----------------------------------------------------------------------------
(***************************************************************************)
(* The inductive invariant: tables, records and locals are typed; a cached *)
(* token leaves the cache before it dies; a caller that just counted finds *)
(* its counter; a token that is not stored yet is younger than the margin, *)
(* and one that is about to be used is alive; what a caller holds on to    *)
(* was quoted.  The clock stands still where Urgent says so, and that is   *)
(* what keeps a token alive from its lookup to the call.                   *)
(***************************************************************************)
Job ==
  [source : Called \cup {None}, search : BOOLEAN, key : Tick, count : Nat, attempt : 0..MaxRetries,
   wake : Int, token : Nat, since : Nat, answer : Answers \cup {None},
   outcome : Outcomes \cup {None}]

At == {"idle", "asking", "counted", "preparing", "minting", "minted", "ready",
       "calling", "backoff", "done"}

Quoted(j) ==
  /\ j.outcome \in Outcomes
  /\ j.outcome.kind = "offer" =>
       /\ j.outcome.price \in Quotes(j.answer) \cap Price
       /\ j.source \in SeesWall => ~j.answer.wall

TokenOK(at, j, t) ==
  /\ at \in {"minting", "minted"} => j.source \in Tokened
  /\ at = "minted" =>
       /\ \E l \in Lifetimes : j.token = j.since + l
       /\ t = j.since \/ (t > j.since /\ t < j.since + Margin)
  /\ at = "ready" /\ j.source \in Tokened => t < j.token /\ j.wake <= t
  /\ at = "calling" /\ j.source \in Tokened => j.token > 0

JobOK(at, j, t, kept) ==
  /\ at \in At /\ j \in Job
  /\ (j.source = None) = (at = "idle")
  /\ at = "counted" => kept[j.source][j.key].count > 0
  /\ at = "backoff" => j.source \in Polite
  /\ at = "done" => Quoted(j)
  /\ TokenOK(at, j, t)

Clocked == now \in Tick /\ calls \in 0..Calls

Cached ==
  /\ counters \in [Called -> [Tick -> Counter]]
  /\ \A s \in Called, k \in Tick : counters[s][k].count = 0 => counters[s][k].expires = None
  /\ token \in [dies : Nat, until : Nat] /\ token.until <= token.dies

Recorded ==
  /\ asked \in [Called -> [Tick -> Nat]] /\ granted \in [Called -> [Tick -> Nat]]
  /\ lastCall \in [Client -> [Polite -> Tick \cup {None}]] /\ heard = lastCall

Jobs ==
  /\ pc \in [Caller -> At] /\ job \in [Caller -> Job]
  /\ \A c \in Caller : JobOK(pc[c], job[c], now, counters)

IInv == Clocked /\ Cached /\ Recorded /\ Jobs

LEMMA Bounds ==
  /\ Limit \in Nat /\ Window \in Nat /\ Window > 0 /\ MinInterval \in Nat
  /\ MaxRetries \in Nat /\ BackoffBase \in Nat /\ Margin \in Nat /\ Floor \in Nat
  /\ Floor > 0 /\ LastTick \in Nat /\ Calls \in Nat /\ Tick \subseteq Nat
  BY NaturalBounds DEF Tick

LEMMA KeyInTime ==
  ASSUME NEW t \in Tick
  PROVE  KeyAt(t) \in Tick
  BY Bounds DEF KeyAt, Tick

LEMMA ClientKnown == \A c \in Caller : ClientOf(c) \in Client
  BY DEF Client

LEMMA IdleJob ==
  /\ Idle \in Job /\ Idle.source = None /\ Idle.token = 0
  /\ \A t, kept : JobOK("idle", Idle, t, kept)
<1>1. 0 \in Tick /\ 0 \in 0..MaxRetries
  BY Bounds DEF Tick
<1> QED
  BY <1>1 DEF Idle, Job, JobOK, TokenOK, At

LEMMA TypeFollows == IInv => TypeOK
<1>1. At = {"idle", "asking", "counted", "preparing", "minting", "minted",
            "ready", "calling", "backoff", "done"}
  BY DEF At
<1>2. ASSUME NEW c \in Caller, JobOK(pc[c], job[c], now, counters), now \in Tick
      PROVE  /\ (job[c].source = None) = (pc[c] = "idle")
             /\ job[c].attempt \in 0..MaxRetries
             /\ pc[c] \in {"ready", "calling"} /\ job[c].source \in Tokened =>
                  job[c].token > 0
  BY <1>2, Bounds DEF JobOK, TokenOK, Job
<1> QED
  BY <1>1, <1>2 DEF IInv, Clocked, Cached, Recorded, Jobs, TypeOK

LEMMA InitKept == Init => IInv
<1> SUFFICES ASSUME Init PROVE IInv
  OBVIOUS
<1>1. Clocked
  BY Bounds DEF Init, Clocked, Tick
<1>2. Cached
  <2>1. Zero \in Counter /\ Zero.count = 0 /\ Zero.expires = None
    BY DEF Zero, Counter
  <2> QED
    BY <2>1 DEF Init, Cached, Fresh
<1>3. Recorded
  BY DEF Init, Recorded
<1>4. Jobs
  BY IdleJob DEF Init, Jobs, At
<1> QED
  BY <1>1, <1>2, <1>3, <1>4 DEF IInv

-----------------------------------------------------------------------------
(* A step of one caller leaves the others as they are.                     *)

LEMMA OneJob ==
  ASSUME IInv, NEW c \in Caller, NEW at, NEW j,
         pc' = [pc EXCEPT ![c] = at], job' = [job EXCEPT ![c] = j],
         now' = now, counters' = counters, JobOK(at, j, now, counters)
  PROVE  Jobs'
<1>1. at \in At /\ j \in Job
  BY DEF JobOK
<1>2. \A d \in Caller : /\ pc'[d] = IF d = c THEN at ELSE pc[d]
                        /\ job'[d] = IF d = c THEN j ELSE job[d]
  BY DEF IInv, Jobs
<1> QED
  BY <1>1, <1>2 DEF IInv, Jobs

LEMMA Concluded ==
  ASSUME IInv, NEW c \in Caller, pc[c] # "idle",
         NEW answer \in Answers \cup {None}, NEW outcome \in Outcomes,
         outcome.kind = "offer" =>
           /\ outcome.price \in Quotes(answer) \cap Price
           /\ job[c].source \in SeesWall => ~answer.wall,
         Conclude(c, answer, outcome), now' = now, counters' = counters
  PROVE  Jobs'
<1>1. job[c] \in Job /\ job[c].source # None
  BY DEF IInv, Jobs, JobOK
<1>2. CASE outcome.kind \in {"offer", "denied"}
  <2> DEFINE j == [Idle EXCEPT !.source = job[c].source, !.outcome = outcome,
                               !.answer = answer]
  <2>1. pc' = [pc EXCEPT ![c] = "done"] /\ job' = [job EXCEPT ![c] = j]
    BY <1>2 DEF Conclude, Go
  <2>2. /\ j \in Job /\ j.source = job[c].source /\ j.outcome = outcome
        /\ j.answer = answer
    BY <1>1, IdleJob DEF Job, Idle
  <2> HIDE DEF j
  <2>3. JobOK("done", j, now, counters)
    BY <1>1, <2>2 DEF JobOK, TokenOK, At, Quoted
  <2> QED
    BY <2>1, <2>3, OneJob
<1>3. CASE outcome.kind \notin {"offer", "denied"}
  <2>1. pc' = [pc EXCEPT ![c] = "idle"] /\ job' = [job EXCEPT ![c] = Idle]
    BY <1>3 DEF Conclude, Go
  <2> QED
    BY <2>1, OneJob, IdleJob
<1> QED
  BY <1>2, <1>3

\* What a step has to keep besides the jobs.
LEMMA Rest ==
  ASSUME IInv, Jobs', now' = now, calls' = calls \/ (calls > 0 /\ calls' = calls - 1),
         UNCHANGED <<redisVars, ghosts, clients>>
  PROVE  IInv'
  BY Bounds DEF IInv, Clocked, Cached, Recorded, redisVars, ghosts, clients, Client

-----------------------------------------------------------------------------
LEMMA StartKept ==
  ASSUME IInv, NEW c \in Caller, StartCall(c)
  PROVE  IInv'
<1>1. PICK s \in Called, search \in BOOLEAN :
        /\ job' = [job EXCEPT ![c] = [Idle EXCEPT !.source = s, !.search = search]]
        /\ Go(c, IF c \in Worker /\ ~search THEN "asking" ELSE "preparing")
  BY DEF StartCall
<1> DEFINE j == [Idle EXCEPT !.source = s, !.search = search]
           at == IF c \in Worker /\ ~search THEN "asking" ELSE "preparing"
<1>2. j \in Job /\ j.source = s /\ s # None
  BY IdleJob, ConfiguredSources DEF Job, Idle
<1>3. pc' = [pc EXCEPT ![c] = at] /\ job' = [job EXCEPT ![c] = j]
  BY <1>1 DEF Go
<1> HIDE DEF j
<1>4. JobOK(at, j, now, counters)
  BY <1>2 DEF JobOK, TokenOK, At
<1>5. now' = now /\ counters' = counters
  BY DEF StartCall, redisVars
<1> HIDE DEF at
<1>6. Jobs'
  BY <1>3, <1>4, <1>5, OneJob
<1> QED
  BY <1>6, Rest DEF StartCall

LEMMA AskKept ==
  ASSUME IInv, NEW w \in Worker, Ask(w)
  PROVE  IInv'
<1> DEFINE s == job[w].source
           k == KeyAt(now)
           n == counters[s][k].count + 1
<1>0. w \in Caller /\ ClientOf(w) \in Client
  BY ClientKnown DEF Caller
<1>1. pc[w] = "asking" /\ job[w] \in Job /\ s \in Called /\ now \in Tick
  BY <1>0 DEF Ask, IInv, Clocked, Jobs, JobOK, Job
<1>2. k \in Tick
  BY <1>1, KeyInTime
<1> HIDE DEF k
<1>3. counters[s][k] \in Counter /\ n \in Nat /\ n > 0
  BY <1>1, <1>2 DEF IInv, Cached, Counter
<1>4. /\ counters' = [counters EXCEPT ![s][k].count = n]
      /\ job' = [job EXCEPT ![w].key = k, ![w].count = n]
      /\ pc' = [pc EXCEPT ![w] = "counted"] /\ now' = now
      /\ asked' = [asked EXCEPT ![s][now] = @ + 1]
      /\ granted' = [granted EXCEPT ![s][now] = IF n <= Limit THEN @ + 1 ELSE @]
      /\ UNCHANGED <<token, clients, calls>>
  BY DEF Ask, Go, k
<1> HIDE DEF s, n
<1>5. /\ counters' \in [Called -> [Tick -> Counter]]
      /\ \A r \in Called, l \in Tick :
           /\ counters'[r][l].count = IF r = s /\ l = k THEN n ELSE counters[r][l].count
           /\ counters'[r][l].expires = counters[r][l].expires
  BY <1>1, <1>2, <1>3, <1>4 DEF IInv, Cached, Counter
<1>6. Cached'
  BY <1>2, <1>3, <1>4, <1>5 DEF IInv, Cached
<1>7. Recorded'
  <2>1. asked' \in [Called -> [Tick -> Nat]] /\ granted' \in [Called -> [Tick -> Nat]]
    BY <1>1, <1>3, <1>4 DEF IInv, Recorded
  <2> QED
    BY <1>4, <2>1 DEF IInv, Recorded, clients, Client
<1>8. Jobs'
  <2> DEFINE j == [job[w] EXCEPT !.key = k, !.count = n]
  <2>1. /\ j \in Job /\ j.source = s /\ j.key = k /\ j.outcome = job[w].outcome
    BY <1>1, <1>2, <1>3 DEF Job, s
  <2>2. job' = [job EXCEPT ![w] = j]
    BY <1>0, <1>1, <1>4 DEF IInv, Jobs, Job
  <2> HIDE DEF j
  <2>3. counters'[s][k].count > 0
    BY <1>1, <1>2, <1>3, <1>5
  <2>4. s # None
    BY <1>1, ConfiguredSources
  <2>5. JobOK("counted", j, now', counters')
    BY <2>1, <2>3, <2>4 DEF JobOK, TokenOK, At
  <2>6. ASSUME NEW d \in Caller, d # w
        PROVE  JobOK(pc[d], job[d], now', counters')
    <3>1. JobOK(pc[d], job[d], now, counters)
      BY DEF IInv, Jobs
    <3>2. pc[d] = "counted" => counters'[job[d].source][job[d].key].count > 0
      <4> SUFFICES ASSUME pc[d] = "counted" PROVE counters'[job[d].source][job[d].key].count > 0
        OBVIOUS
      <4>1. job[d].source \in Called /\ job[d].key \in Tick
        BY <3>1 DEF JobOK, Job
      <4> QED
        BY <1>3, <1>5, <3>1, <4>1 DEF JobOK
    <3> QED
      BY <1>4, <3>1, <3>2 DEF JobOK
  <2>7. /\ pc' \in [Caller -> At] /\ job' \in [Caller -> Job]
        /\ \A d \in Caller : /\ pc'[d] = IF d = w THEN "counted" ELSE pc[d]
                             /\ job'[d] = IF d = w THEN j ELSE job[d]
    BY ZenonT(30), <1>0, <1>4, <2>1, <2>2 DEF IInv, Jobs, At
  <2> QED
    BY <2>5, <2>6, <2>7 DEF Jobs
<1> QED
  BY <1>4, <1>6, <1>7, <1>8 DEF IInv, Clocked

LEMMA DecideKept ==
  ASSUME IInv, NEW w \in Worker, Decide(w)
  PROVE  IInv'
<1> DEFINE s == job[w].source
           k == job[w].key
<1>0. w \in Caller
  BY DEF Caller
<1>1. /\ pc[w] = "counted" /\ job[w] \in Job /\ JobOK(pc[w], job[w], now, counters)
      /\ s \in Called /\ k \in Tick /\ now \in Nat /\ now' = now
  BY <1>0, Bounds DEF Decide, IInv, Clocked, Jobs, JobOK, Job
<1>2. counters[s][k].count > 0
  BY <1>1 DEF JobOK
<1>3. /\ counters' \in [Called -> [Tick -> Counter]]
      /\ \A r \in Called, l \in Tick :
           /\ counters'[r][l].count = counters[r][l].count
           /\ (r # s \/ l # k) => counters'[r][l].expires = counters[r][l].expires
  <2>1. CASE job[w].count = 1
    <3>1. counters' = [counters EXCEPT ![s][k].expires = now + Window + 1]
      BY <2>1 DEF Decide
    <3> QED
      <4>1. counters \in [Called -> [Tick -> Counter]]
        BY DEF IInv, Cached
      <4>2. PICK c : c = [counters[s][k] EXCEPT !.expires = now + Window + 1]
        OBVIOUS
      <4>3. c \in Counter /\ c.count = counters[s][k].count
        <5>1. /\ counters[s][k] \in Counter
              /\ now \in Nat /\ Window \in Nat
          BY <1>1, <4>1, Bounds
        <5>2. now + Window + 1 \in Int
          BY <5>1
        <5>3. \A z \in Counter, e \in Int : /\ [z EXCEPT !.expires = e] \in Counter
                                           /\ [z EXCEPT !.expires = e].count = z.count
          BY DEF Counter
        <5> QED
          BY <4>2, <5>1, <5>2, <5>3
      <4>4. counters' = [counters EXCEPT ![s] = [counters[s] EXCEPT ![k] = c]]
        BY <1>1, <3>1, <4>1, <4>2
      <4> QED
        BY <1>1, <4>1, <4>3, <4>4
  <2>2. CASE job[w].count # 1
    BY <2>2 DEF Decide, IInv, Cached
  <2> QED
    BY <2>1, <2>2
<1>4. Cached'
  <2>1. ASSUME NEW r \in Called, NEW l \in Tick, counters'[r][l].count = 0
        PROVE  counters'[r][l].expires = None
    <3>1. counters[r][l].count = 0
      BY <1>3, <2>1
    <3>2. r # s \/ l # k
      BY <1>2, <3>1
    <3>3. counters[r][l].expires = None
      BY <3>1 DEF IInv, Cached
    <3> QED
      BY <1>3, <3>2, <3>3
  <2>2. token' = token
    BY DEF Decide
  <2> QED
    BY <1>3, <2>1, <2>2 DEF IInv, Cached
<1>5. \A d \in Caller : JobOK(pc[d], job[d], now, counters')
  <2> TAKE d \in Caller
  <2>1. JobOK(pc[d], job[d], now, counters)
    BY DEF IInv, Jobs
  <2>2. pc[d] = "counted" => job[d].source \in Called /\ job[d].key \in Tick
    BY <2>1 DEF JobOK, Job
  <2> QED
    BY <1>3, <2>1, <2>2 DEF JobOK
<1>6. Jobs'
  <2>1. CASE job[w].count <= Limit
    <3>1. pc' = [pc EXCEPT ![w] = "preparing"] /\ job' = job
      BY <2>1 DEF Decide, Go
    <3>2. JobOK("preparing", job[w], now, counters')
      BY <1>1 DEF JobOK, TokenOK, At
    <3>3. pc' \in [Caller -> At]
          /\ \A d \in Caller : pc'[d] = IF d = w THEN "preparing" ELSE pc[d]
      BY <1>0, <3>1 DEF IInv, Jobs, At
    <3>4. job' \in [Caller -> Job]
      BY <3>1 DEF IInv, Jobs
    <3>5. \A d \in Caller : JobOK(pc'[d], job'[d], now', counters')
      BY <1>1, <1>5, <3>1, <3>2, <3>3
    <3> QED
      BY <3>3, <3>4, <3>5 DEF Jobs
  <2>2. CASE ~(job[w].count <= Limit)
    <3> DEFINE j == [Idle EXCEPT !.source = s, !.outcome = Outcome("denied"),
                                 !.answer = None]
    <3>1. pc' = [pc EXCEPT ![w] = "done"] /\ job' = [job EXCEPT ![w] = j]
      BY <2>2 DEF Decide, Conclude, Go, Outcome
    <3>2. Outcome("denied") \in Outcomes /\ Outcome("denied").kind = "denied"
      BY DEF Outcome, Outcomes
    <3>3. j \in Job /\ j.source = s /\ j.outcome = Outcome("denied")
      BY <1>1, <3>2, IdleJob DEF Job, Idle
    <3> HIDE DEF j
    <3>4. JobOK("done", j, now, counters')
      BY <1>1, <3>2, <3>3 DEF JobOK, TokenOK, At, Quoted
    <3>5. /\ pc' \in [Caller -> At] /\ job' \in [Caller -> Job]
          /\ \A d \in Caller : /\ pc'[d] = IF d = w THEN "done" ELSE pc[d]
                               /\ job'[d] = IF d = w THEN j ELSE job[d]
      BY <1>0, <3>1, <3>3 DEF IInv, Jobs, At
    <3> QED
      BY <1>1, <1>5, <3>4, <3>5 DEF Jobs
  <2> QED
    BY <2>1, <2>2
<1> QED
  BY <1>4, <1>6 DEF Decide, IInv, Clocked, Recorded, ghosts, clients, Client

\* The throttle's waits are integers, and long enough.
LEMMA ThrottleWaits ==
  ASSUME IInv, NEW c \in Caller, job[c].source \in Polite, NEW t \in Throttled(c)
  PROVE  /\ t \in Int
         /\ LET last == lastCall[ClientOf(c)][job[c].source]
            IN  last # None => t - last >= MinInterval
<1> DEFINE last == lastCall[ClientOf(c)][job[c].source]
           wait == IF last = None THEN 0 ELSE MinInterval - (now - last)
<1>1. last \in Tick \cup {None} /\ now \in Nat
  BY ClientKnown, Bounds DEF IInv, Recorded, Clocked
<1>2. t \in IF wait <= 0 THEN {now} ELSE {now + wait, now + wait + MinInterval \div 2}
  BY DEF Throttled
<1> HIDE DEF last
<1>3. CASE last = None
  BY <1>1, <1>2, <1>3 DEF last
<1>4. CASE last # None
  <2>1. last \in Nat
    BY <1>1, <1>4, Bounds
  <2>2. MinInterval \div 2 \in Nat
    BY Bounds
  <2>3. t \in Int /\ t - last >= MinInterval
    BY <1>1, <1>2, <1>4, <2>1, <2>2, Bounds
  <2> QED
    BY <2>3 DEF last
<1> QED
  BY <1>3, <1>4

LEMMA PrepareKept ==
  ASSUME IInv, NEW c \in Caller, Prepare(c)
  PROVE  IInv'
<1>1. /\ pc[c] = "preparing" /\ job[c] \in Job /\ job[c].source \in Called
      /\ job[c].source # None /\ now \in Nat /\ now \in Int
  BY Bounds DEF Prepare, IInv, Clocked, Jobs, JobOK, Job
<1>2. now' = now /\ counters' = counters
  BY DEF Prepare, redisVars
<1> SUFFICES Jobs'
  BY Rest DEF Prepare
<1>3. CASE job[c].source \in Tokened /\ now < token.until
  <2> DEFINE j == [job[c] EXCEPT !.token = token.dies, !.wake = now]
  <2>1. pc' = [pc EXCEPT ![c] = "ready"] /\ job' = [job EXCEPT ![c] = j]
    BY <1>1, <1>3 DEF Prepare, Go, IInv, Jobs, Job
  <2>2. token.dies \in Nat /\ now < token.dies
    BY <1>1, <1>3 DEF IInv, Cached
  <2>3. /\ j \in Job /\ j.source = job[c].source /\ j.token = token.dies
        /\ j.wake = now
    BY <1>1, <2>2 DEF Job
  <2> HIDE DEF j
  <2>4. JobOK("ready", j, now, counters)
    BY <1>1, <2>2, <2>3 DEF JobOK, TokenOK, At
  <2> QED
    BY <1>2, <2>1, <2>4, OneJob
<1>4. CASE job[c].source \in Tokened /\ ~(now < token.until)
  <2>1. pc' = [pc EXCEPT ![c] = "minting"] /\ job' = [job EXCEPT ![c] = job[c]]
    BY <1>4 DEF Prepare, Go, IInv, Jobs
  <2>2. JobOK("minting", job[c], now, counters)
    BY <1>1, <1>4 DEF JobOK, TokenOK, At
  <2> QED
    BY <1>2, <2>1, <2>2, OneJob
<1>5. CASE job[c].source \notin Tokened
  <2>1. PICK t \in IF job[c].source \in Polite THEN Throttled(c) ELSE {now} :
          job' = [job EXCEPT ![c].wake = t]
    BY <1>5 DEF Prepare
  <2>2. t \in Int
    BY <1>1, ThrottleWaits
  <2> DEFINE j == [job[c] EXCEPT !.wake = t]
  <2>3. pc' = [pc EXCEPT ![c] = "ready"] /\ job' = [job EXCEPT ![c] = j]
    BY <1>1, <1>5, <2>1 DEF Prepare, Go, IInv, Jobs, Job
  <2>4. j \in Job /\ j.source = job[c].source
    BY <1>1, <2>2 DEF Job
  <2> HIDE DEF j
  <2>5. JobOK("ready", j, now, counters)
    BY <1>1, <1>5, <2>4 DEF JobOK, TokenOK, At
  <2> QED
    BY <1>2, <2>3, <2>5, OneJob
<1> QED
  BY <1>3, <1>4, <1>5

LEMMA MintKept ==
  ASSUME IInv, NEW c \in Caller, MintToken(c)
  PROVE  IInv'
<1>1. /\ pc[c] = "minting" /\ job[c] \in Job /\ job[c].source \in Tokened
      /\ job[c].source # None /\ now \in Nat
  BY Bounds DEF MintToken, IInv, Clocked, Jobs, JobOK, TokenOK
<1>2. PICK l \in Lifetimes : job' = [job EXCEPT ![c].token = now + l, ![c].since = now]
  BY DEF MintToken
<1>3. l \in Nat /\ now + l \in Nat
  BY <1>1, LifetimeAssumption
<1> DEFINE j == [job[c] EXCEPT !.token = now + l, !.since = now]
<1>4. pc' = [pc EXCEPT ![c] = "minted"] /\ job' = [job EXCEPT ![c] = j]
  BY <1>1, <1>2 DEF MintToken, Go, IInv, Jobs, Job
<1>5. /\ j \in Job /\ j.source = job[c].source /\ j.since = now
      /\ j.token = j.since + l
  <2>1. j \in Job
    BY <1>1, <1>3 DEF Job
  <2>2. j.source = job[c].source /\ j.since = now /\ j.token = now + l
    BY <1>1 DEF Job
  <2> QED
    BY <2>1, <2>2
<1> HIDE DEF j
<1>6. JobOK("minted", j, now, counters)
  BY <1>1, <1>5 DEF JobOK, TokenOK, At
<1>7. Jobs'
  BY <1>4, <1>6, OneJob DEF MintToken, redisVars
<1> QED
  BY <1>7, Rest DEF MintToken

LEMMA LargerOfTwo ==
  ASSUME NEW a \in Int, NEW b \in Int, a <= b
  PROVE  Max({a, b}) = b
  BY DEF Max

LEMMA StoreKept ==
  ASSUME IInv, NEW c \in Caller, StoreToken(c)
  PROVE  IInv'
<1>1. /\ pc[c] = "minted" /\ job[c] \in Job /\ job[c].source \in Tokened
      /\ job[c].source # None /\ now \in Nat /\ job[c].since \in Nat
      /\ job[c].token \in Nat
      /\ now = job[c].since \/ (now > job[c].since /\ now < job[c].since + Margin)
  BY Bounds DEF StoreToken, IInv, Clocked, Jobs, JobOK, TokenOK, Job
<1>2. PICK l \in Lifetimes : job[c].token = job[c].since + l
  BY <1>1 DEF IInv, Jobs, JobOK, TokenOK
<1>3. l \in Nat /\ Floor <= l - Margin
  BY LifetimeAssumption, Bounds
<1>4. Ttl(job[c].token - job[c].since) = l - Margin
  <2>1. job[c].token - job[c].since = l
    BY <1>1, <1>2, <1>3
  <2>2. Max({Floor, l - Margin}) = l - Margin
    BY <1>3, LargerOfTwo, Bounds
  <2> QED
    BY <2>1, <2>2 DEF Ttl
<1>5. now < job[c].token /\ now + (l - Margin) <= job[c].token /\ now + (l - Margin) \in Nat
  BY <1>1, <1>2, <1>3, Bounds
<1>6. Cached'
  <2>1. token' = [dies |-> job[c].token, until |-> now + (l - Margin)]
    BY <1>4 DEF StoreToken
  <2>2. counters' = counters
    BY DEF StoreToken
  <2> QED
    BY <1>1, <1>5, <2>1, <2>2 DEF IInv, Cached
<1>7. Jobs'
  <2> DEFINE j == [job[c] EXCEPT !.wake = now]
  <2>1. pc' = [pc EXCEPT ![c] = "ready"] /\ job' = [job EXCEPT ![c] = j]
    BY <1>1 DEF StoreToken, Go, IInv, Jobs, Job
  <2>2. j \in Job /\ j.source = job[c].source /\ j.token = job[c].token /\ j.wake = now
    BY <1>1 DEF Job
  <2> HIDE DEF j
  <2>3. JobOK("ready", j, now, counters)
    BY <1>1, <1>5, <2>2 DEF JobOK, TokenOK, At
  <2> QED
    BY <2>1, <2>3, OneJob DEF StoreToken
<1> QED
  BY <1>6, <1>7 DEF StoreToken, IInv, Clocked, Recorded, ghosts, clients, Client

LEMMA CallKept ==
  ASSUME IInv, NEW c \in Caller, Call(c)
  PROVE  IInv'
<1>1. /\ pc[c] = "ready" /\ JobOK("ready", job[c], now, counters)
      /\ pc' = [pc EXCEPT ![c] = "calling"] /\ job' = job
  BY DEF Call, Go, IInv, Jobs
<1>2. job' = [job EXCEPT ![c] = job[c]]
  BY <1>1 DEF IInv, Jobs
<1>3. JobOK("calling", job[c], now, counters)
  <2>1. job[c].source \in Tokened => job[c].token > 0
    BY <1>1, Bounds DEF IInv, Clocked, JobOK, TokenOK, Job
  <2> QED
    BY <1>1, <2>1 DEF JobOK, TokenOK, At
<1>4. Jobs'
  BY <1>1, <1>2, <1>3, OneJob DEF Call, redisVars
<1> QED
  BY <1>4, Rest DEF Call

LEMMA VerdictQuotes ==
  ASSUME NEW c, NEW answer \in Answer, job[c].source \in Source
  PROVE  /\ Verdict(c, answer) \in Outcomes
         /\ Verdict(c, answer).kind = "offer" =>
              /\ Verdict(c, answer).price \in Quotes(answer) \cap Price
              /\ job[c].source \in SeesWall => ~answer.wall
<1>1. CASE ~job[c].search
  BY <1>1, FetchedQuotes DEF Verdict
<1>2. CASE job[c].search
  <2>1. Searched(job[c].source, answer, {answer}).kind \in {"failed", "offers"}
    BY DEF Searched
  <2> QED
    BY <1>2, <2>1 DEF Verdict, Outcome, Outcomes
<1> QED
  BY <1>1, <1>2

LEMMA PauseTyped ==
  ASSUME NEW attempt \in 0..MaxRetries, NEW answer \in Answer,
         NEW pause \in Backoffs(attempt, answer)
  PROVE  pause \in Int
<1>1. CASE answer.retryAfter # None
  BY <1>1 DEF Backoffs, Answer
<1>2. CASE answer.retryAfter = None
  <2>1. attempt \in Nat /\ BackoffBase \in Int
    BY Bounds
  <2>2. 2^attempt \in Int
    BY <2>1
  <2>3. BackoffBase * 2^attempt \in Int
    BY <2>1, <2>2
  <2> QED
    BY <1>2, <2>3 DEF Backoffs
<1> QED
  BY <1>1, <1>2

LEMMA ReplyKept ==
  ASSUME IInv, NEW c \in Caller, Reply(c)
  PROVE  IInv'
<1>1. /\ pc[c] = "calling" /\ job[c] \in Job /\ job[c].source \in Called
      /\ job[c].source # None /\ job[c].source \in Source
      /\ now \in Tick /\ ClientOf(c) \in Client
  BY ClientKnown, ConfiguredSources DEF Reply, IInv, Clocked, Jobs, JobOK, Job
<1>2. /\ now' = now /\ counters' = counters /\ token' = token /\ calls' = calls
      /\ asked' = asked /\ granted' = granted
  BY DEF Reply, redisVars, ghosts
<1>3. PICK answer \in Answers :
        /\ lastCall' = LastCall(c, answer)
        /\ heard' = IF job[c].source \in Polite
                    THEN [heard EXCEPT ![ClientOf(c)][job[c].source] = now] ELSE heard
        /\ IF job[c].source \in Polite /\ answer.status \in Refused
           THEN IF LastAttempt(job[c].attempt)
                THEN Conclude(c, answer, Outcome("failed"))
                ELSE /\ \E pause \in Backoffs(job[c].attempt, answer) :
                          job' = [job EXCEPT ![c].attempt = @ + 1, ![c].wake = now + pause]
                     /\ Go(c, "backoff")
           ELSE Conclude(c, answer, Verdict(c, answer))
  BY DEF Reply
<1>4. answer \in Answer
  BY AnswersAssumption
<1>5. Recorded'
  BY <1>1, <1>2, <1>3 DEF IInv, Recorded, LastCall, Client
<1>6. Jobs'
  <2>1. CASE /\ job[c].source \in Polite /\ answer.status \in Refused
             /\ LastAttempt(job[c].attempt)
    <3>1. Conclude(c, answer, Outcome("failed"))
      BY <1>3, <2>1
    <3>2. Outcome("failed") \in Outcomes /\ Outcome("failed").kind # "offer"
      BY DEF Outcome, Outcomes
    <3> QED
      BY <1>1, <1>2, <3>1, <3>2, Concluded
  <2>2. CASE /\ job[c].source \in Polite /\ answer.status \in Refused
             /\ ~LastAttempt(job[c].attempt)
    <3>1. PICK pause \in Backoffs(job[c].attempt, answer) :
            job' = [job EXCEPT ![c].attempt = @ + 1, ![c].wake = now + pause]
      BY <1>3, <2>2
    <3>2. /\ job[c].attempt \in 0..MaxRetries /\ job[c].attempt + 1 \in 0..MaxRetries
          /\ now + pause \in Int
      <4>1. job[c].attempt \in 0..MaxRetries
        BY <1>1 DEF Job
      <4>2. pause \in Int
        BY <1>4, <4>1, PauseTyped
      <4> QED
        BY <1>1, <2>2, <4>1, <4>2, Bounds DEF LastAttempt
    <3> DEFINE j == [job[c] EXCEPT !.attempt = @ + 1, !.wake = now + pause]
    <3>3. pc' = [pc EXCEPT ![c] = "backoff"] /\ job' = [job EXCEPT ![c] = j]
      BY <1>1, <1>3, <2>2, <3>1 DEF Go, IInv, Jobs, Job
    <3>4. j \in Job /\ j.source = job[c].source
      BY <1>1, <3>2 DEF Job
    <3> HIDE DEF j
    <3>5. JobOK("backoff", j, now, counters)
      BY <1>1, <2>2, <3>4 DEF JobOK, TokenOK, At
    <3> QED
      BY <1>2, <3>3, <3>5, OneJob
  <2>3. CASE ~(job[c].source \in Polite /\ answer.status \in Refused)
    <3>1. Conclude(c, answer, Verdict(c, answer))
      BY <1>3, <2>3
    <3> QED
      BY <1>1, <1>2, <1>4, <3>1, Concluded, VerdictQuotes
  <2> QED
    BY <2>1, <2>2, <2>3
<1> QED
  BY <1>2, <1>5, <1>6 DEF IInv, Clocked, Cached

LEMMA FailKept ==
  ASSUME IInv, NEW c \in Caller, NetworkFails(c)
  PROVE  IInv'
<1>1. Outcome("failed") \in Outcomes /\ Outcome("failed").kind # "offer"
  BY DEF Outcome, Outcomes
<1>2. Jobs'
  BY <1>1, Concluded DEF NetworkFails, redisVars
<1> QED
  BY <1>2, Rest DEF NetworkFails

LEMMA WakeKept ==
  ASSUME IInv, NEW c \in Caller, WakeUp(c)
  PROVE  IInv'
<1>1. /\ pc[c] = "backoff" /\ job[c] \in Job /\ job[c].source \in Polite
      /\ job[c].source # None /\ job[c].source \notin Tokened
  BY ConfiguredSources DEF WakeUp, IInv, Jobs, JobOK
<1>2. PICK t \in Throttled(c) : job' = [job EXCEPT ![c].wake = t]
  BY DEF WakeUp
<1>3. t \in Int
  BY <1>1, ThrottleWaits
<1> DEFINE j == [job[c] EXCEPT !.wake = t]
<1>4. pc' = [pc EXCEPT ![c] = "ready"] /\ job' = [job EXCEPT ![c] = j]
  BY <1>1, <1>2 DEF WakeUp, Go, IInv, Jobs, Job
<1>5. j \in Job /\ j.source = job[c].source
  BY <1>1, <1>3 DEF Job
<1> HIDE DEF j
<1>6. JobOK("ready", j, now, counters)
  BY <1>1, <1>5 DEF JobOK, TokenOK, At
<1>7. Jobs'
  BY <1>4, <1>6, OneJob DEF WakeUp, redisVars
<1> QED
  BY <1>7, Rest DEF WakeUp

LEMMA CrashKept ==
  ASSUME IInv, NEW w \in Worker, Crash(w)
  PROVE  IInv'
<1>1. w \in Caller /\ ClientOf(w) \in Client
  BY ClientKnown DEF Caller
<1>2. Jobs'
  BY <1>1, OneJob, IdleJob DEF Crash, Go, redisVars
<1>3. Recorded'
  BY <1>1 DEF Crash, IInv, Recorded, ghosts, Client
<1> QED
  BY <1>2, <1>3 DEF Crash, IInv, Clocked, Cached, redisVars

\* The clock stands still where a token or a counter depends on it.
LEMMA PassKept ==
  ASSUME IInv, Pass
  PROVE  IInv'
<1>1. /\ now \in Tick /\ now' = now + 1 /\ now' \in Tick /\ now \in Nat
  BY Bounds DEF Pass, IInv, Clocked, Tick
<1>2. Cached'
  <2>1. Zero \in Counter /\ Zero.count = 0 /\ Zero.expires = None
    BY DEF Zero, Counter
  <2>2. \A s \in Called, k \in Tick : counters'[s][k] \in {Zero, counters[s][k]}
    BY DEF Pass
  <2>3. counters' \in [Called -> [Tick -> Counter]]
    BY <2>1 DEF Pass, IInv, Cached
  <2>4. token' = token
    BY DEF Pass
  <2> QED
    BY <2>1, <2>2, <2>3, <2>4 DEF IInv, Cached
<1>3. Jobs'
  <2>1. ASSUME NEW c \in Caller
        PROVE  JobOK(pc[c], job[c], now', counters')
    <3>1. JobOK(pc[c], job[c], now, counters) /\ job[c] \in Job
      BY DEF IInv, Jobs
    <3>2. /\ pc[c] # "counted"
          /\ pc[c] = "ready" => ~(now >= job[c].wake)
          /\ pc[c] = "minted" => ~(now + 1 >= job[c].since + Margin)
      BY DEF Pass, Urgent
    <3>3. job[c].since \in Nat /\ job[c].wake \in Int /\ job[c].token \in Nat
      BY <3>1 DEF Job
    <3>4. TokenOK(pc[c], job[c], now')
      BY <1>1, <3>1, <3>2, <3>3, Bounds DEF JobOK, TokenOK
    <3> QED
      BY <3>1, <3>2, <3>4 DEF JobOK
  <2> QED
    BY <2>1 DEF Pass, IInv, Jobs
<1> QED
  BY <1>1, <1>2, <1>3 DEF Pass, IInv, Clocked, Recorded, ghosts, clients, Client

LEMMA Inductive == IInv /\ [Next]_vars => IInv'
<1> SUFFICES ASSUME IInv, [Next]_vars PROVE IInv'
  OBVIOUS
<1>1. CASE \E c \in Caller : \/ StartCall(c) \/ Prepare(c) \/ MintToken(c) \/ StoreToken(c)
                             \/ Call(c) \/ Reply(c) \/ NetworkFails(c) \/ WakeUp(c)
  BY <1>1, StartKept, PrepareKept, MintKept, StoreKept, CallKept, ReplyKept, FailKept,
     WakeKept
<1>2. CASE \E w \in Worker : Ask(w) \/ Decide(w) \/ Crash(w)
  BY <1>2, AskKept, DecideKept, CrashKept
<1>3. CASE Pass
  BY <1>3, PassKept
<1>4. CASE UNCHANGED vars
  <2>1. Jobs'
    BY <1>4 DEF vars, redisVars, IInv, Jobs
  <2> QED
    BY <1>4, <2>1, Rest DEF vars
<1> QED
  BY <1>1, <1>2, <1>3, <1>4 DEF Next

LEMMA Invariance == Spec => []IInv
  BY InitKept, Inductive, PTL DEF Spec

(***************************************************************************)
(* Every reachable state is well typed: a call that needs eBay's token has *)
(* one, retries are counted up to max_retries, a counter that was never    *)
(* hit has no expiry (cache.py, _http.py, ebay.py).                        *)
(***************************************************************************)
THEOREM SourcingTypeCorrect == Spec => []TypeOK
  BY Invariance, TypeFollows, PTL

(***************************************************************************)
(* Whatever stores answer, each of the adapters records only a price that  *)
(* the answer quotes in one of the places it reads, and the two that look  *)
(* at the final URL record none from a bot wall (fetch of every adapter).  *)
(***************************************************************************)
THEOREM PricesAreQuoted == Spec => []OffersAreQuoted
<1>1. IInv => OffersAreQuoted
  BY DEF IInv, Jobs, JobOK, Quoted, OffersAreQuoted
<1> QED
  BY <1>1, Invariance, PTL

(***************************************************************************)
(* eBay is never called with an expired token, for any number of callers   *)
(* that mint and store it at once, as long as tokens are issued for        *)
(* Floor + Margin at least (EbaySource._access_token).                     *)
(***************************************************************************)
THEOREM TokensLive == Spec => TokenFresh
<1>1. ASSUME IInv, NEW c \in Caller, pc[c] = "ready", job[c].source \in Tokened
      PROVE  now < job[c].token
  BY <1>1 DEF IInv, Jobs, JobOK, TokenOK
<1>2. IInv /\ [Next]_vars =>
        [\A c \in Caller :
           pc[c] = "ready" /\ pc'[c] = "calling" /\ job[c].source \in Tokened =>
             now < job[c].token]_vars
  BY <1>1
<1> QED
  BY <1>2, Invariance, PTL DEF Spec, TokenFresh

-----------------------------------------------------------------------------
(***************************************************************************)
(* Spacing: a call that waits for its turn was told to wait long enough,   *)
(* and nobody else calls through its client in between.  Workers have a    *)
(* client each; the threads of the API share one, so there may be only one *)
(* of them.                                                                *)
(***************************************************************************)
OneSearcher == \A r, s \in Searcher : r = s

Spaced ==
  \A c \in Caller :
    pc[c] = "ready" /\ job[c].source \in Polite =>
      LET last == lastCall[ClientOf(c)][job[c].source]
      IN  last # None => job[c].wake - last >= MinInterval

LEMMA ClientsApart ==
  ASSUME OneSearcher, NEW c \in Caller, NEW d \in Caller, c # d
  PROVE  ClientOf(c) # ClientOf(d)
  BY ProcessesApart DEF OneSearcher, Caller, ClientOf

LEMMA SpacedElsewhere ==
  ASSUME IInv, Spaced, NEW c \in Caller, lastCall' = lastCall,
         \A d \in Caller \ {c} : pc'[d] = pc[d] /\ job'[d] = job[d],
         pc'[c] # "ready"
  PROVE  Spaced'
  BY DEF Spaced

LEMMA SpacedReady ==
  ASSUME IInv, Spaced, NEW c \in Caller, lastCall' = lastCall,
         \A d \in Caller \ {c} : pc'[d] = pc[d] /\ job'[d] = job[d],
         job'[c].source \in Polite =>
           LET last == lastCall[ClientOf(c)][job'[c].source]
           IN  last # None => job'[c].wake - last >= MinInterval
  PROVE  Spaced'
  BY DEF Spaced

\* The answers and crashes of others are in other clients' records.
LEMMA SpacedApart ==
  ASSUME IInv, Spaced, OneSearcher, NEW c \in Caller,
         \A d \in Caller \ {c} :
           /\ pc'[d] = pc[d] /\ job'[d] = job[d]
           /\ lastCall'[ClientOf(d)] = lastCall[ClientOf(d)],
         pc'[c] # "ready"
  PROVE  Spaced'
  BY DEF Spaced

\* Whatever is concluded, the caller is idle or done.
LEMMA ConcludedApart ==
  ASSUME IInv, NEW c \in Caller, NEW answer, NEW outcome, Conclude(c, answer, outcome)
  PROVE  /\ pc'[c] # "ready"
         /\ \A d \in Caller \ {c} : pc'[d] = pc[d] /\ job'[d] = job[d]
<1>1. PICK at \in {"idle", "done"} : pc' = [pc EXCEPT ![c] = at]
  BY DEF Conclude, Go
<1>2. PICK j : job' = [job EXCEPT ![c] = j]
  BY DEF Conclude
<1> QED
  BY <1>1, <1>2 DEF IInv, Jobs

LEMMA SpacedKept ==
  ASSUME OneSearcher, IInv, Spaced, [Next]_vars
  PROVE  Spaced'
<1> USE DEF Go
<1>1. ASSUME NEW c \in Caller, StartCall(c)
      PROVE  Spaced'
  BY <1>1, SpacedElsewhere DEF StartCall, IInv, Jobs, clients
<1>2. ASSUME NEW w \in Worker, Ask(w)
      PROVE  Spaced'
  BY <1>2, SpacedElsewhere DEF Ask, IInv, Jobs, clients, Caller
<1>3. ASSUME NEW w \in Worker, Decide(w)
      PROVE  Spaced'
  <2>0. w \in Caller
    BY DEF Caller
  <2>1. CASE job[w].count <= Limit
    BY <1>3, <2>0, <2>1, SpacedElsewhere DEF Decide, IInv, Jobs, clients
  <2>2. CASE ~(job[w].count <= Limit)
    BY <1>3, <2>0, <2>2, ConcludedApart, SpacedElsewhere DEF Decide, clients
  <2> QED
    BY <2>1, <2>2
<1>4. ASSUME NEW c \in Caller, Prepare(c)
      PROVE  Spaced'
  <2>1. job[c] \in Job /\ job \in [Caller -> Job] /\ pc \in [Caller -> At]
    BY DEF IInv, Jobs
  <2>2. lastCall' = lastCall
    BY <1>4 DEF Prepare, clients
  <2>3. CASE job[c].source \in Tokened /\ now < token.until
    <3>1. /\ \A d \in Caller \ {c} : pc'[d] = pc[d] /\ job'[d] = job[d]
          /\ job'[c].source \notin Polite
      BY <1>4, <2>1, <2>3, ConfiguredSources DEF Prepare, Job
    <3> QED
      BY <2>2, <3>1, SpacedReady
  <2>4. CASE job[c].source \in Tokened /\ ~(now < token.until)
    BY <1>4, <2>1, <2>2, <2>4, SpacedElsewhere DEF Prepare
  <2>5. CASE job[c].source \notin Tokened
    <3>1. PICK t \in IF job[c].source \in Polite THEN Throttled(c) ELSE {now} :
            job' = [job EXCEPT ![c].wake = t]
      BY <1>4, <2>5 DEF Prepare
    <3>2. /\ \A d \in Caller \ {c} : pc'[d] = pc[d] /\ job'[d] = job[d]
          /\ job'[c].source = job[c].source /\ job'[c].wake = t
      BY <1>4, <2>1, <2>5, <3>1 DEF Prepare, Job
    <3> QED
      BY <2>2, <3>2, ThrottleWaits, SpacedReady
  <2> QED
    BY <2>3, <2>4, <2>5
<1>5. ASSUME NEW c \in Caller, MintToken(c)
      PROVE  Spaced'
  BY <1>5, SpacedElsewhere DEF MintToken, IInv, Jobs, clients
<1>6. ASSUME NEW c \in Caller, StoreToken(c)
      PROVE  Spaced'
  <2>1. job[c] \in Job /\ job \in [Caller -> Job] /\ job[c].source \in Tokened
    BY <1>6 DEF StoreToken, IInv, Jobs, JobOK, TokenOK
  <2>2. /\ \A d \in Caller \ {c} : pc'[d] = pc[d] /\ job'[d] = job[d]
        /\ job'[c].source \notin Polite
    BY <1>6, <2>1, ConfiguredSources DEF StoreToken, IInv, Jobs, Job
  <2> QED
    BY <1>6, <2>2, SpacedReady DEF StoreToken, clients
<1>7. ASSUME NEW c \in Caller, Call(c)
      PROVE  Spaced'
  BY <1>7, SpacedElsewhere DEF Call, IInv, Jobs, clients
<1>8. ASSUME NEW c \in Caller, Reply(c)
      PROVE  Spaced'
  <2>1. PICK answer \in Answers :
          /\ lastCall' = LastCall(c, answer)
          /\ \/ /\ \E pause \in Backoffs(job[c].attempt, answer) :
                     job' = [job EXCEPT ![c].attempt = @ + 1, ![c].wake = now + pause]
                /\ Go(c, "backoff")
             \/ Conclude(c, answer, Outcome("failed"))
             \/ Conclude(c, answer, Verdict(c, answer))
    BY <1>8 DEF Reply
  <2>2. /\ pc'[c] # "ready"
        /\ \A d \in Caller \ {c} : pc'[d] = pc[d] /\ job'[d] = job[d]
    BY <2>1, ConcludedApart DEF IInv, Jobs
  <2>3. \A d \in Caller \ {c} : lastCall'[ClientOf(d)] = lastCall[ClientOf(d)]
    BY <2>1, ClientsApart, ClientKnown DEF LastCall, IInv, Recorded
  <2> QED
    BY <2>2, <2>3, SpacedApart
<1>9. ASSUME NEW c \in Caller, NetworkFails(c)
      PROVE  Spaced'
  BY <1>9, ConcludedApart, SpacedElsewhere DEF NetworkFails, clients
<1>10. ASSUME NEW c \in Caller, WakeUp(c)
       PROVE  Spaced'
  <2>1. job[c] \in Job /\ job \in [Caller -> Job] /\ job[c].source \in Polite
    BY <1>10 DEF WakeUp, IInv, Jobs, JobOK
  <2>2. PICK t \in Throttled(c) : job' = [job EXCEPT ![c].wake = t]
    BY <1>10 DEF WakeUp
  <2>3. /\ \A d \in Caller \ {c} : pc'[d] = pc[d] /\ job'[d] = job[d]
        /\ job'[c].source = job[c].source /\ job'[c].wake = t
    BY <1>10, <2>1, <2>2 DEF WakeUp, IInv, Jobs, Job
  <2> QED
    BY <1>10, <2>1, <2>3, ThrottleWaits, SpacedReady DEF WakeUp, clients
<1>11. ASSUME NEW w \in Worker, Crash(w)
       PROVE  Spaced'
  <2>1. w \in Caller
    BY DEF Caller
  <2>2. \A d \in Caller \ {w} : lastCall'[ClientOf(d)] = lastCall[ClientOf(d)]
    BY <1>11, <2>1, ClientsApart, ClientKnown DEF Crash, IInv, Recorded
  <2>3. /\ pc'[w] # "ready"
        /\ \A d \in Caller \ {w} : pc'[d] = pc[d] /\ job'[d] = job[d]
    BY <1>11, <2>1 DEF Crash, IInv, Jobs
  <2> QED
    BY <2>1, <2>2, <2>3, SpacedApart
<1>12. CASE Pass
  BY <1>12 DEF Pass, Spaced, clients
<1>13. CASE UNCHANGED vars
  BY <1>13 DEF vars, Spaced, clients
<1> QED
  BY <1>1, <1>2, <1>3, <1>4, <1>5, <1>6, <1>7, <1>8, <1>9, <1>10, <1>11, <1>12, <1>13
  DEF Next

\* Only Call leads from "ready" to "calling".
LEMMA OnlyCallsCall ==
  ASSUME IInv, Next, NEW c \in Caller, pc[c] = "ready", pc'[c] = "calling"
  PROVE  now >= job[c].wake
<1> USE DEF Go
<1>1. pc \in [Caller -> At]
  BY DEF IInv, Jobs
<1>2. ASSUME NEW d \in Caller, pc[d] # "ready" \/ pc'[d] # "calling",
             \E at : pc' = [pc EXCEPT ![d] = at]
      PROVE  FALSE
  BY <1>1, <1>2
<1>3. ASSUME NEW d \in Caller, NEW answer, NEW outcome, Conclude(d, answer, outcome)
      PROVE  FALSE
  BY <1>1, <1>2, <1>3 DEF Conclude
<1>4. ASSUME NEW d \in Caller, \/ StartCall(d) \/ Prepare(d) \/ MintToken(d)
                              \/ StoreToken(d) \/ WakeUp(d) \/ NetworkFails(d)
      PROVE  FALSE
  BY <1>1, <1>2, <1>3, <1>4
  DEF StartCall, Prepare, MintToken, StoreToken, WakeUp, NetworkFails
<1>5. ASSUME NEW d \in Caller, Reply(d)
      PROVE  FALSE
  BY <1>1, <1>2, <1>3, <1>5 DEF Reply
<1>6. ASSUME NEW w \in Worker, Ask(w) \/ Decide(w) \/ Crash(w)
      PROVE  FALSE
  BY <1>1, <1>2, <1>3, <1>6 DEF Ask, Decide, Crash, Caller
<1>7. ASSUME NEW d \in Caller, Call(d)
      PROVE  d = c /\ now >= job[d].wake
  BY <1>1, <1>7 DEF Call
<1>8. ~Pass
  BY DEF Pass
<1> QED
  BY <1>4, <1>5, <1>6, <1>7, <1>8 DEF Next

(***************************************************************************)
(* A client calls a host again no sooner than MinInterval after its last   *)
(* answer, through refusals, Retry-After and backoff, for any number of    *)
(* workers and one thread of the API (PoliteClient.get).                   *)
(***************************************************************************)
THEOREM CallsAreSpaced == OneSearcher => (Spec => AsksPolitely)
<1> SUFFICES ASSUME OneSearcher PROVE Spec => AsksPolitely
  OBVIOUS
<1>1. Init => Spaced
  BY DEF Init, Spaced
<1>2. IInv /\ Spaced /\ [Next]_vars => Spaced'
  BY SpacedKept
<1>3. IInv /\ Spaced /\ [Next]_vars =>
        [\A c \in Caller :
           pc[c] = "ready" /\ pc'[c] = "calling" /\ job[c].source \in Polite =>
             LET last == heard[ClientOf(c)][job[c].source]
             IN  last # None => now - last >= MinInterval]_vars
  <2> SUFFICES ASSUME IInv, Spaced, Next, NEW c \in Caller,
                      pc[c] = "ready", pc'[c] = "calling", job[c].source \in Polite,
                      heard[ClientOf(c)][job[c].source] # None
               PROVE  now - heard[ClientOf(c)][job[c].source] >= MinInterval
    OBVIOUS
  <2> DEFINE last == heard[ClientOf(c)][job[c].source]
  <2>1. last = lastCall[ClientOf(c)][job[c].source] /\ last \in Tick
    BY ClientKnown DEF IInv, Recorded
  <2>2. job[c].wake \in Int /\ now \in Nat
    BY Bounds DEF IInv, Jobs, Job, Clocked
  <2>3. job[c].wake - last >= MinInterval
    BY <2>1 DEF Spaced
  <2>4. now >= job[c].wake
    BY OnlyCallsCall
  <2> HIDE DEF last
  <2>5. last \in Nat /\ MinInterval \in Nat
    BY <2>1, Bounds
  <2>6. now - last >= MinInterval
    BY <2>2, <2>3, <2>4, <2>5
  <2> QED
    BY <2>6 DEF last
<1> QED
  BY <1>1, <1>2, <1>3, InitKept, Inductive, PTL DEF Spec, AsksPolitely
-----------------------------------------------------------------------------
(***************************************************************************)
(* The rate limiter's windows.  What is counted in Redis is what was asked *)
(* in this window, however often a counter expired before: a counter only  *)
(* expires when its window is over, and a window has not begun when its    *)
(* counter is hit first.  A worker that has counted decides in that window,*)
(* on a number that the counter has reached.                               *)
(***************************************************************************)
WindowOf(k) == {t \in Tick : KeyAt(t) = k}

FutureBlank ==
  \A s \in Called :
    /\ \A t \in Tick : t > now => asked[s][t] = 0 /\ granted[s][t] = 0
    /\ \A k \in Tick : k > KeyAt(now) => counters[s][k] = Zero

Tallied ==
  \A s \in Called :
    LET count == counters[s][KeyAt(now)].count
    IN  /\ CallsIn(asked[s], WindowOf(KeyAt(now))) = count
        /\ CallsIn(granted[s], WindowOf(KeyAt(now))) <= count

WindowsHeld ==
  \A s \in Called, k \in Tick : CallsIn(granted[s], WindowOf(k)) <= Limit

ExpiresLate ==
  \A s \in Called, k \in Tick :
    counters[s][k].expires # None => \A t \in WindowOf(k) : t < counters[s][k].expires

CountsNow ==
  \A w \in Worker :
    pc[w] = "counted" =>
      /\ job[w].key = KeyAt(now)
      /\ job[w].count <= counters[job[w].source][KeyAt(now)].count

CInv == FutureBlank /\ Tallied /\ WindowsHeld /\ ExpiresLate /\ CountsNow

-----------------------------------------------------------------------------
(* Windows of ticks.                                                       *)

LEMMA Division ==
  ASSUME NEW t \in Nat, NEW d \in Nat, d > 0
  PROVE  /\ t \div d \in Nat /\ t % d \in Nat /\ t % d < d
         /\ t = (t \div d) * d + (t % d)
  OBVIOUS

\* Two ticks of one window are less than its length apart.
LEMMA WindowIsShort ==
  ASSUME NEW t \in Tick, NEW u \in Tick, KeyAt(t) = KeyAt(u)
  PROVE  t < u + Window
<1>1. t \in Nat /\ u \in Nat /\ Window \in Nat /\ Window > 0
  BY Bounds
<1> DEFINE k == KeyAt(t)
<1>2. k = t \div Window /\ k = u \div Window
  BY DEF KeyAt
<1> HIDE DEF k
<1>3. t = k * Window + (t % Window) /\ t % Window \in Nat /\ t % Window < Window
  BY <1>1, <1>2, Division
<1>4. u = k * Window + (u % Window) /\ u % Window \in Nat /\ k \in Nat
  BY <1>1, <1>2, Division
<1> QED
  BY <1>1, <1>3, <1>4

LEMMA KeysGrow ==
  ASSUME NEW t \in Tick, NEW u \in Tick, t <= u
  PROVE  KeyAt(t) <= KeyAt(u)
<1> DEFINE k == KeyAt(t)
           l == KeyAt(u)
<1>1. t \in Nat /\ u \in Nat /\ Window \in Nat /\ Window > 0
  BY Bounds
<1>2. /\ t = k * Window + (t % Window) /\ t % Window \in Nat /\ t % Window < Window
      /\ u = l * Window + (u % Window) /\ u % Window \in Nat /\ u % Window < Window
      /\ k \in Nat /\ l \in Nat
  BY <1>1, Division DEF KeyAt
<1> HIDE DEF k, l
<1>3. ASSUME l + 1 <= k
      PROVE  FALSE
  <2>1. (l + 1) * Window <= k * Window
    BY <1>1, <1>2, <1>3
  <2>2. (l + 1) * Window = l * Window + Window
    BY <1>1, <1>2
  <2> QED
    BY <1>1, <1>2, <2>1, <2>2
<1> QED
  BY <1>2, <1>3 DEF k, l

LEMMA SumOfWindow ==
  ASSUME NEW f, NEW k
  PROVE  /\ CallsIn(f, WindowOf(k)) = SumOf(f, WindowOf(k))
         /\ WindowOf(k) \in SUBSET Tick /\ IsFiniteSet(WindowOf(k))
<1>1. WindowOf(k) \cap Tick = WindowOf(k) /\ WindowOf(k) \in SUBSET Tick
  BY DEF WindowOf
<1>2. IsFiniteSet(Tick)
  BY Bounds, FS_Interval DEF Tick
<1> QED
  BY <1>1, <1>2, FS_Subset DEF CallsIn, SumOf

LEMMA Instant ==
  ASSUME IInv
  PROVE  /\ now \in Tick /\ now \in Nat /\ KeyAt(now) \in Tick /\ KeyAt(now) \in Nat
         /\ now \in WindowOf(KeyAt(now))
  BY Bounds, KeyInTime DEF IInv, Clocked, WindowOf
-----------------------------------------------------------------------------
(* The invariant, step by step.                                            *)

\* A step that counts nothing and lets nobody in among those who counted.
LEMMA CountsStand ==
  ASSUME IInv, CInv, UNCHANGED <<now, counters, asked, granted>>,
         \A w \in Worker : pc'[w] = "counted" => pc[w] = "counted" /\ job'[w] = job[w]
  PROVE  CInv'
<1>1. (FutureBlank /\ Tallied /\ WindowsHeld /\ ExpiresLate)'
  BY DEF CInv, FutureBlank, Tallied, WindowsHeld, ExpiresLate
<1>2. CountsNow'
  BY DEF CInv, CountsNow
<1> QED
  BY <1>1, <1>2 DEF CInv

LEMMA OthersCountNothing ==
  ASSUME IInv, CInv, NEW c \in Caller,
         \/ StartCall(c) \/ Prepare(c) \/ MintToken(c) \/ StoreToken(c)
         \/ Call(c) \/ Reply(c) \/ NetworkFails(c) \/ WakeUp(c)
         \/ c \in Worker /\ Crash(c)
  PROVE  CInv'
<1> USE DEF Go
<1>1. pc \in [Caller -> At] /\ job \in [Caller -> Job]
  BY DEF IInv, Jobs
<1>2. UNCHANGED <<now, counters, asked, granted>>
  BY DEF StartCall, Prepare, MintToken, StoreToken, Call, Reply, NetworkFails, WakeUp,
         Crash, redisVars, ghosts
<1>3. ASSUME NEW at, at # "counted", pc' = [pc EXCEPT ![c] = at],
             NEW j, job' = [job EXCEPT ![c] = j]
      PROVE  CInv'
  <2>1. ASSUME NEW w \in Worker, pc'[w] = "counted"
        PROVE  pc[w] = "counted" /\ job'[w] = job[w]
    BY <1>1, <1>3, <2>1 DEF Caller
  <2> QED
    BY <1>2, <2>1, CountsStand
<1>4. ASSUME NEW answer, NEW outcome, Conclude(c, answer, outcome)
      PROVE  CInv'
  <2>1. PICK at \in {"idle", "done"} : pc' = [pc EXCEPT ![c] = at]
    BY <1>4 DEF Conclude
  <2>2. PICK j : job' = [job EXCEPT ![c] = j]
    BY <1>4 DEF Conclude
  <2> QED
    BY <1>3, <2>1, <2>2
<1>5. ASSUME StartCall(c)
      PROVE  CInv'
  BY <1>3, <1>5 DEF StartCall
<1>6. ASSUME Prepare(c)
      PROVE  CInv'
  <2>1. PICK at \in {"ready", "minting"} : pc' = [pc EXCEPT ![c] = at]
    BY <1>6 DEF Prepare
  <2>2. PICK j : job' = [job EXCEPT ![c] = j]
    BY <1>1, <1>6 DEF Prepare
  <2> QED
    BY <1>3, <2>1, <2>2
<1>7. ASSUME MintToken(c)
      PROVE  CInv'
  BY <1>3, <1>7 DEF MintToken
<1>8. ASSUME StoreToken(c)
      PROVE  CInv'
  BY <1>3, <1>8 DEF StoreToken
<1>9. ASSUME Call(c)
      PROVE  CInv'
  <2>1. pc' = [pc EXCEPT ![c] = "calling"] /\ job' = [job EXCEPT ![c] = job[c]]
    BY <1>1, <1>9 DEF Call
  <2> QED
    BY <1>3, <2>1
<1>10. ASSUME Reply(c)
       PROVE  CInv'
  <2>1. PICK answer \in Answers :
          \/ /\ \E pause \in Backoffs(job[c].attempt, answer) :
                  job' = [job EXCEPT ![c].attempt = @ + 1, ![c].wake = now + pause]
             /\ Go(c, "backoff")
          \/ Conclude(c, answer, Outcome("failed"))
          \/ Conclude(c, answer, Verdict(c, answer))
    BY <1>10 DEF Reply
  <2> QED
    BY <1>3, <1>4, <2>1
<1>11. ASSUME NetworkFails(c)
       PROVE  CInv'
  BY <1>4, <1>11 DEF NetworkFails
<1>12. ASSUME WakeUp(c)
       PROVE  CInv'
  BY <1>3, <1>12 DEF WakeUp
<1>13. ASSUME Crash(c)
       PROVE  CInv'
  BY <1>3, <1>13 DEF Crash
<1> QED
  BY <1>5, <1>6, <1>7, <1>8, <1>9, <1>10, <1>11, <1>12, <1>13

LEMMA CountsToBeginWith == Init => CInv
<1> SUFFICES ASSUME Init PROVE CInv
  OBVIOUS
<1>0. IInv
  BY InitKept
<1>1. FutureBlank
  BY DEF Init, FutureBlank
<1>2. ASSUME NEW s \in Called, NEW k \in Tick
      PROVE  /\ CallsIn(asked[s], WindowOf(k)) = 0 /\ CallsIn(granted[s], WindowOf(k)) = 0
             /\ counters[s][k] = Zero
  <2>1. \A t \in WindowOf(k) : asked[s][t] = 0 /\ granted[s][t] = 0
    BY SumOfWindow DEF Init
  <2>2. /\ SumOf(asked[s], WindowOf(k)) = 0 /\ SumOf(granted[s], WindowOf(k)) = 0
    BY <2>1, SumOfWindow, SumOfNothing
  <2> QED
    BY <2>2, SumOfWindow DEF Init
<1>3. Tallied
  BY <1>0, <1>2, Instant DEF Tallied, Zero
<1>4. WindowsHeld
  BY <1>2, Bounds DEF WindowsHeld
<1>5. ExpiresLate
  BY <1>2 DEF ExpiresLate, Zero
<1>6. CountsNow
  BY DEF Init, CountsNow, Caller
<1> QED
  BY <1>1, <1>3, <1>4, <1>5, <1>6 DEF CInv
\* Asking counts once, for the window of the moment.
LEMMA AskCounts ==
  ASSUME IInv, CInv, NEW w \in Worker, Ask(w)
  PROVE  CInv'
<1> DEFINE s == job[w].source
           k == KeyAt(now)
           n == counters[s][k].count + 1
<1>0. w \in Caller
  BY DEF Caller
<1>1. pc[w] = "asking" /\ job[w] \in Job /\ s \in Called
  BY <1>0 DEF Ask, IInv, Jobs, JobOK, Job
<1>2. now \in Tick /\ k \in Tick /\ k \in Nat /\ now \in WindowOf(k)
  BY Instant
<1>3. counters[s][k] \in Counter /\ n \in Nat
  BY <1>1, <1>2 DEF IInv, Cached, Counter
<1>4. /\ counters' = [counters EXCEPT ![s][k].count = n]
      /\ job' = [job EXCEPT ![w].key = k, ![w].count = n]
      /\ pc' = [pc EXCEPT ![w] = "counted"] /\ now' = now
      /\ asked' = [asked EXCEPT ![s][now] = @ + 1]
      /\ granted' = [granted EXCEPT ![s][now] = IF n <= Limit THEN @ + 1 ELSE @]
  BY DEF Ask, Go
<1>5. /\ \A r \in Called, l \in Tick :
           /\ counters'[r][l].count = IF r = s /\ l = k THEN n ELSE counters[r][l].count
           /\ counters'[r][l].expires = counters[r][l].expires
           /\ r # s \/ l # k => counters'[r][l] = counters[r][l]
      /\ counters[s][k].count = n - 1
  <2> HIDE DEF k
  <2>1. n = counters[s][k].count + 1 /\ counters[s][k].count \in Nat
    BY <1>3 DEF Counter
  <2> HIDE DEF s, n
  <2>2. \A r \in Called, l \in Tick :
          /\ counters'[r][l].count = IF r = s /\ l = k THEN n ELSE counters[r][l].count
          /\ counters'[r][l].expires = counters[r][l].expires
    BY <1>1, <1>2, <1>3, <1>4 DEF IInv, Cached, Counter
  <2>3. \A r \in Called, l \in Tick : r # s \/ l # k => counters'[r][l] = counters[r][l]
    BY <1>1, <1>2, <1>4 DEF IInv, Cached
  <2> QED
    BY <2>1, <2>2, <2>3
<1>6. \A r \in Called, t \in Tick :
        /\ asked[r][t] \in Nat /\ granted[r][t] \in Nat
        /\ asked'[r][t] = IF r = s /\ t = now THEN asked[r][t] + 1 ELSE asked[r][t]
        /\ granted'[r][t] = IF r = s /\ t = now /\ n <= Limit
                            THEN granted[r][t] + 1 ELSE granted[r][t]
  <2> HIDE DEF s, n
  <2> QED
    BY <1>1, <1>2, <1>4 DEF IInv, Recorded
<1>7. /\ job'[w].key = k /\ job'[w].count = n /\ job'[w].source = s
      /\ \A d \in Caller \ {w} : pc'[d] = pc[d] /\ job'[d] = job[d]
  <2> HIDE DEF k, n
  <2> QED
    BY <1>0, <1>1, <1>4 DEF IInv, Jobs, Job
<1>8. /\ KeyAt(now') = k /\ now' = now
  BY <1>4
<1> HIDE DEF s, k, n
<1>9. ASSUME NEW r \in Called, NEW l \in Tick, r # s \/ l # k
      PROVE  /\ CallsIn(asked'[r], WindowOf(l)) = CallsIn(asked[r], WindowOf(l))
             /\ CallsIn(granted'[r], WindowOf(l)) = CallsIn(granted[r], WindowOf(l))
  <2>1. ASSUME NEW t \in WindowOf(l)
        PROVE  asked'[r][t] = asked[r][t] /\ granted'[r][t] = granted[r][t]
    <3>1. t \in Tick /\ KeyAt(t) = l
      BY DEF WindowOf
    <3> QED
      BY <1>6, <1>9, <3>1 DEF k
  <2>2. IsFiniteSet(WindowOf(l))
    BY SumOfWindow
  <2>3. SumOf(asked'[r], WindowOf(l)) = SumOf(asked[r], WindowOf(l))
    BY <2>1, <2>2, SameSum
  <2>4. SumOf(granted'[r], WindowOf(l)) = SumOf(granted[r], WindowOf(l))
    BY <2>1, <2>2, SameSum
  <2> QED
    BY <2>3, <2>4, SumOfWindow
<1>10. /\ CallsIn(asked'[s], WindowOf(k)) = CallsIn(asked[s], WindowOf(k)) + 1
       /\ CallsIn(granted'[s], WindowOf(k)) =
            IF n <= Limit THEN CallsIn(granted[s], WindowOf(k)) + 1
            ELSE CallsIn(granted[s], WindowOf(k))
  <2>1. WindowOf(k) \in SUBSET Tick /\ IsFiniteSet(WindowOf(k))
    BY SumOfWindow
  <2>2. SumOf(asked'[s], WindowOf(k)) = SumOf(asked[s], WindowOf(k)) + 1
    <3>1. /\ \A t \in WindowOf(k) : asked[s][t] \in Nat
          /\ \A t \in WindowOf(k) \ {now} : asked'[s][t] = asked[s][t]
          /\ asked'[s][now] = asked[s][now] + 1
      BY <1>1, <1>2, <1>6, <2>1
    <3> QED
      BY <1>2, <2>1, <3>1, SumOfOneMore
  <2>3. CASE n <= Limit
    <3>1. /\ \A t \in WindowOf(k) : granted[s][t] \in Nat
          /\ \A t \in WindowOf(k) \ {now} : granted'[s][t] = granted[s][t]
          /\ granted'[s][now] = granted[s][now] + 1
      BY <1>1, <1>2, <1>6, <2>1, <2>3
    <3>2. SumOf(granted'[s], WindowOf(k)) = SumOf(granted[s], WindowOf(k)) + 1
      BY <1>2, <2>1, <3>1, SumOfOneMore
    <3> QED
      BY <2>2, <2>3, <3>2, SumOfWindow
  <2>4. CASE ~(n <= Limit)
    <3>1. \A t \in WindowOf(k) : granted'[s][t] = granted[s][t]
      BY <1>1, <1>6, <2>1, <2>4
    <3>2. SumOf(granted'[s], WindowOf(k)) = SumOf(granted[s], WindowOf(k))
      BY <2>1, <3>1, SameSum
    <3> QED
      BY <2>2, <2>4, <3>2, SumOfWindow
  <2> QED
    BY <2>3, <2>4
<1>11. /\ CallsIn(asked[s], WindowOf(k)) = n - 1
       /\ CallsIn(granted[s], WindowOf(k)) <= n - 1
       /\ CallsIn(granted[s], WindowOf(k)) \in Nat
  <2>1. \A t \in WindowOf(k) : granted[s][t] \in Nat
    BY <1>1, <1>6, SumOfWindow
  <2>2. SumOf(granted[s], WindowOf(k)) \in Nat
    BY <2>1, SumOfWindow, SumInNat
  <2> QED
    BY <1>1, <1>5, <2>2, SumOfWindow DEF CInv, Tallied, k
<1>12. FutureBlank'
  <2>1. ASSUME NEW r \in Called, NEW t \in Tick, t > now
        PROVE  asked'[r][t] = 0 /\ granted'[r][t] = 0
    <3>1. asked[r][t] = 0 /\ granted[r][t] = 0
      BY <2>1 DEF CInv, FutureBlank
    <3>2. t # now
      BY <1>2, <2>1
    <3>3. asked'[r][t] = asked[r][t] /\ granted'[r][t] = granted[r][t]
      BY <1>6, <3>2
    <3> QED
      BY <3>1, <3>3
  <2>2. ASSUME NEW r \in Called, NEW l \in Tick, l > k
        PROVE  counters'[r][l] = Zero
    <3>1. l # k
      BY <1>2, <2>2
    <3> QED
      BY <1>5, <2>2, <3>1 DEF CInv, FutureBlank, k
  <2> QED
    BY <1>8, <2>1, <2>2 DEF FutureBlank
<1>13. Tallied'
  <2>1. ASSUME NEW r \in Called
        PROVE  /\ CallsIn(asked'[r], WindowOf(k)) = counters'[r][k].count
               /\ CallsIn(granted'[r], WindowOf(k)) <= counters'[r][k].count
    <3>1. CASE r = s
      BY <1>1, <1>2, <1>3, <1>5, <1>10, <1>11, <3>1
    <3>2. CASE r # s
      BY <1>2, <1>5, <1>9, <3>2 DEF CInv, Tallied, k
    <3> QED
      BY <3>1, <3>2
  <2> QED
    BY <1>8, <2>1 DEF Tallied
<1>14. WindowsHeld'
  <2>1. ASSUME NEW r \in Called, NEW l \in Tick
        PROVE  CallsIn(granted'[r], WindowOf(l)) <= Limit
    <3>1. CASE r = s /\ l = k
      BY <1>1, <1>2, <1>3, <1>10, <1>11, <3>1, Bounds DEF CInv, WindowsHeld
    <3>2. CASE ~(r = s /\ l = k)
      BY <1>9, <3>2 DEF CInv, WindowsHeld
    <3> QED
      BY <3>1, <3>2
  <2> QED
    BY <2>1 DEF WindowsHeld
<1>15. ExpiresLate'
  BY <1>5 DEF CInv, ExpiresLate
<1>16. CountsNow'
  <2>1. ASSUME NEW d \in Worker, pc'[d] = "counted"
        PROVE  /\ job'[d].key = k
               /\ job'[d].count <= counters'[job'[d].source][k].count
    <3>1. CASE d = w
      BY <1>1, <1>2, <1>3, <1>5, <1>7, <3>1
    <3>2. CASE d # w
      <4>1. d \in Caller /\ pc[d] = "counted" /\ job'[d] = job[d]
        BY <1>7, <2>1, <3>2 DEF Caller
      <4>2. job[d] \in Job /\ job[d].source \in Called /\ job[d].count \in Nat
        BY <4>1, ConfiguredSources DEF IInv, Jobs, JobOK, Job
      <4>3. job[d].key = k /\ job[d].count <= counters[job[d].source][k].count
        BY <4>1 DEF CInv, CountsNow, k
      <4>4. counters'[job[d].source][k].count =
              IF job[d].source = s THEN n ELSE counters[job[d].source][k].count
        BY <1>2, <1>5, <4>2
      <4>5. job[d].source = s => job[d].count <= n - 1
        BY <1>5, <4>3
      <4> QED
        BY <1>3, <4>1, <4>2, <4>3, <4>4, <4>5
    <3> QED
      BY <3>1, <3>2
  <2> QED
    BY <1>8, <2>1 DEF CountsNow
<1> QED
  BY <1>12, <1>13, <1>14, <1>15, <1>16 DEF CInv
\* A decision sets an expiry that outlives the window, and no count.
LEMMA DecideCounts ==
  ASSUME IInv, CInv, NEW w \in Worker, Decide(w)
  PROVE  CInv'
<1> DEFINE s == job[w].source
           k == KeyAt(now)
<1>0. w \in Caller
  BY DEF Caller
<1>1. pc[w] = "counted" /\ s \in Called /\ job[w].key = k
  BY <1>0 DEF Decide, IInv, Jobs, JobOK, Job, CInv, CountsNow
<1>2. now \in Tick /\ now \in Nat /\ k \in Tick /\ now' = now
      /\ UNCHANGED <<asked, granted>>
  BY Instant DEF Decide, ghosts
<1>3. \A r \in Called, l \in Tick :
        /\ counters'[r][l].count = counters[r][l].count
        /\ counters'[r][l].expires \in {counters[r][l].expires, now + Window + 1}
        /\ counters'[r][l] = counters[r][l] \/ l = k
        /\ counters'[r][l].expires # counters[r][l].expires => l = k
  <2>1. CASE job[w].count = 1
    <3>1. counters' = [counters EXCEPT ![s][k].expires = now + Window + 1]
      BY <1>1, <2>1 DEF Decide
    <3> HIDE DEF s, k
    <3> QED
      BY <1>1, <1>2, <3>1 DEF IInv, Cached, Counter
  <2>2. CASE job[w].count # 1
    BY <2>2 DEF Decide
  <2> QED
    BY <2>1, <2>2
<1>4. \A d \in Worker : pc'[d] = "counted" => pc[d] = "counted" /\ job'[d] = job[d]
  <2>1. CASE job[w].count <= Limit
    <3>1. pc' = [pc EXCEPT ![w] = "preparing"] /\ job' = job
      BY <2>1 DEF Decide, Go
    <3> QED
      BY <1>0, <3>1 DEF IInv, Jobs, Caller
  <2>2. CASE ~(job[w].count <= Limit)
    <3>1. PICK at \in {"idle", "done"} : pc' = [pc EXCEPT ![w] = at]
      BY <2>2 DEF Decide, Conclude, Go
    <3>2. PICK j : job' = [job EXCEPT ![w] = j]
      BY <2>2 DEF Decide, Conclude
    <3> QED
      BY <1>0, <3>1, <3>2 DEF IInv, Jobs, Caller
  <2> QED
    BY <2>1, <2>2
<1> HIDE DEF s
<1>5. FutureBlank'
  <2>1. ASSUME NEW r \in Called, NEW l \in Tick, l > k
        PROVE  counters'[r][l] = Zero
    <3>1. counters[r][l] = Zero
      BY <2>1 DEF CInv, FutureBlank
    <3> HIDE DEF k
    <3>2. l # k
      BY <1>2, <2>1, Bounds
    <3> QED
      BY <1>3, <3>1, <3>2
  <2> QED
    BY <1>2, <2>1 DEF CInv, FutureBlank
<1>6. Tallied' /\ WindowsHeld'
  <2> HIDE DEF k
  <2>1. ASSUME NEW r \in Called
        PROVE  counters'[r][KeyAt(now)].count = counters[r][KeyAt(now)].count
    BY <1>2, <1>3 DEF k
  <2> QED
    BY <1>2, <2>1 DEF CInv, Tallied, WindowsHeld
<1>7. ExpiresLate'
  <2>1. ASSUME NEW r \in Called, NEW l \in Tick, counters'[r][l].expires # None,
               NEW t \in WindowOf(l)
        PROVE  t < counters'[r][l].expires
    <3>1. CASE counters'[r][l].expires = counters[r][l].expires
      BY <2>1, <3>1 DEF CInv, ExpiresLate
    <3>2. CASE counters'[r][l].expires # counters[r][l].expires
      <4>1. l = k /\ counters'[r][l].expires = now + Window + 1
        BY <1>3, <3>2
      <4>2. t \in Tick /\ t \in Nat /\ KeyAt(t) = KeyAt(now)
        BY <4>1, Bounds DEF WindowOf
      <4>3. t < now + Window
        BY <1>2, <4>2, WindowIsShort
      <4> QED
        BY <1>2, <4>1, <4>2, <4>3, Bounds
    <3> QED
      BY <3>1, <3>2
  <2> QED
    BY <2>1 DEF ExpiresLate
<1>8. CountsNow'
  <2>1. ASSUME NEW d \in Worker, pc'[d] = "counted"
        PROVE  /\ job'[d].key = KeyAt(now)
               /\ job'[d].count <= counters'[job'[d].source][KeyAt(now)].count
    <3>1. d \in Caller /\ pc[d] = "counted" /\ job'[d] = job[d]
      BY <1>4, <2>1 DEF Caller
    <3>2. job[d].source \in Called
      BY <3>1 DEF IInv, Jobs, JobOK, Job
    <3>3. /\ job[d].key = KeyAt(now)
          /\ job[d].count <= counters[job[d].source][KeyAt(now)].count
      BY <3>1 DEF CInv, CountsNow
    <3>4. counters'[job[d].source][KeyAt(now)].count =
            counters[job[d].source][KeyAt(now)].count
      BY <1>2, <1>3, <3>2
    <3> QED
      BY <3>1, <3>3, <3>4
  <2> QED
    BY <1>2, <2>1 DEF CountsNow
<1> QED
  BY <1>5, <1>6, <1>7, <1>8 DEF CInv

\* As time passes, a counter goes only with its window.
LEMMA PassCounts ==
  ASSUME IInv, CInv, Pass
  PROVE  CInv'
<1>0. /\ now \in Nat /\ now \in Tick /\ KeyAt(now) \in Nat
  BY Instant
<1>1. /\ now \in Nat /\ now' = now + 1 /\ now' \in Tick /\ now \in Tick
      /\ KeyAt(now) \in Nat /\ KeyAt(now') \in Tick /\ KeyAt(now') \in Nat
      /\ UNCHANGED <<asked, granted, pc, job>>
  <2>1. /\ now' = now + 1 /\ now' \in Tick
        /\ UNCHANGED <<asked, granted, pc, job>>
    BY <1>0, Bounds DEF Pass, ghosts, Tick
  <2> QED
    BY <1>0, <2>1, Bounds, KeyInTime
<1>2. KeyAt(now) <= KeyAt(now')
  BY <1>1, KeysGrow
<1>3. ASSUME NEW s \in Called, NEW l \in Tick
      PROVE  counters'[s][l] =
               IF counters[s][l].expires # None /\ counters[s][l].expires <= now'
               THEN Zero ELSE counters[s][l]
  BY DEF Pass
<1>4. \A s \in Called, l \in Tick : l > KeyAt(now) => counters'[s][l] = Zero
  BY <1>3 DEF CInv, FutureBlank, Zero
<1>5. FutureBlank'
  <2>1. ASSUME NEW l \in Tick, l > KeyAt(now')
        PROVE  l > KeyAt(now)
    BY <1>1, <1>2, <2>1, Bounds
  <2>2. ASSUME NEW t \in Tick, t > now'
        PROVE  t > now
    BY <1>1, <2>2, Bounds
  <2> QED
    BY <1>1, <1>4, <2>1, <2>2 DEF CInv, FutureBlank
<1>6. Tallied'
  <2> DEFINE k == KeyAt(now')
  <2> SUFFICES ASSUME NEW s \in Called
               PROVE  /\ CallsIn(asked[s], WindowOf(k)) = counters'[s][k].count
                      /\ CallsIn(granted[s], WindowOf(k)) <= counters'[s][k].count
    BY <1>1 DEF Tallied
  <2>1. CASE k = KeyAt(now)
    <3>1. now' \in WindowOf(k)
      BY <1>1 DEF WindowOf
    <3>2. counters[s][k].expires # None => now' < counters[s][k].expires
      BY <1>1, <3>1 DEF CInv, ExpiresLate
    <3>3. counters[s][k].expires \in Int \cup {None}
      BY <1>1 DEF IInv, Cached, Counter
    <3>4. counters'[s][k] = counters[s][k]
      BY <1>1, <1>3, <3>2, <3>3
    <3> QED
      BY <2>1, <3>4 DEF CInv, Tallied
  <2>2. CASE k # KeyAt(now)
    <3>1. k > KeyAt(now)
      BY <1>1, <1>2, <2>2
    <3>2. ASSUME NEW t \in WindowOf(k)
          PROVE  asked[s][t] = 0 /\ granted[s][t] = 0
      <4>1. t \in Tick /\ t \in Nat /\ KeyAt(t) = k
        BY Bounds DEF WindowOf
      <4>2. t <= now => KeyAt(t) <= KeyAt(now)
        BY <1>1, <4>1, KeysGrow
      <4>3. t > now
        BY <1>1, <3>1, <4>1, <4>2
      <4> QED
        BY <4>1, <4>3 DEF CInv, FutureBlank
    <3>3. IsFiniteSet(WindowOf(k))
      BY SumOfWindow
    <3>4. SumOf(asked[s], WindowOf(k)) = 0
      BY <3>2, <3>3, SumOfNothing
    <3>5. SumOf(granted[s], WindowOf(k)) = 0
      BY <3>2, <3>3, SumOfNothing
    <3>6. counters'[s][k].count = 0
      BY <1>1, <1>4, <3>1 DEF Zero
    <3> QED
      BY <3>4, <3>5, <3>6, SumOfWindow
  <2> QED
    BY <2>1, <2>2
<1>7. WindowsHeld'
  BY <1>1 DEF CInv, WindowsHeld
<1>8. ExpiresLate'
  BY <1>3 DEF CInv, ExpiresLate, Zero
<1>9. CountsNow'
  BY <1>1 DEF Pass, Urgent, CountsNow, Caller
<1> QED
  BY <1>5, <1>6, <1>7, <1>8, <1>9 DEF CInv

LEMMA CountsInductive ==
  ASSUME IInv, CInv, [Next]_vars
  PROVE  CInv'
<1>1. CASE \E c \in Caller : \/ StartCall(c) \/ Prepare(c) \/ MintToken(c) \/ StoreToken(c)
                             \/ Call(c) \/ Reply(c) \/ NetworkFails(c) \/ WakeUp(c)
  BY <1>1, OthersCountNothing
<1>2. ASSUME NEW w \in Worker, Ask(w) \/ Decide(w) \/ Crash(w)
      PROVE  CInv'
  BY <1>2, AskCounts, DecideCounts, OthersCountNothing DEF Caller
<1>3. CASE Pass
  BY <1>3, PassCounts
<1>4. CASE UNCHANGED vars
  BY <1>4, CountsStand DEF vars, redisVars, ghosts
<1> QED
  BY <1>1, <1>2, <1>3, <1>4 DEF Next

LEMMA CountsAlways == Spec => [](IInv /\ CInv)
<1>1. Init => IInv /\ CInv
  BY InitKept, CountsToBeginWith
<1>2. IInv /\ CInv /\ [Next]_vars => (IInv /\ CInv)'
  BY Inductive, CountsInductive
<1> QED
  BY <1>1, <1>2, PTL DEF Spec
-----------------------------------------------------------------------------
(* From windows to spans.                                                  *)

\* A span as long as a window begins in one and ends in it or in the next.
LEMMA SpanInWindows ==
  ASSUME NEW t \in Tick
  PROVE  /\ (t..(t + Window - 1)) \cap Tick \subseteq
              WindowOf(KeyAt(t)) \cup WindowOf(KeyAt(t) + 1)
         /\ t % Window = 0 => (t..(t + Window - 1)) \cap Tick \subseteq WindowOf(KeyAt(t))
<1> DEFINE k == KeyAt(t)
<1>1. t \in Nat /\ Window \in Nat /\ Window > 0 /\ Window - 1 \in Nat
  BY Bounds
<1>2. k \in Nat /\ t % Window \in Nat /\ t = k * Window + (t % Window)
  BY <1>1, Division DEF KeyAt
<1> HIDE DEF k
<1>3. ASSUME NEW u \in (t..(t + Window - 1)) \cap Tick
      PROVE  /\ KeyAt(u) = k \/ KeyAt(u) = k + 1
             /\ t % Window = 0 => KeyAt(u) = k
  <2> DEFINE l == KeyAt(u)
  <2>1. u \in Nat /\ u \in Tick /\ t <= u /\ u <= t + Window - 1
    BY <1>1, <1>3, Bounds
  <2>2. /\ l \in Nat /\ u % Window \in Nat /\ u % Window < Window
        /\ u = l * Window + (u % Window)
    BY <1>1, <2>1, Division DEF KeyAt
  <2>3. k <= l
    BY <2>1, KeysGrow DEF k
  <2> HIDE DEF l
  <2>4. t % Window < Window
    BY <1>1, Division
  <2>5. ASSUME l >= k + 2
        PROVE  FALSE
    <3>1. (k + 2) * Window <= l * Window
      BY <1>1, <1>2, <2>2, <2>5
    <3>2. (k + 2) * Window = k * Window + Window + Window
      BY <1>1, <1>2
    <3>3. k * Window \in Nat /\ l * Window \in Nat
      BY <1>1, <1>2, <2>2
    <3> HIDE DEF k
    <3> QED
      BY <1>1, <1>2, <2>1, <2>2, <2>4, <3>1, <3>2, <3>3
  <2>6. ASSUME t % Window = 0, l >= k + 1
        PROVE  FALSE
    <3>1. (k + 1) * Window <= l * Window
      BY <1>1, <1>2, <2>2, <2>6
    <3>2. (k + 1) * Window = k * Window + Window
      BY <1>1, <1>2
    <3>3. k * Window \in Nat /\ l * Window \in Nat
      BY <1>1, <1>2, <2>2
    <3> QED
      BY <1>1, <1>2, <2>1, <2>2, <2>6, <3>1, <3>2, <3>3
  <2>7. (l = k \/ l = k + 1) /\ (t % Window = 0 => l = k)
    BY <1>2, <2>2, <2>3, <2>5, <2>6
  <2> QED
    BY <2>7 DEF l
<1> QED
  BY <1>3 DEF WindowOf, k

(***************************************************************************)
(* No window lets more than Limit fetches of a source through, and no span *)
(* of a window's length more than twice as many: for any number of workers *)
(* that ask, crash between INCR and EXPIRE, or find the key expired        *)
(* (RateLimiter.allow).                                                    *)
(***************************************************************************)
THEOREM WindowsHoldTheRate == Spec => []RateHeld
<1> SUFFICES ASSUME IInv, CInv PROVE RateHeld
  BY CountsAlways, PTL
<1> SUFFICES ASSUME NEW s \in Called, NEW t \in Tick
             PROVE  CallsIn(granted[s], t..(t + Window - 1)) <=
                      (IF t % Window = 0 THEN Limit ELSE 2 * Limit)
  BY DEF RateHeld
<1> DEFINE f == granted[s]
           span == (t..(t + Window - 1)) \cap Tick
           k == KeyAt(t)
<1>1. \A u \in Tick : f[u] \in Nat
  BY DEF IInv, Recorded
<1>2. CallsIn(f, t..(t + Window - 1)) = SumOf(f, span)
  BY DEF CallsIn, SumOf
<1> HIDE DEF f
<1>3. k \in Tick /\ k \in Nat /\ Limit \in Nat
  BY KeyInTime, Bounds
<1>4. ASSUME NEW l \in Nat
      PROVE  /\ SumOf(f, WindowOf(l)) \in Nat /\ SumOf(f, WindowOf(l)) <= Limit
             /\ IsFiniteSet(WindowOf(l)) /\ WindowOf(l) \subseteq Tick
  <2>1. IsFiniteSet(WindowOf(l)) /\ WindowOf(l) \subseteq Tick
    BY SumOfWindow
  <2>2. SumOf(f, WindowOf(l)) \in Nat
    BY <1>1, <2>1, SumInNat
  <2>3. CASE l \in Tick
    <3>1. SumOf(f, WindowOf(l)) <= Limit
      BY <2>3, SumOfWindow DEF CInv, WindowsHeld, f
    <3> QED
      BY <2>1, <2>2, <3>1
  <2>4. CASE l \notin Tick
    <3>1. WindowOf(l) = {}
      BY <2>4, KeyInTime DEF WindowOf
    <3>2. SumOf(f, WindowOf(l)) = 0
      BY <3>1, SumOfEmpty
    <3> QED
      BY <1>3, <2>1, <3>2
  <2> QED
    BY <2>3, <2>4
<1>5. CASE t % Window = 0
  <2>1. span \in SUBSET WindowOf(k)
    BY <1>5, SpanInWindows
  <2> HIDE DEF span
  <2>2. SumOf(f, span) <= SumOf(f, WindowOf(k))
    BY <1>1, <1>3, <1>4, <2>1, SumOfSome
  <2>3. IsFiniteSet(span)
    BY <1>3, <1>4, <2>1, FS_Subset
  <2>4. SumOf(f, span) \in Nat
    BY <1>1, <1>3, <1>4, <2>1, <2>3, SumInNat
  <2> QED
    BY <1>2, <1>3, <1>4, <1>5, <2>2, <2>4 DEF f
<1>6. CASE t % Window # 0
  <2> DEFINE both == WindowOf(k) \cup WindowOf(k + 1)
  <2>1. span \in SUBSET both
    BY SpanInWindows
  <2> HIDE DEF span
  <2>2. k + 1 \in Nat
    BY <1>3
  <2>3. IsFiniteSet(both) /\ both \subseteq Tick
    BY <1>3, <1>4, <2>2, FS_Union
  <2>4. WindowOf(k) \cap WindowOf(k + 1) = {}
    BY <1>3 DEF WindowOf
  <2>5. SumOf(f, both) = SumOf(f, WindowOf(k)) + SumOf(f, WindowOf(k + 1))
    BY <1>1, <1>3, <1>4, <2>2, <2>3, <2>4, SumOfParts
  <2>6. SumOf(f, span) <= SumOf(f, both)
    BY <1>1, <2>1, <2>3, SumOfSome
  <2>7. IsFiniteSet(span)
    BY <2>1, <2>3, FS_Subset
  <2>8. SumOf(f, span) \in Nat
    BY <1>1, <2>1, <2>3, <2>7, SumInNat
  <2> QED
    BY SMTT(20), <1>2, <1>3, <1>4, <1>6, <2>2, <2>5, <2>6, <2>8 DEF f
<1> QED
  BY <1>5, <1>6

\* Only Decide leads from "counted" to "done".
LEMMA OnlyDecideDenies ==
  ASSUME IInv, Next, NEW w \in Worker, pc[w] = "counted", pc'[w] = "done"
  PROVE  job[w].count > Limit
<1> USE DEF Go
<1>0. pc \in [Caller -> At] /\ w \in Caller
  BY DEF IInv, Jobs, Caller
<1>1. ASSUME NEW d \in Caller, d # w \/ pc[d] # "counted",
             \E at : pc' = [pc EXCEPT ![d] = at]
      PROVE  FALSE
  BY <1>0, <1>1
<1>2. ASSUME NEW d \in Caller, NEW answer, NEW outcome, Conclude(d, answer, outcome),
             d # w \/ pc[d] # "counted"
      PROVE  FALSE
  BY <1>1, <1>2 DEF Conclude
<1>3. ASSUME NEW d \in Caller, \/ StartCall(d) \/ Prepare(d) \/ MintToken(d)
                              \/ StoreToken(d) \/ Call(d) \/ WakeUp(d)
      PROVE  FALSE
  BY <1>1, <1>3 DEF StartCall, Prepare, MintToken, StoreToken, Call, WakeUp
<1>4. ASSUME NEW d \in Caller, Reply(d) \/ NetworkFails(d)
      PROVE  FALSE
  BY <1>1, <1>2, <1>4 DEF Reply, NetworkFails
<1>5. ASSUME NEW d \in Worker, Ask(d) \/ Crash(d)
      PROVE  FALSE
  <2>1. d \in Caller /\ \E at \in {"counted", "idle"} : pc' = [pc EXCEPT ![d] = at]
    BY <1>5 DEF Ask, Crash, Caller
  <2> QED
    BY <1>0, <2>1
<1>6. ASSUME NEW d \in Worker, Decide(d)
      PROVE  job[w].count > Limit
  <2>1. d \in Caller /\ \E at : pc' = [pc EXCEPT ![d] = at]
    BY <1>6 DEF Decide, Conclude, Caller
  <2>2. d = w
    BY <1>1, <2>1
  <2>3. job[w].count \in Nat /\ Limit \in Nat
    BY <1>0, Bounds DEF IInv, Jobs, Job
  <2>4. ~(job[w].count <= Limit)
    BY <1>0, <1>6, <2>2 DEF Decide
  <2> QED
    BY <2>3, <2>4
<1>7. ~Pass
  BY DEF Pass
<1> QED
  BY <1>3, <1>4, <1>5, <1>6, <1>7 DEF Next

\* What was asked in the window up to now is all that was asked in it.
LEMMA AskedSoFar ==
  ASSUME IInv, CInv, NEW s \in Called
  PROVE  CallsIn(asked[s], ((now \div Window) * Window)..now) >=
           counters[s][KeyAt(now)].count
<1> DEFINE f == asked[s]
           k == KeyAt(now)
           first == (now \div Window) * Window
           past == (first..now) \cap Tick
           rest == WindowOf(k) \ past
<1>1. now \in Nat /\ now \in Tick /\ Window \in Nat /\ Window > 0
  BY Instant, Bounds
<1>2. \A u \in Tick : f[u] \in Nat
  BY DEF IInv, Recorded
<1>3. CallsIn(f, first..now) = SumOf(f, past)
  BY DEF CallsIn, SumOf
<1>4. IsFiniteSet(WindowOf(k)) /\ WindowOf(k) \subseteq Tick
  BY SumOfWindow
<1>5. ASSUME NEW t \in rest
      PROVE  f[t] = 0
  <2>1. t \in Tick /\ t \in Nat /\ KeyAt(t) = k
    BY <1>5, Bounds DEF WindowOf
  <2>2. first = (t \div Window) * Window
    BY <2>1 DEF KeyAt
  <2>3. t % Window \in Nat /\ t = first + (t % Window)
    BY <1>1, <2>1, <2>2, Division
  <2>4. first \in Nat
    BY <1>1, Division
  <2> HIDE DEF first
  <2>5. t > now
    BY <1>1, <1>5, <2>1, <2>3, <2>4
  <2> QED
    BY <2>1, <2>5 DEF CInv, FutureBlank
<1> HIDE DEF first
<1>6. IsFiniteSet(past) /\ past \subseteq Tick
  <2>1. IsFiniteSet(Tick)
    BY Bounds, FS_Interval DEF Tick
  <2> QED
    BY <2>1, FS_Subset
<1>7. IsFiniteSet(rest) /\ rest \subseteq Tick /\ past \cap rest = {}
  BY <1>4, FS_Difference
<1> HIDE DEF f, past
<1>8. SumOf(f, past \cup rest) = SumOf(f, past) + SumOf(f, rest)
  BY <1>2, <1>6, <1>7, SumOfParts
<1>9. SumOf(f, rest) = 0
  BY <1>5, <1>7, SumOfNothing
<1>10. IsFiniteSet(past \cup rest) /\ WindowOf(k) \in SUBSET (past \cup rest)
  BY <1>6, <1>7, FS_Union
<1>11. SumOf(f, WindowOf(k)) <= SumOf(f, past \cup rest)
  BY <1>2, <1>6, <1>7, <1>10, SumOfSome
<1>12. SumOf(f, WindowOf(k)) = counters[s][k].count
  BY SumOfWindow DEF CInv, Tallied, f
<1>13. SumOf(f, past) \in Nat
  BY <1>2, <1>6, SumInNat
<1>14. SumOf(f, past) >= counters[s][k].count
  BY <1>8, <1>9, <1>11, <1>12, <1>13
<1> QED
  BY <1>3, <1>14 DEF f, first

(***************************************************************************)
(* A fetch is only denied when its own window was asked for more than      *)
(* Limit: nothing an earlier window left in Redis denies anybody           *)
(* (RateLimiter.allow).                                                    *)
(***************************************************************************)
THEOREM DenialsFollowTheWindow == Spec => DenialsAreDue
<1>1. IInv /\ CInv /\ [Next]_vars =>
        [\A w \in Worker :
           pc[w] = "counted" /\ pc'[w] = "done" =>
             LET first == (now \div Window) * Window
             IN  CallsIn(asked[job[w].source], first..now) > Limit]_vars
  <2> SUFFICES ASSUME IInv, CInv, Next, NEW w \in Worker,
                      pc[w] = "counted", pc'[w] = "done"
               PROVE  CallsIn(asked[job[w].source],
                              ((now \div Window) * Window)..now) > Limit
    OBVIOUS
  <2>1. job[w].count > Limit
    BY OnlyDecideDenies
  <2>2. job[w].source \in Called /\ job[w].count \in Nat
    BY DEF IInv, Jobs, JobOK, Job, Caller
  <2>3. job[w].count <= counters[job[w].source][KeyAt(now)].count
    BY DEF CInv, CountsNow
  <2>4. counters[job[w].source][KeyAt(now)].count \in Nat
    BY <2>2, Instant DEF IInv, Cached, Counter
  <2> DEFINE total == CallsIn(asked[job[w].source], ((now \div Window) * Window)..now)
  <2>5. total >= counters[job[w].source][KeyAt(now)].count
    BY <2>2, AskedSoFar
  <2>6. total \in Nat
    <3> DEFINE past == (((now \div Window) * Window)..now) \cap Tick
    <3>1. IsFiniteSet(Tick)
      BY Bounds, FS_Interval DEF Tick
    <3>2. past \in SUBSET Tick /\ IsFiniteSet(past)
      BY <3>1, FS_Subset
    <3>3. total = SumOf(asked[job[w].source], past)
      BY DEF CallsIn, SumOf
    <3> HIDE DEF total, past
    <3>4. \A t \in past : asked[job[w].source][t] \in Nat
      BY <2>2, <3>2 DEF IInv, Recorded
    <3> QED
      BY <3>2, <3>3, <3>4, SumInNat
  <2> HIDE DEF total
  <2>7. total > Limit
    BY <2>1, <2>2, <2>3, <2>4, <2>5, <2>6, Bounds
  <2> QED
    BY <2>7 DEF total
<1> QED
  BY <1>1, CountsAlways, PTL DEF Spec, DenialsAreDue
=============================================================================
