------------------------- MODULE FetchPipelineProofs -------------------------
(* Theorems about FetchPipeline, for every value of its constants. *)
EXTENDS FetchPipeline, TLAPS, SequenceTheorems, FiniteSetTheorems

(***************************************************************************)
(* The row writers keep the row's type: what a flush leaves in an          *)
(* attribute is the value assigned or the value that was there.            *)
(***************************************************************************)
LEMMA RowWriters ==
  ASSUME NEW current \in Row, NEW loaded \in Row, NEW observed \in Observation
  PROVE  /\ RecordPrice(current, loaded, observed) \in Row
         /\ MarkOfferDelisted(current, loaded) \in Row
         /\ MarkOfferUnavailable(current, loaded) \in Row
         /\ Revive(current) \in Row
         /\ NewRow \in Row
  BY DEF Row, Observation, RecordPrice, MarkOfferDelisted,
         MarkOfferUnavailable, Revive, NewRow, Flushed

LEMMA BestPriceType ==
  ASSUME NEW rows \in [Offer -> Row], NEW offers \in SUBSET Offer
  PROVE  BestPrice(rows, offers) \in Price \cup {None}
  BY DEF BestPrice, Priced, Row

(***************************************************************************)
(* What the local variables of a fetch hold at each point of the task.     *)
(***************************************************************************)
HasPrice(w) ==
  \/ pc[w] \in {"commit", "invalidate", "announce"}
  \/ pc[w] = "release" /\ fetch[w].outcome = "ok"

LocalsOK ==
  \A w \in Worker :
    /\ pc[w] \in FetchControl => fetch[w].offer \in Offer
    /\ HasPrice(w) => fetch[w].observed.price \in Price

ProcessesOK ==
  /\ pc \in [Worker -> Control]
  /\ fetch \in [Worker -> FetchLocals]
  /\ refresh \in [Worker -> RefreshLocals]
  /\ LocalsOK

(***************************************************************************)
(* Assigning one local variable of a task keeps the locals' type and       *)
(* leaves the other locals as they were.                                   *)
(***************************************************************************)
LEMMA FetchAssignments ==
  ASSUME NEW f \in FetchLocals
  PROVE  /\ \A o \in Offer, n \in 0..MaxRetries :
              /\ [f EXCEPT !.offer = o, !.retries = n] \in FetchLocals
              /\ [f EXCEPT !.offer = o, !.retries = n].offer = o
         /\ \A x \in BOOLEAN :
              /\ [f EXCEPT !.known = x] \in FetchLocals
              /\ [f EXCEPT !.known = x].offer = f.offer
         /\ \A x \in Row :
              /\ [f EXCEPT !.loaded = x] \in FetchLocals
              /\ [f EXCEPT !.loaded = x].offer = f.offer
         /\ \A x \in Observation :
              /\ [f EXCEPT !.observed = x] \in FetchLocals
              /\ [f EXCEPT !.observed = x].offer = f.offer
              /\ [f EXCEPT !.observed = x].observed.price \in Price
         /\ \A x \in Outcome :
              /\ [f EXCEPT !.outcome = x] \in FetchLocals
              /\ [f EXCEPT !.outcome = x].offer = f.offer
              /\ [f EXCEPT !.outcome = x].outcome = x
              /\ [f EXCEPT !.outcome = x].observed = f.observed
  BY DEF FetchLocals, Observation

LEMMA RefreshAssignments ==
  ASSUME NEW r \in RefreshLocals
  PROVE  /\ \A x \in SUBSET Offer :
              /\ [r EXCEPT !.fan = x] \in RefreshLocals
              /\ [NoRefresh EXCEPT !.fan = x] \in RefreshLocals
         /\ \A x \in SUBSET Source, y, z \in SUBSET Offer :
              /\ [r EXCEPT !.todo = x, !.insert = y, !.revive = z]
                   \in RefreshLocals
              /\ [r EXCEPT !.todo = x, !.known = y, !.gone = z]
                   \in RefreshLocals
  BY DEF RefreshLocals, NoRefresh

LEMMA FreshLocals ==
  /\ NoFetch \in FetchLocals
  /\ NoRefresh \in RefreshLocals
  /\ IdleReader \in ReaderState
<1>1. NewRow \in Row
  BY DEF NewRow, Row
<1> QED
  BY <1>1, BoundsAssumption
  DEF NoFetch, FetchLocals, NoRefresh, RefreshLocals, IdleReader, ReaderState,
      Outcome

LEMMA FinishKeepsProcesses ==
  ASSUME ProcessesOK, NEW w \in Worker, Finish(w)
  PROVE  ProcessesOK'
  BY FreshLocals
  DEF Finish, ProcessesOK, LocalsOK, HasPrice, Control, FetchControl

LEMMA LeaveKeepsProcesses ==
  ASSUME ProcessesOK, NEW w \in Worker, NEW from \in FetchControl,
         NEW outcome \in Outcome, Leave(w, from, outcome), UNCHANGED refresh,
         outcome = "ok" => from = "commit"
  PROVE  ProcessesOK'
<1>1. /\ fetch[w] \in FetchLocals
      /\ fetch[w].offer \in Offer
      /\ outcome = "ok" => fetch[w].observed.price \in Price
  BY DEF ProcessesOK, LocalsOK, HasPrice, Leave, Goto
<1>2. DEFINE f == [fetch[w] EXCEPT !.outcome = outcome]
<1>3. /\ f \in FetchLocals /\ f.offer \in Offer /\ f.outcome = outcome
      /\ f.observed = fetch[w].observed
  BY <1>1, FetchAssignments
<1>4. fetch' = [fetch EXCEPT ![w] = f] /\ pc' = [pc EXCEPT ![w] = "release"]
  BY DEF Leave, Goto
<1>5. /\ pc' \in [Worker -> Control]
      /\ fetch' \in [Worker -> FetchLocals]
      /\ refresh' \in [Worker -> RefreshLocals]
  BY <1>3, <1>4 DEF ProcessesOK, Control, FetchControl
<1>6. LocalsOK'
  BY <1>1, <1>3, <1>4 DEF ProcessesOK, LocalsOK, HasPrice
<1> QED
  BY <1>5, <1>6 DEF ProcessesOK

\* A step that moves the program counter alone, to a point where the locals
\* still say what they must.
LEMMA MoveKeepsProcesses ==
  ASSUME ProcessesOK, NEW w \in Worker, NEW to \in Control,
         pc' = [pc EXCEPT ![w] = to], UNCHANGED <<fetch, refresh>>,
         to \in FetchControl => pc[w] \in FetchControl,
         to \in {"commit", "release", "invalidate", "announce"} => HasPrice(w)
  PROVE  ProcessesOK'
  BY DEF ProcessesOK, LocalsOK, HasPrice

LEMMA InitTyped == Init => TypeOK /\ ProcessesOK
<1> SUFFICES ASSUME Init PROVE TypeOK /\ ProcessesOK
  OBVIOUS
<1>1. row \in [Offer -> Row] /\ history \in [Offer -> Seq(Price)]
  <2>1. CASE TrackedByName
    BY <2>1, RowWriters DEF TrackedByName, NewRow, Row
  <2>2. ASSUME NEW o \in Offer, NEW observed \in Observation,
               TrackedByUrl(o, observed)
        PROVE  row \in [Offer -> Row] /\ history \in [Offer -> Seq(Price)]
    <3>1. observed.price \in Price
      BY DEF Observation
    <3>2. <<observed.price>> \in Seq(Price) /\ <<>> \in Seq(Price)
      BY <3>1
    <3>3. NewRow \in Row
      BY DEF NewRow, Row
    <3>4. RecordPrice(NewRow, NewRow, observed) \in Row
      BY <3>3, RowWriters
    <3> QED
      BY <2>2, <3>2, <3>3, <3>4 DEF TrackedByUrl
  <2> QED
    BY <2>1, <2>2 DEF Init
<1> QED
  BY <1>1, FreshLocals, BoundsAssumption
  DEF Init, TypeOK, ProcessesOK, LocalsOK, HasPrice, TrackedByName,
      TrackedByUrl, Control, FetchControl, IdleReader, ReaderState

(***************************************************************************)
(* Every step of a worker leaves each worker's control and locals typed.   *)
(***************************************************************************)
LEMMA RefreshStepKeepsProcesses ==
  ASSUME TypeOK, ProcessesOK, NEW w \in Worker, RefreshStep(w)
  PROVE  ProcessesOK'
<1> USE DEF Control, FetchControl, RefreshControl
<1>0. refresh[w] \in RefreshLocals
  BY DEF ProcessesOK
<1>1. ASSUME NEW s \in Source, SearchSource(w, s) PROVE ProcessesOK'
  <2>1. PICK found \in SUBSET Offer :
          refresh' = [refresh EXCEPT
                        ![w].todo   = @ \ {s},
                        ![w].insert = @ \cup (found \ present),
                        ![w].revive = @ \cup {o \in found \cap present :
                                                IF o \in refresh[w].known
                                                THEN o \in refresh[w].gone
                                                ELSE row[o].delisted}]
    BY <1>1 DEF SearchSource
  <2>2. refresh'[w] \in RefreshLocals /\ refresh' = [refresh EXCEPT ![w] = refresh'[w]]
    BY <1>0, <2>1 DEF RefreshLocals, ProcessesOK
  <2> QED
    BY <1>1, <2>2 DEF ProcessesOK, LocalsOK, HasPrice, SearchSource
<1>2. CASE SearchDone(w)
  BY <1>2, MoveKeepsProcesses DEF SearchDone, Goto
<1>3. CASE FlushOffers(w)
  <2> DEFINE accepted == tracked /\ refresh[w].insert \cap present = {}
  <2>1. CASE ~accepted
    BY <1>3, <2>1, FinishKeepsProcesses DEF FlushOffers
  <2>2. CASE accepted
    <3> DEFINE fan == {o \in present' : ~row'[o].delisted}
    <3>1. refresh' = [refresh EXCEPT ![w] = [NoRefresh EXCEPT !.fan = fan]]
      BY <1>3, <2>2 DEF FlushOffers
    <3>2. fan \in SUBSET Offer
      BY <1>0, <1>3, <2>2 DEF FlushOffers, TypeOK, RefreshLocals
    <3>3. [NoRefresh EXCEPT !.fan = fan] \in RefreshLocals
      BY <1>0, <3>2, RefreshAssignments
    <3> QED
      BY <1>3, <2>2, <3>1, <3>3
      DEF FlushOffers, ProcessesOK, LocalsOK, HasPrice
  <2> QED
    BY <2>1, <2>2
<1>4. ASSUME NEW o \in Offer, FanOut(w, o) PROVE ProcessesOK'
  <2>1. [refresh[w] EXCEPT !.fan = @ \ {o}] \in RefreshLocals
    BY <1>0 DEF RefreshLocals
  <2> QED
    BY <1>4, <2>1 DEF FanOut, ProcessesOK, LocalsOK, HasPrice
<1>5. CASE FanOutDone(w)
  BY <1>5, FinishKeepsProcesses DEF FanOutDone
<1> QED
  BY <1>1, <1>2, <1>3, <1>4, <1>5 DEF RefreshStep

LEMMA TakeMessageKeepsProcesses ==
  ASSUME TypeOK, ProcessesOK, NEW w \in Worker, TakeMessage(w)
  PROVE  ProcessesOK'
<1> USE DEF Control, FetchControl, RefreshControl
<1>1. CASE StartRefresh(w) /\ tracked
  <2>0. refresh[w] \in RefreshLocals /\ present \in SUBSET Offer
    BY DEF ProcessesOK, TypeOK
  <2>1. [refresh[w] EXCEPT !.todo = Source, !.known = present,
                           !.gone = {o \in present : row[o].delisted}]
          \in RefreshLocals
    BY <2>0, RefreshAssignments
  <2> QED
    BY ZenonT(30), <1>1, <2>1 DEF StartRefresh, ProcessesOK, LocalsOK, HasPrice
<1>2. CASE StartRefresh(w) /\ ~tracked
  BY <1>2 DEF StartRefresh, ProcessesOK, LocalsOK, HasPrice
<1>3. ASSUME NEW m \in Message, StartFetch(w, m) PROVE ProcessesOK'
  <2> DEFINE f == [fetch[w] EXCEPT !.offer = m.offer, !.retries = m.retries]
  <2>0. /\ fetch[w] \in FetchLocals
        /\ m.offer \in Offer /\ m.retries \in 0..MaxRetries
    BY DEF ProcessesOK, Message
  <2>1. f \in FetchLocals /\ f.offer \in Offer
    BY <2>0 DEF FetchLocals
  <2>2. fetch' = [fetch EXCEPT ![w] = f]
    BY <1>3 DEF StartFetch, ProcessesOK
  <2> QED
    BY <1>3, <2>1, <2>2
    DEF StartFetch, Goto, ProcessesOK, LocalsOK, HasPrice
<1> QED
  BY <1>1, <1>2, <1>3 DEF TakeMessage

LEMMA FetchStepKeepsProcesses ==
  ASSUME TypeOK, ProcessesOK, NEW w \in Worker, FetchStep(w)
  PROVE  ProcessesOK'
<1> USE DEF Control, FetchControl, RefreshControl
<1>0. /\ fetch[w] \in FetchLocals
      /\ pc[w] \in FetchControl => fetch[w].offer \in Offer
      /\ \A o \in Offer : row[o] \in Row
  BY DEF ProcessesOK, LocalsOK, TypeOK
<1>1. CASE LoadOffer(w)
  <2>1. CASE fetch[w].offer \in present
    <3>1. /\ [fetch[w] EXCEPT !.loaded = row[fetch[w].offer]] \in FetchLocals
          /\ [fetch[w] EXCEPT !.loaded = row[fetch[w].offer]].offer \in Offer
      BY <1>0, <1>1, FetchAssignments DEF LoadOffer
    <3> QED
      BY <1>1, <2>1, <3>1 DEF LoadOffer, ProcessesOK, LocalsOK, HasPrice
  <2>2. CASE fetch[w].offer \notin present
    BY <1>1, <2>2, FinishKeepsProcesses DEF LoadOffer
  <2> QED
    BY <2>1, <2>2
<1>2. CASE AcquireLock(w)
  <2>1. CASE lock[fetch[w].offer]
    BY <1>2, <2>1, FinishKeepsProcesses DEF AcquireLock
  <2>2. CASE ~lock[fetch[w].offer]
    BY <1>2, <2>2, MoveKeepsProcesses DEF AcquireLock
  <2> QED
    BY <2>1, <2>2
<1>3. CASE RateAllowed(w)
  <2>1. /\ [fetch[w] EXCEPT !.known = TRUE] \in FetchLocals
        /\ [fetch[w] EXCEPT !.known = TRUE].offer \in Offer
    BY <1>0, <1>3, FetchAssignments DEF RateAllowed, Goto
  <2> QED
    BY <1>3, <2>1 DEF RateAllowed, Goto, ProcessesOK, LocalsOK, HasPrice
<1>4. CASE RateDenied(w)
  BY <1>4, LeaveKeepsProcesses DEF RateDenied, Outcome
<1>5. ASSUME NEW observed \in Observation, FetchPrice(w, observed)
      PROVE  ProcessesOK'
  <2> DEFINE f == [fetch[w] EXCEPT !.observed = observed]
  <2>1. f \in FetchLocals /\ f.offer \in Offer /\ f.observed.price \in Price
    BY <1>0, <1>5, FetchAssignments DEF FetchPrice, Goto
  <2>2. fetch' = [fetch EXCEPT ![w] = f]
    BY <1>5 DEF FetchPrice
  <2> QED
    BY <1>5, <2>1, <2>2 DEF FetchPrice, Goto, ProcessesOK, LocalsOK, HasPrice
<1>6. ASSUME NEW outcome \in Outcome, FetchRaises(w, outcome)
      PROVE  ProcessesOK'
  BY <1>6, LeaveKeepsProcesses DEF FetchRaises
<1>7. CASE CommitPrice(w)
  BY <1>7, LeaveKeepsProcesses DEF CommitPrice, Outcome
<1>8. CASE ReleaseLock(w)
  <2>1. CASE Finish(w)
    BY <2>1, FinishKeepsProcesses
  <2>2. CASE UNCHANGED <<fetch, refresh>>
    <3>1. CASE fetch[w].outcome = "ok"
      BY <1>8, <2>2, <3>1, MoveKeepsProcesses DEF ReleaseLock, HasPrice, Finish
    <3>2. CASE fetch[w].outcome = "gone"
      BY <1>8, <2>2, <3>2, MoveKeepsProcesses DEF ReleaseLock, Finish
    <3>3. CASE fetch[w].outcome \notin {"ok", "gone", "stop"}
      BY <1>8, <2>2, <3>3, MoveKeepsProcesses DEF ReleaseLock, Finish
    <3>4. CASE fetch[w].outcome = "stop"
      BY <1>8, <3>4, FinishKeepsProcesses DEF ReleaseLock
    <3> QED
      BY <3>1, <3>2, <3>3, <3>4
  <2> QED
    BY <1>8, <2>1, <2>2 DEF ReleaseLock
<1>9. CASE InvalidateCache(w)
  BY <1>9, MoveKeepsProcesses DEF InvalidateCache, Goto, HasPrice
<1>10. CASE AnnounceDrop(w)
  BY <1>10, FinishKeepsProcesses DEF AnnounceDrop
<1>11. CASE RereadOffer(w)
  <2>1. CASE fetch[w].offer \in present
    <3>1. /\ [fetch[w] EXCEPT !.loaded = row[fetch[w].offer]] \in FetchLocals
          /\ [fetch[w] EXCEPT !.loaded = row[fetch[w].offer]].offer \in Offer
      BY <1>0, <1>11, FetchAssignments DEF RereadOffer
    <3> QED
      BY <1>11, <2>1, <3>1 DEF RereadOffer, ProcessesOK, LocalsOK, HasPrice
  <2>2. CASE fetch[w].offer \notin present
    BY <1>11, <2>2, MoveKeepsProcesses DEF RereadOffer
  <2> QED
    BY <2>1, <2>2
<1>12. CASE CommitDelisted(w)
  BY <1>12, FinishKeepsProcesses, MoveKeepsProcesses DEF CommitDelisted
<1>13. CASE ForgetDeal(w)
  BY <1>13, FinishKeepsProcesses DEF ForgetDeal
<1>14. CASE RetryOrGiveUp(w)
  BY <1>14, FinishKeepsProcesses, MoveKeepsProcesses DEF RetryOrGiveUp
<1>15. CASE DeadLetter(w)
  BY <1>15, FinishKeepsProcesses, MoveKeepsProcesses DEF DeadLetter
<1>16. CASE LoadStale(w)
  <2>1. CASE fetch[w].offer \in present
    <3>1. /\ [fetch[w] EXCEPT !.loaded = row[fetch[w].offer]] \in FetchLocals
          /\ [fetch[w] EXCEPT !.loaded = row[fetch[w].offer]].offer \in Offer
      BY <1>0, <1>16, FetchAssignments DEF LoadStale
    <3> QED
      BY <1>16, <2>1, <3>1 DEF LoadStale, ProcessesOK, LocalsOK, HasPrice
  <2>2. CASE fetch[w].offer \notin present
    BY <1>16, <2>2, FinishKeepsProcesses DEF LoadStale
  <2> QED
    BY <2>1, <2>2
<1> QED
  BY <1>1, <1>2, <1>3, <1>4, <1>5, <1>6, <1>7, <1>8, <1>9, <1>10, <1>11,
     <1>12, <1>13, <1>14, <1>15, <1>16
  DEF FetchStep

LEMMA FaultKeepsProcesses ==
  ASSUME ProcessesOK, NEW w \in Worker, Fault(w)
  PROVE  ProcessesOK'
<1> USE DEF Control, FetchControl
<1>1. CASE RedisFault(w)
  BY <1>1, FinishKeepsProcesses, MoveKeepsProcesses, LeaveKeepsProcesses
  DEF RedisFault, Outcome
<1>2. CASE DatabaseFault(w)
  BY <1>2, FinishKeepsProcesses, MoveKeepsProcesses, LeaveKeepsProcesses
  DEF DatabaseFault, Goto, Outcome
<1>3. CASE Crash(w)
  BY <1>3, FinishKeepsProcesses DEF Crash
<1> QED
  BY <1>1, <1>2, <1>3 DEF Fault

LEMMA RequestKeepsProcesses ==
  ASSUME ProcessesOK, Request \/ Environment \/ UNCHANGED vars
  PROVE  ProcessesOK'
<1>1. UNCHANGED <<pc, fetch, refresh>>
  BY DEF Request, Environment, vars, processes, RequestRefresh, DeleteItem,
         ReadItem, LookupDeal, ComputeDeal, StoreDeal, CacheExpires, LockExpires,
         ListingEnds, ListingReturns
<1> QED
  BY <1>1 DEF ProcessesOK, LocalsOK, HasPrice

(***************************************************************************)
(* Every step leaves the database, Redis, the queues and the requests      *)
(* typed.                                                                  *)
(***************************************************************************)
LEMMA PublishTyped ==
  ASSUME queue \in [Message -> Nat], NEW o, NEW n, Publish(o, n)
  PROVE  queue' \in [Message -> Nat]
<1> DEFINE k == [offer |-> o, retries |-> n]
<1>1. queue' = [m \in Message |-> IF m = k THEN queue[k] + 1 ELSE queue[m]]
  BY DEF Publish
<1>2. ASSUME NEW m \in Message PROVE queue'[m] \in Nat
  BY <1>1, <1>2
<1> QED
  BY <1>1, <1>2

LEMMA RefreshStepKeepsType ==
  ASSUME TypeOK, ProcessesOK, ProcessesOK', NEW w \in Worker, RefreshStep(w)
  PROVE  TypeOK'
<1> USE DEF TypeOK, ProcessesOK, database, redis, messages
<1>1. ASSUME NEW s \in Source, SearchSource(w, s) PROVE TypeOK'
  BY <1>1 DEF SearchSource
<1>2. CASE SearchDone(w)
  BY <1>2 DEF SearchDone
<1>3. CASE FlushOffers(w)
  <2>1. refresh[w].insert \in SUBSET Offer
    BY DEF RefreshLocals
  <2>2. NewRow \in Row /\ \A o \in Offer : Revive(row[o]) \in Row
    BY DEF NewRow, Row, Revive
  <2>3. present' \in SUBSET Offer
    BY <1>3, <2>1 DEF FlushOffers
  <2>4. row' \in [Offer -> Row]
    <3> DEFINE new(o) == IF o \in refresh[w].insert THEN NewRow
                         ELSE IF o \in refresh[w].revive THEN Revive(row[o])
                         ELSE row[o]
    <3>1. row' = row \/ row' = [o \in Offer |-> new(o)]
      BY <1>3 DEF FlushOffers
    <3>2. \A o \in Offer : new(o) \in Row
      BY <2>2
    <3> HIDE DEF new
    <3> QED
      BY <3>1, <3>2
  <2> QED
    BY <1>3, <2>3, <2>4 DEF FlushOffers
<1>4. ASSUME NEW o \in Offer, FanOut(w, o) PROVE TypeOK'
  BY <1>4, PublishTyped DEF FanOut
<1>5. CASE FanOutDone(w)
  BY <1>5 DEF FanOutDone
<1> QED
  BY <1>1, <1>2, <1>3, <1>4, <1>5 DEF RefreshStep

LEMMA TakeMessageKeepsType ==
  ASSUME TypeOK, ProcessesOK', NEW w \in Worker, TakeMessage(w)
  PROVE  TypeOK'
<1> USE DEF TypeOK, ProcessesOK, database, redis, messages
<1>1. CASE StartRefresh(w)
  BY <1>1 DEF StartRefresh
<1>2. ASSUME NEW m \in Message, StartFetch(w, m) PROVE TypeOK'
  BY <1>2 DEF StartFetch
<1> QED
  BY <1>1, <1>2 DEF TakeMessage

LEMMA FetchStepKeepsType ==
  ASSUME TypeOK, ProcessesOK, ProcessesOK', NEW w \in Worker, FetchStep(w)
  PROVE  TypeOK'
<1> USE DEF TypeOK, ProcessesOK, database, redis, messages
<1>0. fetch[w] \in FetchLocals /\ (\A o \in Offer : row[o] \in Row)
  OBVIOUS
<1>1. CASE LoadOffer(w)
  BY <1>1 DEF LoadOffer
<1>2. CASE AcquireLock(w)
  BY <1>2 DEF AcquireLock
<1>3. CASE RateAllowed(w)
  BY <1>3 DEF RateAllowed
<1>4. CASE RateDenied(w)
  BY <1>4, PublishTyped DEF RateDenied
<1>5. ASSUME NEW observed \in Observation, FetchPrice(w, observed)
      PROVE  TypeOK'
  BY <1>5 DEF FetchPrice
<1>6. ASSUME NEW outcome \in Outcome, FetchRaises(w, outcome) PROVE TypeOK'
  BY <1>6 DEF FetchRaises
<1>7. CASE CommitPrice(w)
  <2> DEFINE o == fetch[w].offer
  <2>1. CASE o \in present
    <3>1. /\ fetch[w].observed \in Observation
          /\ fetch[w].observed.price \in Price
          /\ fetch[w].loaded \in Row
      BY <1>0, <1>7 DEF CommitPrice, LocalsOK, HasPrice, FetchLocals,
                        Observation
    <3>2. RecordPrice(row[o], fetch[w].loaded, fetch[w].observed) \in Row
      BY <1>0, <2>1, <3>1, RowWriters
    <3>3. Append(history[o], fetch[w].observed.price) \in Seq(Price)
      BY <2>1, <3>1, AppendProperties
    <3> QED
      BY ZenonT(30), <1>7, <2>1, <3>2, <3>3 DEF CommitPrice
  <2>2. CASE o \notin present
    BY <1>7, <2>2 DEF CommitPrice
  <2> QED
    BY <2>1, <2>2
<1>8. CASE ReleaseLock(w)
  BY <1>8 DEF ReleaseLock
<1>9. CASE InvalidateCache(w)
  BY <1>9 DEF InvalidateCache
<1>10. CASE AnnounceDrop(w)
  <2> DEFINE drop == [new |-> fetch[w].observed.price,
                      previous |-> fetch[w].loaded.price]
  <2>1. CASE UNCHANGED dropped
    BY <1>10, <2>1 DEF AnnounceDrop
  <2>2. CASE fetch[w].loaded.price # None
    <3>1. fetch[w].offer \in Offer /\ drop \in Drop
      BY <1>0, <1>10, <2>2
      DEF AnnounceDrop, LocalsOK, HasPrice, FetchLocals, FetchControl, Drop, Row
    <3>2. Append(dropped[fetch[w].offer], drop) \in Seq(Drop)
      BY <3>1, AppendProperties
    <3> QED
      BY <1>10, <3>1, <3>2 DEF AnnounceDrop
  <2> QED
    BY <1>10, <2>1, <2>2 DEF AnnounceDrop
<1>11. CASE RereadOffer(w)
  BY <1>11 DEF RereadOffer
<1>12. CASE CommitDelisted(w)
  <2>1. fetch[w].offer \in Offer /\ fetch[w].loaded \in Row
    BY <1>0, <1>12 DEF CommitDelisted, LocalsOK, FetchControl, FetchLocals
  <2>2. row[fetch[w].offer] \in Row
    BY <1>0, <2>1
  <2>3. MarkOfferDelisted(row[fetch[w].offer], fetch[w].loaded) \in Row
    BY <2>1, <2>2 DEF MarkOfferDelisted, Flushed, Row
  <2> QED
    BY <1>12, <2>1, <2>3 DEF CommitDelisted
<1>13. CASE ForgetDeal(w)
  BY <1>13 DEF ForgetDeal
<1>14. CASE RetryOrGiveUp(w)
  <2>1. fetch[w].offer \in Offer
    BY <1>14 DEF RetryOrGiveUp, LocalsOK, FetchControl
  <2> QED
    BY <1>14, <2>1, PublishTyped DEF RetryOrGiveUp
<1>15. CASE DeadLetter(w)
  <2>1. fetch[w].offer \in Offer /\ fetch[w].loaded \in Row
    BY <1>0, <1>15 DEF DeadLetter, LocalsOK, FetchControl, FetchLocals
  <2>2. row[fetch[w].offer] \in Row
    BY <1>0, <2>1
  <2>3. MarkOfferUnavailable(row[fetch[w].offer], fetch[w].loaded) \in Row
    BY <2>1, <2>2 DEF MarkOfferUnavailable, Flushed, Row
  <2> QED
    BY <1>15, <2>1, <2>3 DEF DeadLetter
<1>16. CASE LoadStale(w)
  BY <1>16 DEF LoadStale, LocalsOK, FetchControl
<1> QED
  BY <1>1, <1>2, <1>3, <1>4, <1>5, <1>6, <1>7, <1>8, <1>9, <1>10, <1>11,
     <1>12, <1>13, <1>14, <1>15, <1>16
  DEF FetchStep

LEMMA FaultKeepsType ==
  ASSUME TypeOK, ProcessesOK, ProcessesOK', NEW w \in Worker, Fault(w)
  PROVE  TypeOK'
<1> USE DEF TypeOK, ProcessesOK, database, redis, messages
<1>1. CASE RedisFault(w)
  BY <1>1 DEF RedisFault, LocalsOK, FetchControl
<1>2. CASE DatabaseFault(w)
  BY <1>2 DEF DatabaseFault, LocalsOK, FetchControl
<1>3. CASE Crash(w)
  BY <1>3 DEF Crash
<1> QED
  BY <1>1, <1>2, <1>3 DEF Fault

LEMMA RequestKeepsType ==
  ASSUME TypeOK, ProcessesOK', Request \/ Environment
  PROVE  TypeOK'
<1> USE DEF TypeOK, ProcessesOK, database, redis, messages
<1>1. CASE RequestRefresh
  BY <1>1, BoundsAssumption DEF RequestRefresh
<1>2. CASE DeleteItem
  <2>1. NewRow \in Row
    BY DEF NewRow, Row
  <2>2. <<>> \in Seq(Price)
    OBVIOUS
  <2>3. row' \in [Offer -> Row] /\ history' \in [Offer -> Seq(Price)]
    BY <1>2, <2>1, <2>2 DEF DeleteItem
  <2> QED
    BY <1>2, <2>3 DEF DeleteItem
<1>3. CASE CacheExpires
  BY <1>3 DEF CacheExpires
<1>4. ASSUME NEW o \in Offer,
             LockExpires(o) \/ ListingEnds(o) \/ ListingReturns(o)
      PROVE  TypeOK'
  BY <1>4 DEF LockExpires, ListingEnds, ListingReturns
<1>5. IdleReader \in ReaderState
  BY FreshLocals
<1>6. ASSUME NEW r \in Reader, ReadItem(r) PROVE TypeOK'
  <2>1. [reader[r] EXCEPT !.at = "lookup", !.known = present, !.rows = row]
          \in ReaderState
    BY ZenonT(30) DEF ReaderState
  <2> QED
    BY <1>6, <2>1 DEF ReadItem
<1>7. ASSUME NEW r \in Reader, LookupDeal(r) PROVE TypeOK'
  <2>1. reader[r] \in ReaderState
    OBVIOUS
  <2>2. [reader[r] EXCEPT !.at = "compute"] \in ReaderState
    BY <2>1 DEF ReaderState
  <2> QED
    BY <1>5, <1>7, <2>2 DEF LookupDeal
<1>8. ASSUME NEW r \in Reader, ComputeDeal(r) PROVE TypeOK'
  <2> DEFINE loaded == [o \in Offer |-> IF o \in reader[r].known
                                        THEN reader[r].rows[o] ELSE row[o]]
             deal   == BestPrice(loaded, present)
  <2>1. loaded \in [Offer -> Row]
    BY DEF ReaderState
  <2>2. deal \in Price \cup {None}
    BY <2>1, BestPriceType
  <2>3. [IdleReader EXCEPT !.at = "store", !.deal = deal] \in ReaderState
    BY <1>5, <2>2 DEF ReaderState
  <2> QED
    BY <1>8, <2>3 DEF ComputeDeal
<1>9. ASSUME NEW r \in Reader, StoreDeal(r) PROVE TypeOK'
  BY <1>5, <1>9 DEF StoreDeal, ReaderState
<1> QED
  BY <1>1, <1>2, <1>3, <1>4, <1>6, <1>7, <1>8, <1>9 DEF Request, Environment

(***************************************************************************)
(* Type correctness: whatever fails, every variable keeps its type, and a  *)
(* worker that is about to record or announce a price has fetched one.     *)
(***************************************************************************)
LEMMA StepKeepsType ==
  ASSUME TypeOK, ProcessesOK, [Next]_vars
  PROVE  TypeOK' /\ ProcessesOK'
<1>1. CASE UNCHANGED vars
  BY <1>1, RequestKeepsProcesses
  DEF vars, database, redis, messages, processes, TypeOK
<1>2. CASE Request \/ Environment
  BY <1>2, RequestKeepsProcesses, RequestKeepsType
<1>3. ASSUME NEW w \in Worker,
             TakeMessage(w) \/ RefreshStep(w) \/ FetchStep(w) \/ Fault(w)
      PROVE  TypeOK' /\ ProcessesOK'
  <2>1. ProcessesOK'
    BY <1>3, TakeMessageKeepsProcesses, RefreshStepKeepsProcesses,
       FetchStepKeepsProcesses, FaultKeepsProcesses
  <2>2. TypeOK'
    BY <1>3, <2>1, TakeMessageKeepsType, RefreshStepKeepsType,
       FetchStepKeepsType, FaultKeepsType
  <2> QED
    BY <2>1, <2>2
<1> QED
  BY <1>1, <1>2, <1>3 DEF Next

THEOREM TypeCorrect == Spec => [](TypeOK /\ ProcessesOK)
<1>1. Init => TypeOK /\ ProcessesOK
  BY InitTyped
<1>2. TypeOK /\ ProcessesOK /\ [Next]_vars => (TypeOK /\ ProcessesOK)'
  BY StepKeepsType
<1> QED
  BY <1>1, <1>2, PTL DEF Spec

(***************************************************************************)
(* The offer lock.  MutualExclusion is not inductive: nothing in it says   *)
(* that the key exists while a worker is inside, which is what makes the   *)
(* next SET NX fail.  LockOK adds it.                                      *)
(***************************************************************************)
LockOK ==
  \A w \in Worker : pc[w] \in InLock =>
    /\ lock[fetch[w].offer]
    /\ \A v \in Worker :
         pc[v] \in InLock /\ fetch[v].offer = fetch[w].offer => v = w

\* A step that lets nobody in and deletes no key.
LEMMA NobodyEnters ==
  ASSUME LockOK, UNCHANGED lock,
         \A w \in Worker : pc'[w] \in InLock =>
           pc[w] \in InLock /\ fetch'[w].offer = fetch[w].offer
  PROVE  LockOK'
  BY DEF LockOK

LEMMA FinishNobodyEnters ==
  ASSUME ProcessesOK, LockOK, UNCHANGED lock, NEW w \in Worker, Finish(w)
  PROVE  LockOK'
<1>1. \A v \in Worker : pc'[v] \in InLock =>
        pc[v] \in InLock /\ fetch'[v].offer = fetch[v].offer
  BY DEF Finish, ProcessesOK, InLock
<1> QED
  BY <1>1, NobodyEnters

LEMMA LeaveNobodyEnters ==
  ASSUME ProcessesOK, LockOK, UNCHANGED lock, NEW w \in Worker,
         NEW from \in InLock, NEW outcome, Leave(w, from, outcome)
  PROVE  LockOK'
<1>1. \A v \in Worker : pc'[v] \in InLock =>
        pc[v] \in InLock /\ fetch'[v].offer = fetch[v].offer
  BY DEF Leave, Goto, ProcessesOK, InLock, FetchLocals
<1> QED
  BY <1>1, NobodyEnters

LEMMA FetchStepKeepsLock ==
  ASSUME TypeOK, ProcessesOK, LockOK, NEW w \in Worker, FetchStep(w)
  PROVE  LockOK'
<1> USE DEF InLock, database, redis, messages, processes
<1>0. fetch[w] \in FetchLocals /\ fetch \in [Worker -> FetchLocals]
      /\ pc \in [Worker -> Control] /\ lock \in [Offer -> BOOLEAN]
      /\ (pc[w] \in FetchControl => fetch[w].offer \in Offer)
  BY DEF ProcessesOK, LocalsOK, TypeOK
<1>1. CASE LoadOffer(w)
  <2>1. \A v \in Worker : pc'[v] \in InLock =>
          pc[v] \in InLock /\ fetch'[v].offer = fetch[v].offer
    BY <1>0, <1>1 DEF LoadOffer, Finish
  <2> QED
    BY <1>1, <2>1, NobodyEnters DEF LoadOffer
<1>2. CASE AcquireLock(w)
  <2>1. CASE lock[fetch[w].offer]
    BY <1>2, <2>1, FinishNobodyEnters DEF AcquireLock
  <2>2. CASE ~lock[fetch[w].offer]
    <3>1. fetch[w].offer \in Offer
      BY <1>0, <1>2 DEF AcquireLock, FetchControl
    <3>2. \A v \in Worker : pc[v] \in InLock =>
            fetch[v].offer # fetch[w].offer
      BY <2>2 DEF LockOK
    <3>3. /\ pc' = [pc EXCEPT ![w] = "rate"]
          /\ lock' = [lock EXCEPT ![fetch[w].offer] = TRUE]
          /\ UNCHANGED fetch
      BY <1>2, <2>2 DEF AcquireLock
    <3>4. \A v \in Worker : pc'[v] \in InLock => v = w \/ pc[v] \in InLock
      BY <1>0, <3>3
    <3>5. \A v \in Worker : pc'[v] \in InLock => lock'[fetch'[v].offer]
      BY <1>0, <3>1, <3>3, <3>4 DEF LockOK
    <3>6. \A u, v \in Worker :
            /\ pc'[u] \in InLock /\ pc'[v] \in InLock
            /\ fetch'[u].offer = fetch'[v].offer
            => u = v
      BY <3>2, <3>3, <3>4 DEF LockOK
    <3> QED
      BY <3>5, <3>6 DEF LockOK
  <2> QED
    BY <2>1, <2>2
<1>3. CASE RateAllowed(w)
  <2>1. \A v \in Worker : pc'[v] \in InLock =>
          pc[v] \in InLock /\ fetch'[v].offer = fetch[v].offer
    BY <1>0, <1>3 DEF RateAllowed, Goto, FetchLocals
  <2> QED
    BY <1>3, <2>1, NobodyEnters DEF RateAllowed
<1>4. CASE RateDenied(w)
  BY <1>4, LeaveNobodyEnters DEF RateDenied
<1>5. ASSUME NEW observed \in Observation, FetchPrice(w, observed)
      PROVE  LockOK'
  <2>1. \A v \in Worker : pc'[v] \in InLock =>
          pc[v] \in InLock /\ fetch'[v].offer = fetch[v].offer
    BY <1>0, <1>5 DEF FetchPrice, Goto, FetchLocals
  <2> QED
    BY <1>5, <2>1, NobodyEnters DEF FetchPrice
<1>6. ASSUME NEW outcome \in Outcome, FetchRaises(w, outcome)
      PROVE  LockOK'
  BY <1>6, LeaveNobodyEnters DEF FetchRaises
<1>7. CASE CommitPrice(w)
  BY <1>7, LeaveNobodyEnters DEF CommitPrice
<1>8. CASE ReleaseLock(w)
  <2>1. \A v \in Worker : pc'[v] \in InLock =>
          v # w /\ pc[v] \in InLock /\ fetch'[v].offer = fetch[v].offer
    BY <1>0, <1>8 DEF ReleaseLock, Finish
  <2>2. \A v \in Worker : v # w /\ pc[v] \in InLock =>
          fetch[v].offer # fetch[w].offer
    BY <1>8 DEF ReleaseLock, LockOK
  <2>3. \A o \in Offer : o # fetch[w].offer => lock'[o] = lock[o]
    BY <1>0, <1>8 DEF ReleaseLock
  <2> QED
    BY <1>0, <2>1, <2>2, <2>3 DEF LockOK, ProcessesOK, LocalsOK, FetchControl
<1>9. CASE InvalidateCache(w)
  BY <1>0, <1>9, NobodyEnters DEF InvalidateCache, Goto
<1>10. CASE AnnounceDrop(w)
  BY <1>10, FinishNobodyEnters DEF AnnounceDrop
<1>11. CASE RereadOffer(w)
  <2>1. \A v \in Worker : pc'[v] \in InLock =>
          pc[v] \in InLock /\ fetch'[v].offer = fetch[v].offer
    BY <1>0, <1>11 DEF RereadOffer
  <2> QED
    BY <1>11, <2>1, NobodyEnters DEF RereadOffer
<1>12. CASE CommitDelisted(w)
  <2>1. CASE Finish(w)
    BY <1>12, <2>1, FinishNobodyEnters DEF CommitDelisted
  <2>2. CASE UNCHANGED fetch /\ pc' = [pc EXCEPT ![w] = "forget"]
    BY <1>0, <1>12, <2>2, NobodyEnters DEF CommitDelisted
  <2> QED
    BY <1>12, <2>1, <2>2 DEF CommitDelisted
<1>13. CASE ForgetDeal(w)
  BY <1>13, FinishNobodyEnters DEF ForgetDeal
<1>14. CASE RetryOrGiveUp(w)
  <2>1. CASE Finish(w)
    BY <1>14, <2>1, FinishNobodyEnters DEF RetryOrGiveUp
  <2>2. CASE UNCHANGED fetch /\ pc' = [pc EXCEPT ![w] = "deadLetter"]
    BY <1>0, <1>14, <2>2, NobodyEnters DEF RetryOrGiveUp
  <2> QED
    BY <1>14, <2>1, <2>2 DEF RetryOrGiveUp
<1>15. CASE DeadLetter(w)
  <2>1. CASE Finish(w)
    BY <1>15, <2>1, FinishNobodyEnters DEF DeadLetter
  <2>2. CASE UNCHANGED fetch /\ pc' = [pc EXCEPT ![w] = "forget"]
    BY <1>0, <1>15, <2>2, NobodyEnters DEF DeadLetter
  <2> QED
    BY <1>15, <2>1, <2>2 DEF DeadLetter
<1>16. CASE LoadStale(w)
  <2>1. \A v \in Worker : pc'[v] \in InLock =>
          pc[v] \in InLock /\ fetch'[v].offer = fetch[v].offer
    BY <1>0, <1>16 DEF LoadStale, Finish
  <2> QED
    BY <1>16, <2>1, NobodyEnters DEF LoadStale
<1> QED
  BY <1>1, <1>2, <1>3, <1>4, <1>5, <1>6, <1>7, <1>8, <1>9, <1>10, <1>11,
     <1>12, <1>13, <1>14, <1>15, <1>16
  DEF FetchStep

LEMMA OtherStepKeepsLock ==
  ASSUME TypeOK, ProcessesOK, LockOK, "slow" \notin Faults,
         \/ Request \/ Environment \/ UNCHANGED vars
         \/ \E w \in Worker : TakeMessage(w) \/ RefreshStep(w) \/ Fault(w)
  PROVE  LockOK'
<1> USE DEF InLock, database, redis, messages, processes
<1>0. fetch \in [Worker -> FetchLocals] /\ pc \in [Worker -> Control]
  BY DEF ProcessesOK
<1>1. ASSUME NEW o \in Offer, LockExpires(o) PROVE LockOK'
  <2>1. \A w \in Worker : pc[w] \in InLock => fetch[w].offer # o
    BY <1>1 DEF LockExpires, Holders
  <2> QED
    BY <1>1, <2>1
    DEF LockExpires, LockOK, ProcessesOK, LocalsOK, FetchControl, TypeOK
<1>2. CASE UNCHANGED <<lock, pc, fetch>>
  BY <1>2, NobodyEnters
<1>3. ASSUME NEW w \in Worker, TakeMessage(w) PROVE LockOK'
  <2>1. \A v \in Worker : pc'[v] \in InLock =>
          pc[v] \in InLock /\ fetch'[v].offer = fetch[v].offer
    BY <1>0, <1>3 DEF TakeMessage, StartRefresh, StartFetch, Goto
  <2> QED
    BY <1>3, <2>1, NobodyEnters DEF TakeMessage, StartRefresh, StartFetch
<1>4. ASSUME NEW w \in Worker, RefreshStep(w) PROVE LockOK'
  <2>1. \A v \in Worker : pc'[v] \in InLock =>
          pc[v] \in InLock /\ fetch'[v].offer = fetch[v].offer
    BY <1>0, <1>4
    DEF RefreshStep, SearchSource, SearchDone, FlushOffers, FanOut,
        FanOutDone, Goto, Finish
  <2> QED
    BY <1>4, <2>1, NobodyEnters
    DEF RefreshStep, SearchSource, SearchDone, FlushOffers, FanOut, FanOutDone
<1>5. ASSUME NEW w \in Worker, Fault(w) PROVE LockOK'
  <2>1. CASE Finish(w)
    BY <1>5, <2>1, FinishNobodyEnters
    DEF Fault, RedisFault, DatabaseFault, Crash
  <2>2. CASE \E from \in InLock : Leave(w, from, "error")
    BY <1>5, <2>2, LeaveNobodyEnters
    DEF Fault, RedisFault, DatabaseFault, Crash
  <2>3. CASE pc' = [pc EXCEPT ![w] = "retry"] /\ UNCHANGED fetch
    BY <1>0, <1>5, <2>3, NobodyEnters
    DEF Fault, RedisFault, DatabaseFault, Crash
  <2> QED
    BY <1>5, <2>1, <2>2, <2>3 DEF Fault, RedisFault, DatabaseFault, Crash, Goto
<1> QED
  BY <1>1, <1>2, <1>3, <1>4, <1>5
  DEF Request, Environment, RequestRefresh, DeleteItem, ReadItem, LookupDeal, ComputeDeal,
      StoreDeal, CacheExpires, ListingEnds, ListingReturns, vars

(***************************************************************************)
(* "Only one worker fetches a given offer at a time": for any number of    *)
(* workers, offers, retries and failures, as long as no fetch outlives the *)
(* ttl of its lock.                                                        *)
(***************************************************************************)
THEOREM FetchesExclude ==
  ASSUME "slow" \notin Faults
  PROVE  Spec => []MutualExclusion
<1>1. Init => TypeOK /\ ProcessesOK /\ LockOK
  BY InitTyped DEF Init, LockOK, InLock
<1>2. TypeOK /\ ProcessesOK /\ LockOK /\ [Next]_vars
        => (TypeOK /\ ProcessesOK /\ LockOK)'
  BY StepKeepsType, FetchStepKeepsLock, OtherStepKeepsLock DEF Next
<1>3. LockOK => MutualExclusion
  BY DEF LockOK, MutualExclusion, Holders
<1> QED
  BY <1>1, <1>2, <1>3, PTL DEF Spec

(***************************************************************************)
(* Snapshot and history.  record_price flushes the snapshot price only     *)
(* when it differs from the one loaded, so the step that appends to the    *)
(* history may leave the snapshot alone: SnapshotFromHistory survives      *)
(* because a task that loaded a price still finds one in the row, which is *)
(* what HistoryOK adds, with what a deletion guarantees.                   *)
(***************************************************************************)
HoldsRow == {"lock", "rate", "fetch", "commit"}

LoadedOK ==
  \A w \in Worker : pc[w] \in HoldsRow /\ tracked =>
    /\ fetch[w].offer \in present
    /\ fetch[w].loaded.price # None => row[fetch[w].offer].price # None

HistoryOK ==
  /\ tracked \/ present = {}
  /\ \A o \in Offer \ present : history[o] = <<>>
  /\ LoadedOK
  /\ SnapshotFromHistory

\* No worker loads a row, or changes the one it loaded.
NothingLoaded ==
  \A w \in Worker : pc'[w] \in HoldsRow =>
    /\ pc[w] \in HoldsRow
    /\ fetch'[w].offer = fetch[w].offer
    /\ fetch'[w].loaded = fetch[w].loaded

LEMMA QuietStepKeepsHistory ==
  ASSUME HistoryOK, NothingLoaded, UNCHANGED <<tracked, present, row, history>>
  PROVE  HistoryOK'
  BY DEF HistoryOK, NothingLoaded, LoadedOK, SnapshotFromHistory

LEMMA FinishLoadsNothing ==
  ASSUME ProcessesOK, NEW w \in Worker, Finish(w)
  PROVE  NothingLoaded
  BY DEF ProcessesOK, Finish, NothingLoaded, HoldsRow

LEMMA LeaveLoadsNothing ==
  ASSUME ProcessesOK, NEW w \in Worker, NEW from, NEW outcome,
         Leave(w, from, outcome)
  PROVE  NothingLoaded
  BY DEF ProcessesOK, Leave, Goto, NothingLoaded, HoldsRow, FetchLocals

\* A flush that keeps every price keeps the snapshots backed.
LEMMA SamePricesKeepHistory ==
  ASSUME HistoryOK, NothingLoaded, UNCHANGED <<tracked, present, history>>,
         \A o \in Offer : row'[o].price = row[o].price,
         present \in SUBSET Offer
  PROVE  HistoryOK'
  BY DEF HistoryOK, NothingLoaded, LoadedOK, SnapshotFromHistory

LEMMA FlushKeepsHistory ==
  ASSUME TypeOK, ProcessesOK, HistoryOK, NEW w \in Worker, FlushOffers(w)
  PROVE  HistoryOK'
<1> DEFINE accepted == tracked /\ refresh[w].insert \cap present = {}
<1>1. CASE ~accepted
  BY <1>1, FinishLoadsNothing, QuietStepKeepsHistory DEF FlushOffers
<1>2. CASE accepted
  <2>1. /\ present' = present \cup refresh[w].insert
        /\ UNCHANGED <<tracked, history, fetch>>
        /\ pc' = [pc EXCEPT ![w] = "fanout"]
        /\ refresh[w].insert \in SUBSET Offer
    BY <1>2 DEF FlushOffers, ProcessesOK, RefreshLocals
  <2>2. \A o \in Offer :
          row'[o].price = IF o \in refresh[w].insert THEN None ELSE row[o].price
    BY <1>2 DEF FlushOffers, NewRow, Revive, TypeOK, Row
  <2>3. \A v \in Worker : pc'[v] \in HoldsRow => pc[v] \in HoldsRow
    BY <2>1 DEF ProcessesOK, HoldsRow
  <2>4. LoadedOK'
    <3>1. ASSUME NEW v \in Worker, pc'[v] \in HoldsRow, tracked'
          PROVE  /\ fetch'[v].offer \in present'
                 /\ fetch'[v].loaded.price # None
                      => row'[fetch'[v].offer].price # None
      <4>1. /\ fetch[v].offer \in present
            /\ fetch[v].loaded.price # None => row[fetch[v].offer].price # None
        BY <2>1, <2>3, <3>1 DEF HistoryOK, LoadedOK
      <4>2. fetch[v].offer \in Offer /\ fetch[v].offer \notin refresh[w].insert
        BY <1>2, <4>1 DEF TypeOK
      <4> QED
        BY <2>1, <2>2, <4>1, <4>2
    <3> QED
      BY <3>1 DEF LoadedOK
  <2>5. SnapshotFromHistory'
    <3>1. ASSUME NEW o \in present'
          PROVE  IF history[o] = <<>> THEN row'[o].price = None
                 ELSE \E i \in DOMAIN history[o] : row'[o].price = history[o][i]
      <4>1. CASE o \in refresh[w].insert
        BY <1>2, <2>1, <2>2, <4>1 DEF HistoryOK
      <4>2. CASE o \notin refresh[w].insert
        <5>1. o \in present /\ row'[o].price = row[o].price
          BY <2>1, <2>2, <4>2 DEF TypeOK
        <5> QED
          BY <5>1 DEF HistoryOK, SnapshotFromHistory
      <4> QED
        BY <4>1, <4>2
    <3> QED
      BY <2>1, <3>1 DEF SnapshotFromHistory
  <2>6. \A o \in Offer \ present' : history'[o] = <<>>
    BY <2>1 DEF HistoryOK
  <2> QED
    BY <1>2, <2>1, <2>4, <2>5, <2>6 DEF HistoryOK
<1> QED
  BY <1>1, <1>2

LEMMA CommitKeepsHistory ==
  ASSUME TypeOK, ProcessesOK, HistoryOK, NEW w \in Worker, CommitPrice(w)
  PROVE  HistoryOK'
<1> DEFINE o == fetch[w].offer
           p == fetch[w].observed.price
<1>0. NothingLoaded
  BY LeaveLoadsNothing DEF CommitPrice
<1>1. CASE o \notin present
  BY <1>0, <1>1, QuietStepKeepsHistory DEF CommitPrice
<1>2. CASE o \in present
  <2>1. /\ o \in Offer /\ p \in Price /\ tracked
        /\ row[o] \in Row /\ history[o] \in Seq(Price)
        /\ fetch[w].loaded.price # None => row[o].price # None
    BY <1>2
    DEF CommitPrice, ProcessesOK, LocalsOK, HasPrice, TypeOK, HistoryOK,
        LoadedOK, HoldsRow, FetchControl
  <2>2. /\ history' = [history EXCEPT ![o] = Append(history[o], p)]
        /\ row' = [row EXCEPT ![o] = RecordPrice(row[o], fetch[w].loaded,
                                                 fetch[w].observed)]
        /\ UNCHANGED <<tracked, present>>
    BY <1>2 DEF CommitPrice
  <2>3. row'[o].price = IF p = fetch[w].loaded.price THEN row[o].price ELSE p
    BY <2>1, <2>2 DEF RecordPrice, Flushed, TypeOK, Row
  <2>4. row'[o].price # None
    BY <2>1, <2>3, NoneAssumption
  <2>5. /\ history'[o] = Append(history[o], p) /\ history'[o] # <<>>
        /\ \A x \in Offer : x # o => /\ history'[x] = history[x]
                                     /\ row'[x] = row[x]
    <3>1. history'[o] = Append(history[o], p)
      BY <2>1, <2>2 DEF TypeOK
    <3>2. Append(history[o], p) # <<>>
      BY <2>1, AppendProperties
    <3>3. \A x \in Offer : x # o => history'[x] = history[x] /\ row'[x] = row[x]
      BY <2>2 DEF TypeOK
    <3> QED
      BY <3>1, <3>2, <3>3
  <2>6. \E i \in DOMAIN history'[o] : row'[o].price = history'[o][i]
    <3>1. /\ DOMAIN history'[o] = 1..(Len(history[o]) + 1)
          /\ history'[o][Len(history[o]) + 1] = p
          /\ \A i \in 1..Len(history[o]) : history'[o][i] = history[o][i]
          /\ DOMAIN history[o] = 1..Len(history[o]) /\ Len(history[o]) \in Nat
      BY <2>1, <2>5
    <3>2. CASE p # fetch[w].loaded.price
      BY <2>3, <3>1, <3>2
    <3>3. CASE p = fetch[w].loaded.price
      <4>1. row[o].price # None /\ row'[o].price = row[o].price
        BY <2>1, <2>3, <3>3, NoneAssumption
      <4>2. \E i \in DOMAIN history[o] : row[o].price = history[o][i]
        BY <1>2, <4>1 DEF HistoryOK, SnapshotFromHistory
      <4> QED
        BY <3>1, <4>1, <4>2
    <3> QED
      BY <3>2, <3>3
  <2>7. SnapshotFromHistory'
    BY SMTT(20), <2>2, <2>5, <2>6 DEF HistoryOK, SnapshotFromHistory, TypeOK
  <2>8. LoadedOK'
    <3>1. ASSUME NEW v \in Worker, pc'[v] \in HoldsRow
          PROVE  /\ fetch'[v].offer \in present
                 /\ fetch'[v].loaded.price # None
                      => row'[fetch'[v].offer].price # None
      <4>1. /\ fetch'[v].offer = fetch[v].offer
            /\ fetch'[v].loaded = fetch[v].loaded
            /\ fetch[v].offer \in present
            /\ fetch[v].loaded.price # None => row[fetch[v].offer].price # None
        BY <1>0, <2>1, <3>1 DEF HistoryOK, LoadedOK, NothingLoaded
      <4>2. fetch[v].offer \in Offer
        BY <4>1 DEF TypeOK
      <4> QED
        BY <2>4, <2>5, <4>1, <4>2
    <3> QED
      BY <2>2, <3>1 DEF LoadedOK
  <2>9. \A x \in Offer \ present' : history'[x] = <<>>
    BY <1>2, <2>2, <2>5 DEF HistoryOK
  <2> QED
    BY <2>1, <2>2, <2>7, <2>8, <2>9 DEF HistoryOK
<1> QED
  BY <1>1, <1>2

LEMMA FetchStepKeepsHistory ==
  ASSUME TypeOK, ProcessesOK, HistoryOK, NEW w \in Worker, FetchStep(w)
  PROVE  HistoryOK'
<1> USE DEF database
<1>0. /\ fetch \in [Worker -> FetchLocals] /\ pc \in [Worker -> Control]
      /\ present \in SUBSET Offer /\ row \in [Offer -> Row]
  BY DEF ProcessesOK, TypeOK
<1>1. CASE LoadOffer(w)
  <2>1. CASE fetch[w].offer \notin present
    BY <1>1, <2>1, FinishLoadsNothing, QuietStepKeepsHistory DEF LoadOffer
  <2>2. CASE fetch[w].offer \in present
    <3>1. LoadedOK'
      BY <1>0, <1>1, <2>2
      DEF LoadOffer, HistoryOK, LoadedOK, HoldsRow, FetchLocals
    <3> QED
      BY <1>1, <3>1 DEF LoadOffer, HistoryOK, SnapshotFromHistory
  <2> QED
    BY <2>1, <2>2
<1>2. CASE AcquireLock(w)
  <2>1. CASE Finish(w)
    BY <1>2, <2>1, FinishLoadsNothing, QuietStepKeepsHistory DEF AcquireLock
  <2>2. CASE pc' = [pc EXCEPT ![w] = "rate"] /\ UNCHANGED fetch
    <3>1. NothingLoaded
      BY <1>0, <1>2, <2>2 DEF AcquireLock, NothingLoaded, HoldsRow
    <3> QED
      BY <1>2, <3>1, QuietStepKeepsHistory DEF AcquireLock
  <2> QED
    BY <1>2, <2>1, <2>2 DEF AcquireLock
<1>3. CASE RateAllowed(w)
  <2>1. NothingLoaded
    BY <1>0, <1>3
    DEF RateAllowed, Goto, NothingLoaded, HoldsRow, FetchLocals
  <2> QED
    BY <1>3, <2>1, QuietStepKeepsHistory DEF RateAllowed
<1>4. CASE RateDenied(w)
  BY <1>4, LeaveLoadsNothing, QuietStepKeepsHistory DEF RateDenied
<1>5. ASSUME NEW observed \in Observation, FetchPrice(w, observed)
      PROVE  HistoryOK'
  <2>1. NothingLoaded
    BY <1>0, <1>5
    DEF FetchPrice, Goto, NothingLoaded, HoldsRow, FetchLocals
  <2> QED
    BY <1>5, <2>1, QuietStepKeepsHistory DEF FetchPrice
<1>6. ASSUME NEW outcome \in Outcome, FetchRaises(w, outcome)
      PROVE  HistoryOK'
  BY <1>6, LeaveLoadsNothing, QuietStepKeepsHistory DEF FetchRaises
<1>7. CASE CommitPrice(w)
  BY <1>7, CommitKeepsHistory
<1>8. CASE ReleaseLock(w)
  <2>1. NothingLoaded
    BY <1>0, <1>8, FinishLoadsNothing
    DEF ReleaseLock, NothingLoaded, HoldsRow
  <2> QED
    BY <1>8, <2>1, QuietStepKeepsHistory DEF ReleaseLock
<1>9. CASE InvalidateCache(w)
  <2>1. NothingLoaded
    BY <1>0, <1>9 DEF InvalidateCache, Goto, NothingLoaded, HoldsRow
  <2> QED
    BY <1>9, <2>1, QuietStepKeepsHistory DEF InvalidateCache
<1>10. CASE AnnounceDrop(w)
  BY <1>10, FinishLoadsNothing, QuietStepKeepsHistory DEF AnnounceDrop
<1>11. CASE RereadOffer(w)
  <2>1. NothingLoaded
    BY <1>0, <1>11 DEF RereadOffer, NothingLoaded, HoldsRow
  <2> QED
    BY <1>11, <2>1, QuietStepKeepsHistory DEF RereadOffer
<1>12. CASE CommitDelisted(w)
  <2>1. NothingLoaded
    BY <1>0, <1>12, FinishLoadsNothing
    DEF CommitDelisted, NothingLoaded, HoldsRow
  <2>2. \A o \in Offer : row'[o].price = row[o].price
    <3>1. \A current, loaded \in Row :
            MarkOfferDelisted(current, loaded).price = current.price
      BY DEF MarkOfferDelisted, Row
    <3>2. fetch[w].loaded \in Row
      BY <1>0 DEF FetchLocals
    <3> QED
      BY <1>0, <1>12, <3>1, <3>2 DEF CommitDelisted
  <2> QED
    BY <1>0, <1>12, <2>1, <2>2, SamePricesKeepHistory DEF CommitDelisted
<1>13. CASE ForgetDeal(w)
  BY <1>13, FinishLoadsNothing, QuietStepKeepsHistory DEF ForgetDeal
<1>14. CASE RetryOrGiveUp(w)
  <2>1. NothingLoaded
    BY <1>0, <1>14, FinishLoadsNothing
    DEF RetryOrGiveUp, NothingLoaded, HoldsRow
  <2> QED
    BY <1>14, <2>1, QuietStepKeepsHistory DEF RetryOrGiveUp
<1>15. CASE DeadLetter(w)
  <2>1. NothingLoaded
    BY <1>0, <1>15, FinishLoadsNothing
    DEF DeadLetter, NothingLoaded, HoldsRow
  <2>2. \A o \in Offer : row'[o].price = row[o].price
    <3>1. \A current, loaded \in Row :
            MarkOfferUnavailable(current, loaded).price = current.price
      BY DEF MarkOfferUnavailable, Row
    <3>2. fetch[w].loaded \in Row
      BY <1>0 DEF FetchLocals
    <3> QED
      BY <1>0, <1>15, <3>1, <3>2 DEF DeadLetter
  <2> QED
    BY <1>0, <1>15, <2>1, <2>2, SamePricesKeepHistory DEF DeadLetter
<1>16. CASE LoadStale(w)
  <2>1. NothingLoaded
    BY <1>0, <1>16, FinishLoadsNothing DEF LoadStale, NothingLoaded, HoldsRow
  <2> QED
    BY <1>16, <2>1, QuietStepKeepsHistory DEF LoadStale
<1> QED
  BY <1>1, <1>2, <1>3, <1>4, <1>5, <1>6, <1>7, <1>8, <1>9, <1>10, <1>11,
     <1>12, <1>13, <1>14, <1>15, <1>16
  DEF FetchStep

LEMMA OtherStepKeepsHistory ==
  ASSUME TypeOK, ProcessesOK, HistoryOK,
         \/ Request \/ Environment \/ UNCHANGED vars
         \/ \E w \in Worker : TakeMessage(w) \/ RefreshStep(w) \/ Fault(w)
  PROVE  HistoryOK'
<1> USE DEF database, processes, HoldsRow
<1>0. fetch \in [Worker -> FetchLocals] /\ pc \in [Worker -> Control]
  BY DEF ProcessesOK
<1>1. CASE DeleteItem
  BY <1>1 DEF DeleteItem, HistoryOK, LoadedOK, SnapshotFromHistory
<1>2. CASE UNCHANGED <<database, pc, fetch>>
  BY <1>2, QuietStepKeepsHistory DEF NothingLoaded
<1>3. ASSUME NEW w \in Worker, TakeMessage(w) PROVE HistoryOK'
  <2>1. NothingLoaded
    BY <1>0, <1>3
    DEF TakeMessage, StartRefresh, StartFetch, Goto, NothingLoaded
  <2> QED
    BY <1>3, <2>1, QuietStepKeepsHistory
    DEF TakeMessage, StartRefresh, StartFetch
<1>4. ASSUME NEW w \in Worker, RefreshStep(w), ~FlushOffers(w)
      PROVE  HistoryOK'
  <2>1. NothingLoaded
    BY <1>0, <1>4, FinishLoadsNothing
    DEF RefreshStep, SearchSource, SearchDone, FanOut, FanOutDone, Goto,
        NothingLoaded
  <2> QED
    BY <1>4, <2>1, QuietStepKeepsHistory
    DEF RefreshStep, SearchSource, SearchDone, FanOut, FanOutDone
<1>5. ASSUME NEW w \in Worker, FlushOffers(w) PROVE HistoryOK'
  BY <1>5, FlushKeepsHistory
<1>6. ASSUME NEW w \in Worker, Fault(w) PROVE HistoryOK'
  <2>1. NothingLoaded
    <3>1. CASE Finish(w)
      BY <3>1, FinishLoadsNothing
    <3>2. CASE \E from \in Control : Leave(w, from, "error")
      BY <3>2, LeaveLoadsNothing
    <3>3. CASE pc' = [pc EXCEPT ![w] = "retry"] /\ UNCHANGED fetch
      BY <1>0, <3>3 DEF NothingLoaded
    <3> QED
      BY <1>6, <3>1, <3>2, <3>3
      DEF Fault, RedisFault, DatabaseFault, Crash, Goto, Control, FetchControl
  <2> QED
    BY <1>6, <2>1, QuietStepKeepsHistory
    DEF Fault, RedisFault, DatabaseFault, Crash
<1> QED
  BY <1>1, <1>2, <1>3, <1>4, <1>5, <1>6
  DEF Request, Environment, RequestRefresh, ReadItem, LookupDeal, ComputeDeal, StoreDeal,
      CacheExpires, LockExpires, ListingEnds, ListingReturns, vars

LEMMA HistoryInduction == Spec => [](TypeOK /\ ProcessesOK /\ HistoryOK)
<1>1. Init => HistoryOK
  <2>1. ASSUME Init, TrackedByName PROVE HistoryOK
    BY <2>1 DEF Init, TrackedByName, HistoryOK, LoadedOK, HoldsRow,
                SnapshotFromHistory
  <2>2. ASSUME Init, NEW o \in Offer, NEW observed \in Observation,
               TrackedByUrl(o, observed)
        PROVE  HistoryOK
    <3>1. observed.price \in Price
      BY DEF Observation
    <3>2. /\ row[o].price = observed.price
          /\ history[o] = <<observed.price>>
          /\ \A x \in Offer : x # o => history[x] = <<>>
          /\ present = {o}
      BY <2>2, <3>1, NoneAssumption
      DEF TrackedByUrl, RecordPrice, Flushed, NewRow
    <3>3. 1 \in DOMAIN history[o] /\ history[o][1] = row[o].price
      BY <3>1, <3>2
    <3>4. history[o] # <<>>
      BY <3>3
    <3>5. SnapshotFromHistory
      BY <3>2, <3>3, <3>4 DEF SnapshotFromHistory
    <3> QED
      BY <2>2, <3>2, <3>5 DEF Init, HistoryOK, LoadedOK, HoldsRow
  <2> QED
    BY <2>1, <2>2 DEF Init
<1>2. TypeOK /\ ProcessesOK /\ HistoryOK /\ [Next]_vars => HistoryOK'
  BY FetchStepKeepsHistory, OtherStepKeepsHistory DEF Next
<1> QED
  BY <1>1, <1>2, TypeCorrect, PTL DEF Spec

(***************************************************************************)
(* The snapshot price of an offer is always a price its history holds, for *)
(* any number of overlapping fetches and any failure.  (That it is the     *)
(* last one does not hold: see SnapshotIsLatest.)                          *)
(***************************************************************************)
THEOREM SnapshotsAreBacked == Spec => []SnapshotFromHistory
<1>1. HistoryOK => SnapshotFromHistory
  BY DEF HistoryOK
<1> QED
  BY <1>1, HistoryInduction, PTL

(***************************************************************************)
(* A delisted offer is not trusted.  CommitDelisted runs after the lock    *)
(* was released, so the lock alone does not say that no fetch can put the  *)
(* availability back.  What does: a fetch that found the listing gone held *)
(* the lock when it did, so no other one was past its own fetch then, and  *)
(* none gets there afterwards, for the source no longer has the listing.   *)
(***************************************************************************)
FoundGone(w) ==
  \/ pc[w] \in {"reread", "delist"}
  \/ pc[w] = "release" /\ fetch[w].outcome = "gone"

\* What the lock does for many workers, being the only one does as well.
OneWorker == \A v, w \in Worker : v = w

GoneOK == \A w \in Worker : FoundGone(w) => ~listed[fetch[w].offer]

DelistedOK ==
  \A o \in present : row[o].delisted => ~row[o].available /\ ~listed[o]

CommitOK ==
  \A w \in Worker : pc[w] = "commit" =>
    /\ \A v \in Worker : FoundGone(v) => fetch[v].offer # fetch[w].offer
    /\ fetch[w].offer \in present => ~row[fetch[w].offer].delisted

\* The row as it was reread still stands for the row as it is.
RereadOK ==
  \A w \in Worker : pc[w] = "delist" /\ tracked =>
    /\ fetch[w].offer \in present
    /\ ~fetch[w].loaded.available => ~row[fetch[w].offer].available

TrustOK ==
  /\ tracked \/ present = {}
  /\ GoneOK /\ DelistedOK /\ CommitOK /\ RereadOK

\* No worker finds a listing gone, is about to commit or rereads a row.
NothingFound ==
  \A w \in Worker :
    /\ FoundGone(w)' => FoundGone(w) /\ fetch'[w].offer = fetch[w].offer
    /\ pc'[w] = "commit" =>
         pc[w] = "commit" /\ fetch'[w].offer = fetch[w].offer
    /\ pc'[w] = "delist" =>
         /\ pc[w] = "delist"
         /\ fetch'[w].offer = fetch[w].offer
         /\ fetch'[w].loaded = fetch[w].loaded

\* No row is delisted or made available, no listing returns.
NothingRevived ==
  /\ UNCHANGED <<tracked, present>>
  /\ \A o \in Offer :
       /\ row'[o].delisted => row[o].delisted
       /\ row'[o].available => row[o].available
       /\ listed'[o] => listed[o]

LEMMA QuietStepKeepsTrust ==
  ASSUME TypeOK, ProcessesOK, TrustOK, NothingFound, NothingRevived
  PROVE  TrustOK'
<1>0. /\ present \in SUBSET Offer /\ UNCHANGED <<tracked, present>>
      /\ \A w \in Worker : FoundGone(w) \/ pc[w] \in {"commit", "delist"} =>
           fetch[w].offer \in Offer
  BY DEF TypeOK, ProcessesOK, LocalsOK, FoundGone, FetchControl, NothingRevived
<1>1. GoneOK'
  BY <1>0 DEF TrustOK, GoneOK, NothingFound, NothingRevived
<1>2. DelistedOK'
  BY <1>0 DEF TrustOK, DelistedOK, NothingRevived
<1>3. CommitOK'
  BY <1>0 DEF TrustOK, CommitOK, NothingFound, NothingRevived
<1>4. RereadOK'
  BY <1>0 DEF TrustOK, RereadOK, NothingFound, NothingRevived
<1> QED
  BY <1>0, <1>1, <1>2, <1>3, <1>4 DEF TrustOK

LEMMA FinishFindsNothing ==
  ASSUME ProcessesOK, NEW w \in Worker, Finish(w)
  PROVE  NothingFound
  BY DEF ProcessesOK, Finish, NothingFound, FoundGone

LEMMA LeaveFindsNothing ==
  ASSUME ProcessesOK, NEW w \in Worker, NEW from, NEW outcome \in Outcome,
         Leave(w, from, outcome), outcome # "gone"
  PROVE  NothingFound
<1>1. /\ fetch'[w].outcome = outcome
      /\ \A v \in Worker : v # w => fetch'[v] = fetch[v] /\ pc'[v] = pc[v]
      /\ pc'[w] = "release"
  BY DEF ProcessesOK, Leave, Goto, FetchLocals
<1> QED
  BY <1>1 DEF NothingFound, FoundGone

LEMMA MoveFindsNothing ==
  ASSUME ProcessesOK, NEW w \in Worker, NEW to,
         pc' = [pc EXCEPT ![w] = to], UNCHANGED fetch,
         to \notin {"commit", "release", "reread", "delist"}
  PROVE  NothingFound
  BY DEF ProcessesOK, NothingFound, FoundGone

LEMMA UntouchedRows ==
  ASSUME UNCHANGED <<tracked, present, row, listed>>
  PROVE  NothingRevived
  BY DEF NothingRevived

LEMMA FlushKeepsTrust ==
  ASSUME TypeOK, ProcessesOK, TrustOK, NEW w \in Worker, FlushOffers(w)
  PROVE  TrustOK'
<1> DEFINE accepted == tracked /\ refresh[w].insert \cap present = {}
<1>1. CASE ~accepted
  BY <1>1, FinishFindsNothing, UntouchedRows, QuietStepKeepsTrust
  DEF FlushOffers
<1>2. CASE accepted
  <2>1. /\ present' = present \cup refresh[w].insert
        /\ UNCHANGED <<tracked, listed, fetch>>
        /\ pc' = [pc EXCEPT ![w] = "fanout"]
        /\ refresh[w].insert \in SUBSET Offer /\ present \in SUBSET Offer
    BY <1>2 DEF FlushOffers, ProcessesOK, RefreshLocals, TypeOK
  <2>2. \A o \in Offer :
          /\ o \in refresh[w].insert => ~row'[o].delisted
          /\ o \notin refresh[w].insert =>
               /\ row'[o].delisted => row[o].delisted
               /\ row'[o].available = row[o].available
    BY <1>2 DEF FlushOffers, NewRow, Revive, TypeOK, Row
  <2>3. NothingFound
    BY <2>1, MoveFindsNothing
  <2>4. \A v \in Worker : FoundGone(v) \/ pc[v] \in {"commit", "delist"} =>
          fetch[v].offer \in Offer
    BY DEF ProcessesOK, LocalsOK, FoundGone, FetchControl
  <2>5. GoneOK'
    BY <2>1, <2>3 DEF TrustOK, GoneOK, NothingFound
  <2>6. DelistedOK'
    BY <2>1, <2>2 DEF TrustOK, DelistedOK
  <2>7. CommitOK'
    BY <2>1, <2>2, <2>3, <2>4 DEF TrustOK, CommitOK, NothingFound
  <2>8. RereadOK'
    <3>1. ASSUME NEW v \in Worker, pc'[v] = "delist", tracked'
          PROVE  /\ fetch'[v].offer \in present'
                 /\ ~fetch'[v].loaded.available =>
                      ~row'[fetch'[v].offer].available
      <4>1. /\ pc[v] = "delist" /\ UNCHANGED fetch
            /\ fetch[v].offer \in present
            /\ ~fetch[v].loaded.available => ~row[fetch[v].offer].available
        BY <2>1, <2>3, <3>1 DEF TrustOK, RereadOK, NothingFound
      <4>2. fetch[v].offer \in Offer /\ fetch[v].offer \notin refresh[w].insert
        BY <1>2, <2>1, <4>1
      <4> QED
        BY <2>1, <2>2, <4>1, <4>2
    <3> QED
      BY <3>1 DEF RereadOK
  <2> QED
    BY <1>2, <2>1, <2>5, <2>6, <2>7, <2>8 DEF TrustOK
<1> QED
  BY <1>1, <1>2

\* The lock and the listing together keep a fetch that found a price from
\* one that found none.
LEMMA FetchKeepsTrust ==
  ASSUME TypeOK, ProcessesOK, LockOK \/ OneWorker, TrustOK, NEW w \in Worker,
         \/ \E observed \in Observation : FetchPrice(w, observed)
         \/ FetchRaises(w, "gone")
  PROVE  TrustOK'
<1> USE DEF database
<1>0. /\ fetch \in [Worker -> FetchLocals] /\ pc \in [Worker -> Control]
      /\ pc[w] = "fetch" /\ fetch[w].offer \in Offer
      /\ UNCHANGED <<listed, database>>
  <2>1. pc[w] = "fetch" /\ UNCHANGED <<listed, database>>
    BY DEF FetchPrice, FetchRaises, Leave, Goto
  <2> QED
    BY <2>1 DEF ProcessesOK, LocalsOK, FetchControl
<1>1. /\ \A v \in Worker : fetch'[v].offer = fetch[v].offer
      /\ \A v \in Worker : fetch'[v].loaded = fetch[v].loaded
      /\ \A v \in Worker : v # w => pc'[v] = pc[v] /\ fetch'[v] = fetch[v]
      /\ pc'[w] \in {"commit", "release"}
  <2>1. \/ \E x : fetch' = [fetch EXCEPT ![w].observed = x]
        \/ fetch' = [fetch EXCEPT ![w].outcome = "gone"]
    BY DEF FetchPrice, FetchRaises, Leave
  <2>2. \E to \in {"commit", "release"} : pc' = [pc EXCEPT ![w] = to]
    BY DEF FetchPrice, FetchRaises, Leave, Goto
  <2> DEFINE Kept ==
               /\ fetch'[w].offer = fetch[w].offer
               /\ fetch'[w].loaded = fetch[w].loaded
               /\ \A v \in Worker : v # w => fetch'[v] = fetch[v]
  <2>3. Kept
    <3>1. ASSUME NEW x, fetch' = [fetch EXCEPT ![w].observed = x] PROVE Kept
      BY <1>0, <3>1 DEF FetchLocals
    <3>2. CASE fetch' = [fetch EXCEPT ![w].outcome = "gone"]
      BY <1>0, <3>2 DEF FetchLocals
    <3> QED
      BY <2>1, <3>1, <3>2
  <2>4. /\ pc'[w] \in {"commit", "release"}
        /\ \A v \in Worker : v # w => pc'[v] = pc[v]
    BY <1>0, <2>2
  <2> QED
    BY <2>3, <2>4
<1>2. \A v \in Worker : v # w => FoundGone(v)' = FoundGone(v)
  BY <1>1 DEF FoundGone
<1>3. RereadOK'
  BY <1>0, <1>1 DEF TrustOK, RereadOK
<1>4. DelistedOK'
  BY <1>0 DEF TrustOK, DelistedOK
<1>5. ASSUME NEW observed \in Observation, FetchPrice(w, observed)
      PROVE  TrustOK'
  <2>1. pc'[w] = "commit" /\ listed[fetch[w].offer]
    BY <1>0, <1>5 DEF FetchPrice, Goto
  <2>2. \A v \in Worker : FoundGone(v)' => v # w /\ FoundGone(v)
    BY <1>2, <2>1 DEF FoundGone
  <2>3. GoneOK'
    BY <1>0, <1>1, <2>2 DEF TrustOK, GoneOK
  <2>4. CommitOK'
    BY <1>0, <1>1, <2>1, <2>2 DEF TrustOK, GoneOK, DelistedOK, CommitOK
  <2> QED
    BY <1>0, <1>3, <1>4, <2>3, <2>4 DEF TrustOK
<1>6. CASE FetchRaises(w, "gone")
  <2>1. pc'[w] = "release" /\ ~listed[fetch[w].offer]
    BY <1>0, <1>6 DEF FetchRaises, Leave, Goto
  <2>2. \A v \in Worker : pc[v] = "commit" => fetch[v].offer # fetch[w].offer
    BY <1>0 DEF LockOK, InLock, OneWorker
  <2>3. GoneOK'
    BY <1>0, <1>1, <1>2, <2>1 DEF TrustOK, GoneOK
  <2>4. CommitOK'
    BY <1>0, <1>1, <1>2, <2>1, <2>2 DEF TrustOK, CommitOK
  <2> QED
    BY <1>0, <1>3, <1>4, <2>3, <2>4 DEF TrustOK
<1> QED
  BY <1>5, <1>6

LEMMA CommitKeepsTrust ==
  ASSUME TypeOK, ProcessesOK, TrustOK, NEW w \in Worker, CommitPrice(w)
  PROVE  TrustOK'
<1> DEFINE o == fetch[w].offer
<1>0. NothingFound
  BY LeaveFindsNothing DEF CommitPrice, Outcome
<1>1. CASE o \notin present
  BY <1>0, <1>1, UntouchedRows, QuietStepKeepsTrust DEF CommitPrice
<1>2. CASE o \in present
  <2>1. /\ o \in Offer /\ ~row[o].delisted /\ pc[w] = "commit"
        /\ present \in SUBSET Offer /\ row \in [Offer -> Row]
        /\ fetch[w] \in FetchLocals
        /\ UNCHANGED <<tracked, present, listed>>
    BY <1>2 DEF CommitPrice, TrustOK, CommitOK, TypeOK, ProcessesOK
  <2>2. /\ row'[o].delisted = row[o].delisted
        /\ \A x \in Offer : x # o => row'[x] = row[x]
    <3>1. PICK written : /\ row' = [row EXCEPT ![o] = written]
                         /\ written.delisted = row[o].delisted
      <4> DEFINE written ==
                   RecordPrice(row[o], fetch[w].loaded, fetch[w].observed)
      <4>1. row' = [row EXCEPT ![o] = written]
        BY <1>2 DEF CommitPrice
      <4>2. written.delisted = row[o].delisted
        BY <2>1 DEF RecordPrice, Row
      <4> QED
        BY <4>1, <4>2
    <3> QED
      BY <2>1, <3>1
  <2>3. \A v \in Worker : FoundGone(v) \/ pc[v] \in {"commit", "delist"} =>
          fetch[v].offer \in Offer
    BY DEF ProcessesOK, LocalsOK, FoundGone, FetchControl
  <2>4. GoneOK'
    BY <1>0, <2>1 DEF TrustOK, GoneOK, NothingFound
  <2>5. DelistedOK'
    BY <2>1, <2>2 DEF TrustOK, DelistedOK
  <2>6. CommitOK'
    BY <1>0, <2>1, <2>2, <2>3 DEF TrustOK, CommitOK, NothingFound
  <2>7. \A v \in Worker : pc[v] = "delist" => fetch[v].offer # o
    BY <2>1 DEF TrustOK, CommitOK, FoundGone
  <2>8. RereadOK'
    BY <1>0, <2>1, <2>2, <2>3, <2>7 DEF TrustOK, RereadOK, NothingFound
  <2> QED
    BY <2>1, <2>4, <2>5, <2>6, <2>8 DEF TrustOK
<1> QED
  BY <1>1, <1>2

LEMMA DelistKeepsTrust ==
  ASSUME TypeOK, ProcessesOK, TrustOK, NEW w \in Worker, CommitDelisted(w)
  PROVE  TrustOK'
<1> DEFINE o == fetch[w].offer
<1>0. NothingFound
  BY FinishFindsNothing, MoveFindsNothing DEF CommitDelisted
<1>1. /\ o \in Offer /\ ~listed[o] /\ pc[w] = "delist"
      /\ present \in SUBSET Offer /\ row \in [Offer -> Row]
      /\ fetch[w].loaded \in Row
      /\ UNCHANGED <<tracked, present, listed>>
  BY DEF CommitDelisted, TrustOK, GoneOK, FoundGone, TypeOK, ProcessesOK,
         LocalsOK, FetchControl, FetchLocals
<1>2. /\ \A x \in Offer : x # o => row'[x] = row[x]
      /\ row'[o].available => row[o].available
      /\ o \in present => ~row'[o].available
  <2>1. CASE UNCHANGED row /\ o \notin present
    BY <2>1
  <2>2. CASE row' = [row EXCEPT ![o] =
                       MarkOfferDelisted(row[o], fetch[w].loaded)]
    <3>1. row'[o].available = IF ~fetch[w].loaded.available
                              THEN row[o].available ELSE FALSE
      BY <1>1, <2>2 DEF MarkOfferDelisted, Flushed, Row
    <3>2. o \in present /\ ~fetch[w].loaded.available => ~row[o].available
      BY <1>1 DEF TrustOK, RereadOK
    <3> QED
      BY <1>1, <2>2, <3>1, <3>2
  <2> QED
    BY <2>1, <2>2 DEF CommitDelisted
<1>3. \A v \in Worker : FoundGone(v) \/ pc[v] \in {"commit", "delist"} =>
        fetch[v].offer \in Offer
  BY DEF ProcessesOK, LocalsOK, FoundGone, FetchControl
<1>4. \A v \in Worker : pc[v] = "commit" => fetch[v].offer # o
  BY <1>1 DEF TrustOK, CommitOK, FoundGone
<1>5. GoneOK'
  BY <1>0, <1>1 DEF TrustOK, GoneOK, NothingFound
<1>6. DelistedOK'
  BY <1>1, <1>2 DEF TrustOK, DelistedOK
<1>7. CommitOK'
  BY <1>0, <1>1, <1>2, <1>3, <1>4 DEF TrustOK, CommitOK, NothingFound
<1>8. RereadOK'
  BY <1>0, <1>1, <1>2, <1>3 DEF TrustOK, RereadOK, NothingFound
<1> QED
  BY <1>1, <1>5, <1>6, <1>7, <1>8 DEF TrustOK

LEMMA RereadKeepsTrust ==
  ASSUME TypeOK, ProcessesOK, TrustOK, NEW w \in Worker, RereadOffer(w)
  PROVE  TrustOK'
<1> DEFINE o == fetch[w].offer
<1>0. /\ fetch \in [Worker -> FetchLocals] /\ pc \in [Worker -> Control]
      /\ pc[w] = "reread" /\ UNCHANGED <<listed, database>>
  BY DEF ProcessesOK, RereadOffer
<1>1. CASE o \notin present
  BY <1>0, <1>1, MoveFindsNothing, UntouchedRows, QuietStepKeepsTrust
  DEF RereadOffer, database
<1>2. CASE o \in present
  <2>1. /\ pc' = [pc EXCEPT ![w] = "delist"]
        /\ fetch' = [fetch EXCEPT ![w].loaded = row[o]]
    BY <1>2 DEF RereadOffer
  <2>2. /\ \A v \in Worker : fetch'[v].offer = fetch[v].offer
        /\ \A v \in Worker : v # w => pc'[v] = pc[v] /\ fetch'[v] = fetch[v]
        /\ pc'[w] = "delist" /\ fetch'[w].loaded = row[o]
    BY <1>0, <2>1 DEF FetchLocals
  <2>3. \A v \in Worker : FoundGone(v)' => FoundGone(v)
    BY <1>0, <2>2 DEF FoundGone
  <2>4. GoneOK'
    BY <1>0, <2>2, <2>3 DEF TrustOK, GoneOK
  <2>5. DelistedOK'
    BY <1>0 DEF TrustOK, DelistedOK, database
  <2>6. CommitOK'
    BY <1>0, <2>2, <2>3 DEF TrustOK, CommitOK, database
  <2>7. RereadOK'
    BY <1>0, <1>2, <2>2 DEF TrustOK, RereadOK, database
  <2> QED
    BY <1>0, <2>4, <2>5, <2>6, <2>7 DEF TrustOK, database
<1> QED
  BY <1>1, <1>2

LEMMA FetchStepKeepsTrust ==
  ASSUME TypeOK, ProcessesOK, LockOK \/ OneWorker, TrustOK, NEW w \in Worker,
         FetchStep(w)
  PROVE  TrustOK'
<1> USE DEF database, Outcome
<1>0. fetch \in [Worker -> FetchLocals] /\ pc \in [Worker -> Control]
  BY DEF ProcessesOK
<1>1. CASE LoadOffer(w)
  <2>1. NothingFound
    BY <1>0, <1>1, FinishFindsNothing DEF LoadOffer, NothingFound, FoundGone
  <2> QED
    BY <1>1, <2>1, UntouchedRows, QuietStepKeepsTrust DEF LoadOffer
<1>2. CASE AcquireLock(w)
  <2>1. NothingFound
    BY <1>2, FinishFindsNothing, MoveFindsNothing DEF AcquireLock
  <2> QED
    BY <1>2, <2>1, UntouchedRows, QuietStepKeepsTrust DEF AcquireLock
<1>3. CASE RateAllowed(w)
  <2>1. NothingFound
    BY <1>0, <1>3 DEF RateAllowed, Goto, NothingFound, FoundGone
  <2> QED
    BY <1>3, <2>1, UntouchedRows, QuietStepKeepsTrust DEF RateAllowed
<1>4. CASE RateDenied(w)
  BY <1>4, LeaveFindsNothing, UntouchedRows, QuietStepKeepsTrust
  DEF RateDenied
<1>5. ASSUME NEW observed \in Observation, FetchPrice(w, observed)
      PROVE  TrustOK'
  BY <1>5, FetchKeepsTrust
<1>6. ASSUME NEW outcome \in Outcome, FetchRaises(w, outcome)
      PROVE  TrustOK'
  <2>1. CASE outcome = "gone"
    BY <1>6, <2>1, FetchKeepsTrust
  <2>2. CASE outcome # "gone"
    BY <1>6, <2>2, LeaveFindsNothing, UntouchedRows, QuietStepKeepsTrust
    DEF FetchRaises
  <2> QED
    BY <2>1, <2>2
<1>7. CASE CommitPrice(w)
  BY <1>7, CommitKeepsTrust
<1>8. CASE ReleaseLock(w)
  <2>1. CASE Finish(w)
    BY <1>8, <2>1, FinishFindsNothing, UntouchedRows, QuietStepKeepsTrust
    DEF ReleaseLock
  <2>2. CASE fetch[w].outcome # "stop" /\ UNCHANGED fetch
    <3>1. NothingFound
      BY <1>0, <1>8, <2>2 DEF ReleaseLock, NothingFound, FoundGone, Finish
    <3> QED
      BY <1>8, <3>1, UntouchedRows, QuietStepKeepsTrust DEF ReleaseLock
  <2> QED
    BY <1>8, <2>1, <2>2 DEF ReleaseLock
<1>9. CASE InvalidateCache(w)
  BY <1>9, MoveFindsNothing, UntouchedRows, QuietStepKeepsTrust
  DEF InvalidateCache, Goto
<1>10. CASE AnnounceDrop(w)
  BY <1>10, FinishFindsNothing, UntouchedRows, QuietStepKeepsTrust
  DEF AnnounceDrop
<1>11. CASE RereadOffer(w)
  BY <1>11, RereadKeepsTrust
<1>12. CASE CommitDelisted(w)
  BY <1>12, DelistKeepsTrust
<1>13. CASE ForgetDeal(w)
  BY <1>13, FinishFindsNothing, UntouchedRows, QuietStepKeepsTrust
  DEF ForgetDeal
<1>14. CASE RetryOrGiveUp(w)
  <2>1. NothingFound
    BY <1>14, FinishFindsNothing, MoveFindsNothing DEF RetryOrGiveUp
  <2> QED
    BY <1>14, <2>1, UntouchedRows, QuietStepKeepsTrust DEF RetryOrGiveUp
<1>15. CASE DeadLetter(w)
  <2>1. NothingFound
    BY <1>15, FinishFindsNothing, MoveFindsNothing DEF DeadLetter
  <2>2. NothingRevived
    <3>1. CASE UNCHANGED row
      BY <1>15, <3>1, UntouchedRows DEF DeadLetter
    <3>2. CASE row' = [row EXCEPT ![fetch[w].offer] =
                         MarkOfferUnavailable(row[fetch[w].offer],
                                              fetch[w].loaded)]
      <4>1. /\ fetch[w].offer \in Offer /\ row \in [Offer -> Row]
            /\ fetch[w].loaded \in Row
            /\ \A r, s \in Row :
                 /\ MarkOfferUnavailable(r, s).delisted = r.delisted
                 /\ MarkOfferUnavailable(r, s).available => r.available
        BY <1>0, <1>15
        DEF DeadLetter, ProcessesOK, LocalsOK, FetchControl, TypeOK, Row,
            FetchLocals, MarkOfferUnavailable, Flushed
      <4>2. \A o \in Offer : /\ row'[o].delisted => row[o].delisted
                             /\ row'[o].available => row[o].available
        BY <3>2, <4>1
      <4>3. UNCHANGED <<tracked, present, listed>>
        BY <1>15 DEF DeadLetter
      <4> QED
        BY <4>2, <4>3 DEF NothingRevived
    <3> QED
      BY <1>15, <3>1, <3>2 DEF DeadLetter
  <2> QED
    BY <2>1, <2>2, QuietStepKeepsTrust
<1>16. CASE LoadStale(w)
  <2>1. NothingFound
    BY <1>0, <1>16, FinishFindsNothing DEF LoadStale, NothingFound, FoundGone
  <2> QED
    BY <1>16, <2>1, UntouchedRows, QuietStepKeepsTrust DEF LoadStale
<1> QED
  BY <1>1, <1>2, <1>3, <1>4, <1>5, <1>6, <1>7, <1>8, <1>9, <1>10, <1>11,
     <1>12, <1>13, <1>14, <1>15, <1>16
  DEF FetchStep

LEMMA OtherStepKeepsTrust ==
  ASSUME TypeOK, ProcessesOK, TrustOK, "relist" \notin Faults,
         \/ Request \/ Environment \/ UNCHANGED vars
         \/ \E w \in Worker : TakeMessage(w) \/ RefreshStep(w) \/ Fault(w)
  PROVE  TrustOK'
<1> USE DEF database, processes
<1>0. fetch \in [Worker -> FetchLocals] /\ pc \in [Worker -> Control]
  BY DEF ProcessesOK
<1>1. CASE DeleteItem
  <2>1. /\ present' = {} /\ ~tracked' /\ UNCHANGED <<listed, pc, fetch>>
        /\ \A o \in Offer : ~row'[o].delisted
    BY <1>1 DEF DeleteItem, NewRow
  <2>2. \A w \in Worker : FoundGone(w)' = FoundGone(w)
    BY <2>1 DEF FoundGone
  <2>3. GoneOK' /\ DelistedOK' /\ CommitOK' /\ RereadOK'
    BY <2>1, <2>2 DEF TrustOK, GoneOK, DelistedOK, CommitOK, RereadOK
  <2> QED
    BY <2>1, <2>3 DEF TrustOK
<1>2. CASE UNCHANGED <<listed, database, pc, fetch>>
  BY <1>2, UntouchedRows, QuietStepKeepsTrust DEF NothingFound, FoundGone
<1>3. ASSUME NEW o \in Offer, ListingEnds(o) PROVE TrustOK'
  <2>1. NothingFound
    BY <1>3 DEF ListingEnds, NothingFound, FoundGone
  <2>2. NothingRevived
    BY <1>3 DEF ListingEnds, NothingRevived, TypeOK
  <2> QED
    BY <2>1, <2>2, QuietStepKeepsTrust
<1>4. ASSUME NEW w \in Worker, TakeMessage(w) PROVE TrustOK'
  <2>1. NothingFound
    BY ZenonT(30), <1>0, <1>4
    DEF TakeMessage, StartRefresh, StartFetch, Goto, NothingFound, FoundGone
  <2> QED
    BY <1>4, <2>1, UntouchedRows, QuietStepKeepsTrust
    DEF TakeMessage, StartRefresh, StartFetch
<1>5. ASSUME NEW w \in Worker, RefreshStep(w), ~FlushOffers(w)
      PROVE  TrustOK'
  <2>1. NothingFound
    BY <1>0, <1>5, FinishFindsNothing
    DEF RefreshStep, SearchSource, SearchDone, FanOut, FanOutDone, Goto,
        NothingFound, FoundGone
  <2> QED
    BY <1>5, <2>1, UntouchedRows, QuietStepKeepsTrust
    DEF RefreshStep, SearchSource, SearchDone, FanOut, FanOutDone
<1>6. ASSUME NEW w \in Worker, FlushOffers(w) PROVE TrustOK'
  BY <1>6, FlushKeepsTrust
<1>7. ASSUME NEW w \in Worker, Fault(w) PROVE TrustOK'
  <2>1. NothingFound
    <3>1. CASE Finish(w)
      BY <3>1, FinishFindsNothing
    <3>2. CASE \E from \in Control : Leave(w, from, "error")
      BY <3>2, LeaveFindsNothing DEF Outcome
    <3>3. CASE pc' = [pc EXCEPT ![w] = "retry"] /\ UNCHANGED fetch
      BY <3>3, MoveFindsNothing
    <3> QED
      BY <1>7, <3>1, <3>2, <3>3
      DEF Fault, RedisFault, DatabaseFault, Crash, Goto, Control, FetchControl
  <2> QED
    BY <1>7, <2>1, UntouchedRows, QuietStepKeepsTrust
    DEF Fault, RedisFault, DatabaseFault, Crash
<1> QED
  BY <1>1, <1>2, <1>3, <1>4, <1>5, <1>6, <1>7
  DEF Request, Environment, RequestRefresh, ReadItem, LookupDeal, ComputeDeal,
      StoreDeal, CacheExpires, LockExpires, ListingReturns, vars

LEMMA InitTrusted == Init => TrustOK
<1>1. ASSUME Init PROVE \A o \in present : ~row[o].delisted
  <2>1. CASE TrackedByName
    BY <2>1 DEF TrackedByName
  <2>2. ASSUME NEW o \in Offer, NEW observed \in Observation,
               TrackedByUrl(o, observed)
        PROVE  \A x \in present : ~row[x].delisted
    <3>1. present = {o} /\ row[o] = RecordPrice(NewRow, NewRow, observed)
      BY <2>2 DEF TrackedByUrl
    <3> QED
      BY <3>1 DEF RecordPrice, NewRow
  <2> QED
    BY <1>1, <2>1, <2>2 DEF Init
<1> QED
  BY <1>1 DEF Init, TrustOK, GoneOK, DelistedOK, CommitOK, RereadOK, FoundGone

(***************************************************************************)
(* mark_offer_delisted's "best-deal must not trust a dead listing's price":*)
(* for any number of workers and any failure, as long as no fetch outlives *)
(* its lock and no listing that ended comes back.                          *)
(***************************************************************************)
THEOREM DelistedStaysUntrusted ==
  ASSUME "slow" \notin Faults, "relist" \notin Faults
  PROVE  Spec => []DelistedNotTrusted
<1>1. Init => TypeOK /\ ProcessesOK /\ LockOK /\ TrustOK
  BY InitTyped, InitTrusted DEF Init, LockOK, InLock
<1>2. TypeOK /\ ProcessesOK /\ LockOK /\ TrustOK /\ [Next]_vars
        => (TypeOK /\ ProcessesOK /\ LockOK /\ TrustOK)'
  BY StepKeepsType, FetchStepKeepsLock, OtherStepKeepsLock,
     FetchStepKeepsTrust, OtherStepKeepsTrust
  DEF Next
<1>3. TrustOK => DelistedNotTrusted
  BY DEF TrustOK, DelistedOK, DelistedNotTrusted
<1> QED
  BY <1>1, <1>2, <1>3, PTL DEF Spec

-----------------------------------------------------------------------------
(***************************************************************************)
(* One worker: a session's copy of the row is the row, which is what makes *)
(* a flush of the differing attributes a write of the observed ones; and a *)
(* row that is not there has left no trace.                                *)
(***************************************************************************)
LoadedAt == {"lock", "rate", "fetch", "commit", "delist"}

CurrentOK ==
  \A w \in Worker : pc[w] \in LoadedAt /\ tracked =>
    /\ fetch[w].offer \in present
    /\ fetch[w].loaded = row[fetch[w].offer]

BlankOK ==
  \A o \in Offer \ present : row[o].price = None /\ history[o] = <<>>

LatestOK == CurrentOK /\ BlankOK /\ SnapshotIsLatest

LEMMA InitLatest == Init => LatestOK
<1> SUFFICES ASSUME Init PROVE LatestOK
  OBVIOUS
<1>1. CurrentOK
  BY DEF Init, CurrentOK, LoadedAt
<1>2. CASE TrackedByName
  BY <1>1, <1>2
  DEF TrackedByName, LatestOK, BlankOK, SnapshotIsLatest, NewRow
<1>3. ASSUME NEW o \in Offer, NEW observed \in Observation,
             TrackedByUrl(o, observed)
      PROVE  LatestOK
  <2>1. /\ present = {o}
        /\ row[o].price = observed.price
        /\ history[o] = <<observed.price>>
        /\ \A x \in Offer : x # o => row[x].price = None /\ history[x] = <<>>
    BY <1>3, NoneAssumption
    DEF TrackedByUrl, RecordPrice, Flushed, NewRow, Observation
  <2>2. BlankOK
    BY <2>1 DEF BlankOK
  <2>3. SnapshotIsLatest
    BY <2>1 DEF SnapshotIsLatest
  <2> QED
    BY <1>1, <2>2, <2>3 DEF LatestOK
<1> QED
  BY <1>1, <1>2, <1>3 DEF Init

\* A step that writes no price.
LEMMA SamePricesStayLatest ==
  ASSUME UNCHANGED <<present, history>>, BlankOK, SnapshotIsLatest,
         present \subseteq Offer,
         \A o \in Offer : row'[o].price = row[o].price
  PROVE  BlankOK' /\ SnapshotIsLatest'
  BY DEF BlankOK, SnapshotIsLatest

\* The price that is appended is the price that is written, for the copy that
\* the flush compares it with is current.
LEMMA CommitKeepsLatest ==
  ASSUME TypeOK, ProcessesOK, HistoryOK, LatestOK, NEW w \in Worker,
         CommitPrice(w)
  PROVE  BlankOK' /\ SnapshotIsLatest'
<1> PICK o, p : o = fetch[w].offer /\ p = fetch[w].observed.price
  OBVIOUS
<1>1. CASE o \notin present
  BY <1>1 DEF CommitPrice, LatestOK, BlankOK, SnapshotIsLatest
<1>2. CASE o \in present
  <2>1. /\ o \in Offer /\ row[o] \in Row /\ history[o] \in Seq(Price)
        /\ p \in Price /\ tracked /\ pc[w] = "commit"
    BY <1>2
    DEF CommitPrice, ProcessesOK, LocalsOK, HasPrice, TypeOK, HistoryOK,
        FetchControl
  <2>2. fetch[w].loaded = row[o]
    BY <2>1 DEF LatestOK, CurrentOK, LoadedAt
  <2>3. RecordPrice(row[o], row[o], fetch[w].observed).price = p
    BY <2>1 DEF RecordPrice, Flushed, Row
  <2>4. /\ row'[o].price = p
        /\ history'[o] = Append(history[o], p)
        /\ \A x \in Offer : x # o => row'[x] = row[x] /\ history'[x] = history[x]
        /\ UNCHANGED present
    BY <1>2, <2>1, <2>2, <2>3 DEF CommitPrice, TypeOK
  <2>5. history'[o][Len(history'[o])] = p
    BY <2>1, <2>4
  <2> QED
    BY <1>2, <2>1, <2>4, <2>5 DEF TypeOK, LatestOK, BlankOK, SnapshotIsLatest
<1> QED
  BY <1>1, <1>2

LEMMA RowWritersKeepPrices ==
  ASSUME TypeOK, ProcessesOK, NEW w \in Worker,
         CommitDelisted(w) \/ DeadLetter(w)
  PROVE  \A o \in Offer : row'[o].price = row[o].price
<1>1. /\ row \in [Offer -> Row] /\ fetch[w].offer \in Offer
      /\ fetch[w].loaded \in Row
  BY DEF CommitDelisted, DeadLetter, TypeOK, ProcessesOK, LocalsOK,
         FetchControl, FetchLocals
<1>2. \A r, s \in Row : /\ MarkOfferDelisted(r, s).price = r.price
                        /\ MarkOfferUnavailable(r, s).price = r.price
  BY DEF MarkOfferDelisted, MarkOfferUnavailable, Row
<1> QED
  BY <1>1, <1>2 DEF CommitDelisted, DeadLetter

LEMMA FlushKeepsLatest ==
  ASSUME TypeOK, ProcessesOK, LatestOK, NEW w \in Worker, FlushOffers(w)
  PROVE  BlankOK' /\ SnapshotIsLatest'
<1> PICK found : found = refresh[w].insert
  OBVIOUS
<1>1. CASE ~(tracked /\ found \cap present = {})
  BY <1>1 DEF FlushOffers, LatestOK, BlankOK, SnapshotIsLatest
<1>2. CASE tracked /\ found \cap present = {}
  <2>1. /\ found \in SUBSET Offer /\ present \in SUBSET Offer
        /\ present' = present \cup found /\ UNCHANGED history
    BY <1>2 DEF FlushOffers, TypeOK, ProcessesOK, RefreshLocals
  <2>2. \A o \in found : history[o] = <<>>
    BY <1>2, <2>1 DEF LatestOK, BlankOK
  <2>3. \A r \in Row : Revive(r).price = r.price
    BY DEF Revive, Row
  <2>4. ASSUME NEW o \in Offer \ found
        PROVE  row'[o].price = row[o].price
    <3>1. row'[o] = row[o] \/ row'[o] = Revive(row[o])
      BY <1>2 DEF FlushOffers
    <3>2. row[o] \in Row
      BY DEF TypeOK
    <3> QED
      BY <2>3, <3>1, <3>2
  <2>5. BlankOK'
    BY <2>1, <2>4 DEF LatestOK, BlankOK
  <2>6. SnapshotIsLatest'
    BY <2>1, <2>2, <2>4 DEF LatestOK, SnapshotIsLatest
  <2> QED
    BY <2>5, <2>6
<1> QED
  BY <1>1, <1>2

\* The only worker has the row it loaded: nobody else writes it, and its own
\* writes are the last it does with the copy.
LEMMA WorkerStepKeepsCurrent ==
  ASSUME TypeOK, ProcessesOK, CurrentOK, OneWorker, NEW w \in Worker,
         TakeMessage(w) \/ RefreshStep(w) \/ FetchStep(w) \/ Fault(w)
  PROVE  CurrentOK'
<1> USE DEF database
<1>0. /\ fetch \in [Worker -> FetchLocals] /\ pc \in [Worker -> Control]
      /\ \A v \in Worker : v = w
  BY DEF ProcessesOK, OneWorker
<1>1. CASE pc'[w] \notin LoadedAt
  BY <1>0, <1>1 DEF CurrentOK
<1>2. ASSUME fetch[w].offer \in present, fetch'[w].loaded = row[fetch[w].offer],
             fetch'[w].offer = fetch[w].offer, UNCHANGED <<present, row>>
      PROVE  CurrentOK'
  BY <1>0, <1>2 DEF CurrentOK
<1>3. ASSUME pc[w] \in LoadedAt, fetch'[w].offer = fetch[w].offer,
             fetch'[w].loaded = fetch[w].loaded,
             UNCHANGED <<tracked, present, row>>
      PROVE  CurrentOK'
  BY <1>0, <1>3 DEF CurrentOK
<1>4. CASE LoadOffer(w) \/ RereadOffer(w)
  <2>1. CASE fetch[w].offer \in present
    <3>1. /\ fetch' = [fetch EXCEPT ![w].loaded = row[fetch[w].offer]]
          /\ UNCHANGED <<present, row>>
      BY <1>4, <2>1 DEF LoadOffer, RereadOffer
    <3> QED
      BY <1>0, <1>2, <2>1, <3>1 DEF FetchLocals
  <2>2. CASE fetch[w].offer \notin present
    BY <1>0, <1>1, <1>4, <2>2
    DEF LoadOffer, RereadOffer, Finish, LoadedAt
  <2> QED
    BY <2>1, <2>2
<1>5. CASE AcquireLock(w)
  <2>1. CASE Finish(w)
    BY <1>0, <1>1, <2>1 DEF Finish, LoadedAt
  <2>2. CASE UNCHANGED fetch
    BY <1>3, <1>5, <2>2 DEF AcquireLock, LoadedAt
  <2> QED
    BY <1>5, <2>1, <2>2 DEF AcquireLock
<1>6. CASE RateAllowed(w)
  BY <1>0, <1>3, <1>6 DEF RateAllowed, Goto, LoadedAt, FetchLocals
<1>7. ASSUME NEW observed \in Observation, FetchPrice(w, observed)
      PROVE  CurrentOK'
  BY <1>0, <1>3, <1>7 DEF FetchPrice, Goto, LoadedAt, FetchLocals
<1>8. CASE TakeMessage(w)
  <2>1. CASE UNCHANGED pc
    BY <1>0, <1>1, <1>8, <2>1
    DEF TakeMessage, StartRefresh, StartFetch, Goto, LoadedAt
  <2>2. CASE ~UNCHANGED pc
    BY <1>0, <1>1, <1>8, <2>2
    DEF TakeMessage, StartRefresh, StartFetch, Goto, LoadedAt
  <2> QED
    BY <2>1, <2>2
<1>9. CASE RefreshStep(w)
  BY <1>0, <1>1, <1>9
  DEF RefreshStep, SearchSource, SearchDone, FlushOffers, FanOut, FanOutDone,
      Goto, Finish, LoadedAt
<1>10. CASE Fault(w)
  BY <1>0, <1>1, <1>10
  DEF Fault, RedisFault, DatabaseFault, Crash, Leave, Goto, Finish, LoadedAt
<1>11. ASSUME NEW outcome \in Outcome, FetchRaises(w, outcome)
       PROVE  CurrentOK'
  BY <1>0, <1>1, <1>11 DEF FetchRaises, Leave, Goto, LoadedAt
<1>12. CASE \/ RateDenied(w) \/ CommitPrice(w) \/ ReleaseLock(w)
            \/ InvalidateCache(w) \/ AnnounceDrop(w) \/ CommitDelisted(w)
            \/ ForgetDeal(w) \/ RetryOrGiveUp(w) \/ LoadStale(w)
            \/ DeadLetter(w)
  BY <1>0, <1>1, <1>12
  DEF RateDenied, CommitPrice, ReleaseLock, InvalidateCache, AnnounceDrop,
      CommitDelisted, ForgetDeal, RetryOrGiveUp, LoadStale, DeadLetter, Leave,
      Goto, Finish, LoadedAt
<1> QED
  BY <1>4, <1>5, <1>6, <1>7, <1>8, <1>9, <1>10, <1>11, <1>12 DEF FetchStep

LEMMA StepKeepsLatest ==
  ASSUME TypeOK, ProcessesOK, HistoryOK, LatestOK, OneWorker, [Next]_vars
  PROVE  LatestOK'
<1> USE DEF database
<1>1. ASSUME UNCHANGED <<present, row, history>>
      PROVE  BlankOK' /\ SnapshotIsLatest'
  BY <1>1 DEF LatestOK, BlankOK, SnapshotIsLatest
<1>2. CASE DeleteItem
  BY <1>2 DEF DeleteItem, LatestOK, CurrentOK, BlankOK, SnapshotIsLatest, NewRow
<1>3. CASE (Request /\ ~DeleteItem) \/ Environment \/ UNCHANGED vars
  <2>1. UNCHANGED <<database, pc, fetch>>
    BY <1>3
    DEF Request, Environment, RequestRefresh, ReadItem, LookupDeal,
        ComputeDeal, StoreDeal, CacheExpires, LockExpires, ListingEnds,
        ListingReturns, vars, processes
  <2>2. CurrentOK'
    BY <2>1 DEF LatestOK, CurrentOK
  <2> QED
    BY <1>1, <2>1, <2>2 DEF LatestOK
<1>4. ASSUME NEW w \in Worker,
             TakeMessage(w) \/ RefreshStep(w) \/ FetchStep(w) \/ Fault(w)
      PROVE  LatestOK'
  <2>1. CurrentOK'
    BY <1>4, WorkerStepKeepsCurrent DEF LatestOK
  <2>2. CASE FlushOffers(w)
    BY <2>1, <2>2, FlushKeepsLatest DEF LatestOK
  <2>3. CASE CommitPrice(w)
    BY <2>1, <2>3, CommitKeepsLatest DEF LatestOK
  <2>4. CASE CommitDelisted(w) \/ DeadLetter(w)
    <3>1. UNCHANGED <<present, history>> /\ present \subseteq Offer
      BY <2>4 DEF CommitDelisted, DeadLetter, TypeOK
    <3> QED
      BY <2>1, <2>4, <3>1, RowWritersKeepPrices, SamePricesStayLatest DEF LatestOK
  <2>5. CASE ~(FlushOffers(w) \/ CommitPrice(w) \/ CommitDelisted(w)
               \/ DeadLetter(w))
    <3>1. UNCHANGED <<present, row, history>>
      BY <1>4, <2>5
      DEF TakeMessage, StartRefresh, StartFetch, RefreshStep, SearchSource,
          SearchDone, FanOut, FanOutDone, FetchStep, LoadOffer, AcquireLock,
          RateAllowed, RateDenied, FetchPrice, FetchRaises, ReleaseLock,
          InvalidateCache, AnnounceDrop, RereadOffer, ForgetDeal,
          RetryOrGiveUp, LoadStale, Fault, RedisFault, DatabaseFault, Crash
    <3> QED
      BY <1>1, <2>1, <3>1 DEF LatestOK
  <2> QED
    BY <2>2, <2>3, <2>4, <2>5
<1> QED
  BY <1>2, <1>3, <1>4 DEF Next

LEMMA LatestInduction ==
  ASSUME OneWorker
  PROVE  Spec => [](TypeOK /\ ProcessesOK /\ HistoryOK /\ LatestOK)
<1>1. TypeOK /\ ProcessesOK /\ HistoryOK /\ LatestOK /\ [Next]_vars => LatestOK'
  BY StepKeepsLatest
<1> QED
  BY <1>1, InitLatest, HistoryInduction, PTL DEF Spec

(***************************************************************************)
(* record_price's "the append is the source of truth; the snapshot is a    *)
(* cache": with one worker the cache is never behind, whatever fails and   *)
(* however long a fetch takes.  (With two it may be: see StaleSnapshot.)   *)
(***************************************************************************)
THEOREM SnapshotsAreLatest ==
  ASSUME OneWorker
  PROVE  Spec => []SnapshotIsLatest
<1>1. LatestOK => SnapshotIsLatest
  BY DEF LatestOK
<1> QED
  BY <1>1, LatestInduction, PTL

-----------------------------------------------------------------------------
(***************************************************************************)
(* One worker: the tasks implement PriceBook.  A commit writes what was    *)
(* observed, since the session's copy is the row, and a search revives     *)
(* rows that are delisted and no others.  Unless listings come back it     *)
(* finds none that was seen to be gone, so it revives nothing.             *)
(***************************************************************************)
Searching == {"search", "flush"}

ReviveOK ==
  \A w \in Worker :
    IF pc[w] \in Searching
    THEN tracked => /\ refresh[w].gone = {o \in present : row[o].delisted}
                    /\ refresh[w].revive \subseteq refresh[w].gone
    ELSE refresh[w].revive = {}

SearchOK ==
  \A w \in Worker :
    /\ refresh[w].revive = {}
    /\ \A o \in refresh[w].gone : ~listed[o]

TheBook ==
  [o \in Offer |-> [standing |-> Standing(o), price |-> row[o].price,
                    log |-> history[o]]]

LEMMA InitIsBook == Init => SearchOK /\ ReviveOK /\ Book!Init
<1> SUFFICES ASSUME Init PROVE SearchOK /\ ReviveOK /\ Book!Init
  OBVIOUS
<1>1. SearchOK /\ ReviveOK
  BY DEF Init, SearchOK, ReviveOK, Searching, NoRefresh
<1>2. CASE TrackedByName
  BY <1>1, <1>2 DEF TrackedByName, NewRow, Book!Init, Book!Absent, Standing
<1>3. ASSUME NEW o \in Offer, NEW observed \in Observation,
             TrackedByUrl(o, observed)
      PROVE  Book!Init
  <2>1. /\ present = {o}
        /\ row[o] = [price |-> observed.price,
                     available |-> observed.available, delisted |-> FALSE]
        /\ history[o] = <<observed.price>>
        /\ \A x \in Offer : x # o => row[x] = NewRow /\ history[x] = <<>>
        /\ observed.price \in Price /\ observed.available \in BOOLEAN
    BY <1>3, NoneAssumption
    DEF TrackedByUrl, RecordPrice, Flushed, NewRow, Observation
  <2>2. TheBook = [x \in Offer |->
                     IF x = o
                     THEN Book!Observed(Book!Fresh, observed.price,
                                        observed.available)
                     ELSE Book!Absent]
    <3>1. Append(<<>>, observed.price) = <<observed.price>>
      OBVIOUS
    <3> QED
      BY <2>1, <3>1
      DEF TheBook, Standing, NewRow, Book!Observed, Book!Seen, Book!Gone,
          Book!Fresh, Book!Absent
  <2> QED
    BY <2>1, <2>2 DEF Book!Init, TheBook
<1> QED
  BY <1>1, <1>2, <1>3 DEF Init

\* What a search remembers stays true, since listings only end.
LEMMA StepKeepsSearch ==
  ASSUME TypeOK, ProcessesOK, TrustOK, SearchOK, "relist" \notin Faults,
         [Next]_vars
  PROVE  SearchOK'
<1> USE DEF database, redis, messages, processes
<1>0. refresh \in [Worker -> RefreshLocals]
  BY DEF ProcessesOK
<1>1. ASSUME NEW w \in Worker, Finish(w), UNCHANGED listed PROVE SearchOK'
  BY <1>0, <1>1 DEF Finish, SearchOK, NoRefresh
<1>2. CASE UNCHANGED <<refresh, listed>>
  BY <1>2 DEF SearchOK
<1>3. ASSUME NEW w \in Worker, StartRefresh(w) PROVE SearchOK'
  <2>1. CASE tracked
    <3>1. /\ refresh'[w].revive = refresh[w].revive
          /\ refresh'[w].gone = {o \in present : row[o].delisted}
          /\ \A v \in Worker : v # w => refresh'[v] = refresh[v]
          /\ UNCHANGED listed
      BY <1>0, <1>3, <2>1 DEF StartRefresh, RefreshLocals
    <3> QED
      BY <3>1 DEF SearchOK, TrustOK, DelistedOK
  <2>2. CASE ~tracked
    BY <1>2, <1>3, <2>2 DEF StartRefresh
  <2> QED
    BY <2>1, <2>2
<1>4. ASSUME NEW w \in Worker, NEW s \in Source, SearchSource(w, s)
      PROVE  SearchOK'
  <2>1. PICK found \in SUBSET {o \in Offer : SourceOf[o] = s /\ listed[o]} :
          refresh' = [refresh EXCEPT
                        ![w].todo   = @ \ {s},
                        ![w].insert = @ \cup (found \ present),
                        ![w].revive = @ \cup {o \in found \cap present :
                                                IF o \in refresh[w].known
                                                THEN o \in refresh[w].gone
                                                ELSE row[o].delisted}]
    BY <1>4 DEF SearchSource
  <2>2. {o \in found \cap present : IF o \in refresh[w].known
                                    THEN o \in refresh[w].gone
                                    ELSE row[o].delisted} = {}
    BY DEF SearchOK, TrustOK, DelistedOK
  <2>3. /\ refresh'[w].revive = refresh[w].revive
        /\ refresh'[w].gone = refresh[w].gone
        /\ \A v \in Worker : v # w => refresh'[v] = refresh[v]
    BY <1>0, <2>1, <2>2 DEF RefreshLocals
  <2> QED
    BY <1>4, <2>3 DEF SearchOK, SearchSource
<1>5. ASSUME NEW w \in Worker, FlushOffers(w) PROVE SearchOK'
  <2>1. CASE ~Finish(w)
    <3>1. PICK fan : refresh' = [refresh EXCEPT
                                   ![w] = [NoRefresh EXCEPT !.fan = fan]]
      BY <1>5, <2>1 DEF FlushOffers
    <3>2. /\ refresh'[w].revive = {} /\ refresh'[w].gone = {}
          /\ \A v \in Worker : v # w => refresh'[v] = refresh[v]
      BY <1>0, <3>1 DEF NoRefresh
    <3> QED
      BY <1>5, <3>2 DEF SearchOK, FlushOffers
  <2> QED
    BY <1>1, <1>5, <2>1 DEF FlushOffers
<1>6. ASSUME NEW w \in Worker, NEW o \in Offer, FanOut(w, o) PROVE SearchOK'
  <2>1. /\ refresh'[w].revive = refresh[w].revive
        /\ refresh'[w].gone = refresh[w].gone
        /\ \A v \in Worker : v # w => refresh'[v] = refresh[v]
        /\ UNCHANGED listed
    BY <1>0, <1>6 DEF FanOut, RefreshLocals
  <2> QED
    BY <2>1 DEF SearchOK
<1>7. ASSUME NEW o \in Offer, ListingEnds(o) PROVE SearchOK'
  BY <1>0, <1>7 DEF ListingEnds, SearchOK, RefreshLocals, TypeOK
<1>8. ASSUME NEW w \in Worker, FetchStep(w) \/ Fault(w)
      PROVE  UNCHANGED listed /\ (UNCHANGED refresh \/ Finish(w))
  BY <1>8
  DEF FetchStep, LoadOffer, AcquireLock, RateAllowed, RateDenied, FetchPrice,
      FetchRaises, CommitPrice, ReleaseLock, InvalidateCache, AnnounceDrop,
      RereadOffer, CommitDelisted, ForgetDeal, RetryOrGiveUp, LoadStale,
      DeadLetter, Fault, RedisFault, DatabaseFault, Crash
<1>9. ASSUME NEW w \in Worker, TakeMessage(w) \/ RefreshStep(w) PROVE SearchOK'
  BY <1>1, <1>2, <1>3, <1>4, <1>5, <1>6, <1>9
  DEF TakeMessage, StartFetch, RefreshStep, SearchDone, FanOutDone
<1>10. CASE Request \/ Environment \/ UNCHANGED vars
  BY <1>2, <1>7, <1>10
  DEF Request, Environment, RequestRefresh, DeleteItem, ReadItem, LookupDeal,
      ComputeDeal, StoreDeal, CacheExpires, LockExpires, ListingReturns, vars
<1> QED
  BY <1>1, <1>2, <1>8, <1>9, <1>10 DEF Next

\* The only worker searches or fetches: no row it looks at is delisted or
\* revived meanwhile.
LEMMA StepKeepsRevive ==
  ASSUME TypeOK, ProcessesOK, ReviveOK, OneWorker, [Next]_vars
  PROVE  ReviveOK'
<1> USE DEF database, redis, messages, processes
<1>0. /\ refresh \in [Worker -> RefreshLocals] /\ pc \in [Worker -> Control]
  BY DEF ProcessesOK
<1>1. ASSUME NEW w \in Worker, Finish(w) PROVE ReviveOK'
  BY <1>0, <1>1 DEF Finish, ReviveOK, Searching, NoRefresh, OneWorker
<1>2. CASE UNCHANGED <<pc, refresh, tracked, present, row>>
  BY <1>2 DEF ReviveOK
<1>3. CASE DeleteItem
  BY <1>3 DEF DeleteItem, ReviveOK
<1>4. ASSUME NEW w \in Worker, StartRefresh(w) PROVE ReviveOK'
  <2>1. CASE tracked
    <3>1. /\ refresh'[w].revive = refresh[w].revive
          /\ refresh'[w].gone = {o \in present : row[o].delisted}
          /\ pc[w] = "idle" /\ pc'[w] = "search"
          /\ \A v \in Worker : v = w
          /\ UNCHANGED <<tracked, present, row>>
      BY <1>0, <1>4, <2>1 DEF StartRefresh, RefreshLocals, OneWorker
    <3> QED
      BY <3>1 DEF ReviveOK, Searching
  <2>2. CASE ~tracked
    BY <1>2, <1>4, <2>2 DEF StartRefresh
  <2> QED
    BY <2>1, <2>2
<1>5. ASSUME NEW w \in Worker, NEW s \in Source, SearchSource(w, s)
      PROVE  ReviveOK'
  <2>1. PICK found \in SUBSET {o \in Offer : SourceOf[o] = s /\ listed[o]} :
          refresh' = [refresh EXCEPT
                        ![w].todo   = @ \ {s},
                        ![w].insert = @ \cup (found \ present),
                        ![w].revive = @ \cup {o \in found \cap present :
                                                IF o \in refresh[w].known
                                                THEN o \in refresh[w].gone
                                                ELSE row[o].delisted}]
    BY <1>5 DEF SearchSource
  <2>2. /\ refresh'[w].revive = refresh[w].revive \cup
               {o \in found \cap present : IF o \in refresh[w].known
                                          THEN o \in refresh[w].gone
                                          ELSE row[o].delisted}
        /\ refresh'[w].gone = refresh[w].gone
        /\ \A v \in Worker : v = w
        /\ pc[w] \in Searching
        /\ UNCHANGED <<pc, tracked, present, row>>
    BY <1>0, <1>5, <2>1
    DEF RefreshLocals, SearchSource, Searching, OneWorker
  <2> QED
    BY <2>2 DEF ReviveOK
<1>6. ASSUME NEW w \in Worker, SearchDone(w) PROVE ReviveOK'
  BY <1>0, <1>6 DEF SearchDone, Goto, ReviveOK, Searching, OneWorker
<1>7. ASSUME NEW w \in Worker, FlushOffers(w) PROVE ReviveOK'
  <2>1. CASE ~Finish(w)
    <3>1. PICK fan : refresh' = [refresh EXCEPT
                                   ![w] = [NoRefresh EXCEPT !.fan = fan]]
      BY <1>7, <2>1 DEF FlushOffers
    <3>2. /\ refresh'[w].revive = {} /\ pc'[w] = "fanout"
          /\ \A v \in Worker : v = w
      BY <1>0, <1>7, <2>1, <3>1 DEF FlushOffers, NoRefresh, OneWorker
    <3> QED
      BY <3>2 DEF ReviveOK, Searching
  <2> QED
    BY <1>1, <2>1
<1>8. ASSUME NEW w \in Worker, NEW o \in Offer, FanOut(w, o) PROVE ReviveOK'
  <2>1. /\ refresh'[w].revive = refresh[w].revive
        /\ \A v \in Worker : v = w
        /\ pc[w] \notin Searching /\ UNCHANGED pc
    BY <1>0, <1>8 DEF FanOut, RefreshLocals, Searching, OneWorker
  <2> QED
    BY <2>1 DEF ReviveOK
<1>9. ASSUME NEW w \in Worker, FetchStep(w) \/ \E m \in Message : StartFetch(w, m)
      PROVE  ReviveOK'
  <2>1. /\ pc[w] \notin Searching
        /\ \/ Finish(w)
           \/ /\ UNCHANGED refresh
              /\ \E to \in Control \ Searching : pc' = [pc EXCEPT ![w] = to]
    BY <1>9
    DEF FetchStep, LoadOffer, AcquireLock, RateAllowed, RateDenied, FetchPrice,
        FetchRaises, CommitPrice, ReleaseLock, InvalidateCache, AnnounceDrop,
        RereadOffer, CommitDelisted, ForgetDeal, RetryOrGiveUp, LoadStale,
        DeadLetter, StartFetch, Goto, Leave, Searching, Control, FetchControl
  <2>2. CASE UNCHANGED refresh /\ pc'[w] \notin Searching
    BY <2>1, <2>2 DEF ReviveOK, OneWorker
  <2> QED
    BY <1>0, <1>1, <2>1, <2>2
<1>10. ASSUME NEW w \in Worker, Fault(w) PROVE ReviveOK'
  <2>1. \/ Finish(w)
        \/ /\ UNCHANGED refresh
           /\ pc[w] \notin Searching
           /\ \E to \in Control \ Searching : pc' = [pc EXCEPT ![w] = to]
    BY <1>10
    DEF Fault, RedisFault, DatabaseFault, Crash, Goto, Leave, Searching,
        Control, FetchControl
  <2>2. CASE /\ UNCHANGED refresh /\ pc[w] \notin Searching
             /\ pc'[w] \notin Searching
    BY <2>2 DEF ReviveOK, OneWorker
  <2> QED
    BY <1>0, <1>1, <2>1, <2>2
<1>11. ASSUME NEW w \in Worker, TakeMessage(w) \/ RefreshStep(w)
       PROVE  ReviveOK'
  BY <1>1, <1>4, <1>5, <1>6, <1>7, <1>8, <1>9, <1>11
  DEF TakeMessage, RefreshStep, FanOutDone
<1>12. CASE Request \/ Environment \/ UNCHANGED vars
  BY <1>2, <1>3, <1>12
  DEF Request, Environment, RequestRefresh, ReadItem, LookupDeal, ComputeDeal,
      StoreDeal, CacheExpires, LockExpires, ListingEnds, ListingReturns, vars
<1> QED
  BY <1>9, <1>10, <1>11, <1>12 DEF Next

\* A step that writes no row is a stutter of the book.
LEMMA UntouchedBook ==
  ASSUME UNCHANGED <<present, row, history>>
  PROVE  UNCHANGED TheBook
  BY DEF TheBook, Standing

\* An entry that is written alone.
LEMMA BookEntry ==
  ASSUME NEW o \in Offer, NEW entry, UNCHANGED present,
         row \in [Offer -> Row], history \in [Offer -> Seq(Price)],
         \A x \in Offer : x # o => row'[x] = row[x] /\ history'[x] = history[x],
         entry = [standing |-> Standing(o)', price |-> row'[o].price,
                  log |-> history'[o]]
  PROVE  TheBook' = [TheBook EXCEPT ![o] = entry]
<1>1. \A x \in Offer : x # o => Standing(x)' = Standing(x)
  BY DEF Standing
<1>2. ASSUME NEW x \in Offer
      PROVE  TheBook'[x] = [TheBook EXCEPT ![o] = entry][x]
  BY <1>1 DEF TheBook
<1> QED
  BY <1>2 DEF TheBook

LEMMA CommitIsObserve ==
  ASSUME TypeOK, ProcessesOK, LatestOK, HistoryOK,
         "relist" \notin Faults => TrustOK,
         NEW w \in Worker, CommitPrice(w)
  PROVE  [Book!Next]_TheBook
<1> PICK o, observed : o = fetch[w].offer /\ observed = fetch[w].observed
  OBVIOUS
<1> DEFINE p == observed.price
           a == observed.available
<1>1. CASE o \notin present
  BY <1>1, UntouchedBook DEF CommitPrice
<1>2. CASE o \in present
  <2>1. /\ o \in Offer /\ row[o] \in Row /\ history[o] \in Seq(Price)
        /\ row[o].delisted => "relist" \in Faults
        /\ fetch[w].loaded = row[o]
        /\ p \in Price /\ a \in BOOLEAN
        /\ row \in [Offer -> Row] /\ history \in [Offer -> Seq(Price)]
        /\ present \in SUBSET Offer
    <3>1. pc[w] = "commit" /\ tracked
      BY <1>2 DEF CommitPrice, HistoryOK
    <3>2. fetch[w] \in FetchLocals /\ o \in Offer /\ p \in Price
      BY <3>1 DEF ProcessesOK, LocalsOK, HasPrice, FetchControl
    <3> QED
      BY <1>2, <3>1, <3>2
      DEF TypeOK, TrustOK, CommitOK, LatestOK, CurrentOK, LoadedAt, FetchLocals
  <2>2. /\ row'[o].price = p
        /\ row'[o].delisted <=> row[o].delisted
        /\ row'[o].available <=> a
        /\ history'[o] = Append(history[o], p)
        /\ \A x \in Offer : x # o => row'[x] = row[x] /\ history'[x] = history[x]
        /\ UNCHANGED present
    <3>1. /\ RecordPrice(row[o], row[o], observed).price = p
          /\ RecordPrice(row[o], row[o], observed).delisted <=> row[o].delisted
          /\ RecordPrice(row[o], row[o], observed).available <=> a
      BY <2>1 DEF RecordPrice, Flushed, Row
    <3> QED
      BY <1>2, <2>1, <3>1 DEF CommitPrice
  <2>3. TheBook' = [TheBook EXCEPT ![o] = Book!Observed(TheBook[o], p, a)]
    <3>1. Book!Observed(TheBook[o], p, a)
            = [standing |-> Standing(o)', price |-> row'[o].price,
               log |-> history'[o]]
      <4>1. Standing(o)' = Book!Seen(Standing(o), a)
        BY <1>2, <2>2 DEF Standing, Book!Seen, Book!Gone
      <4>2. TheBook[o].log = history[o] /\ TheBook[o].standing = Standing(o)
        BY <2>1 DEF TheBook
      <4> QED
        BY <2>2, <4>1, <4>2 DEF Book!Observed
    <3> QED
      BY <2>1, <2>2, <3>1, BookEntry
  <2>4. /\ TheBook[o].standing # "absent"
        /\ TheBook[o].standing \in Book!Gone => "relist" \in Faults
    BY <1>2, <2>1 DEF TheBook, Standing, Book!Gone
  <2>5. Book!Observe(o, p, a)
    BY <2>3, <2>4 DEF Book!Observe, TheBook
  <2> QED
    BY <2>1, <2>5 DEF Book!Next
<1> QED
  BY <1>1, <1>2

LEMMA DelistIsDelist ==
  ASSUME TypeOK, ProcessesOK, HistoryOK, LatestOK, NEW w \in Worker,
         CommitDelisted(w)
  PROVE  [Book!Next]_TheBook
<1> PICK o : o = fetch[w].offer
  OBVIOUS
<1>1. /\ o \in Offer /\ row[o] \in Row /\ row \in [Offer -> Row]
      /\ history \in [Offer -> Seq(Price)] /\ fetch[w].loaded \in Row
      /\ UNCHANGED <<present, history>> /\ present \in SUBSET Offer
  BY DEF CommitDelisted, TypeOK, ProcessesOK, LocalsOK, FetchControl,
         FetchLocals
<1>2. /\ \A x \in Offer : x # o => row'[x] = row[x]
      /\ row'[o].price = row[o].price
  <2>1. MarkOfferDelisted(row[o], fetch[w].loaded).price = row[o].price
    BY <1>1 DEF MarkOfferDelisted, Row
  <2> QED
    BY <1>1, <2>1 DEF CommitDelisted
<1>3. CASE o \notin present
  BY <1>1, <1>2, <1>3 DEF TheBook, Standing
<1>4. CASE o \in present
  <2>1. row'[o].delisted /\ ~row'[o].available
    <3>1. tracked /\ pc[w] = "delist"
      BY <1>4 DEF CommitDelisted, HistoryOK
    <3>2. fetch[w].loaded = row[o]
      BY <3>1 DEF LatestOK, CurrentOK, LoadedAt
    <3>3. row'[o] = MarkOfferDelisted(row[o], row[o])
      BY <1>1, <1>4, <3>2 DEF CommitDelisted
    <3>4. /\ MarkOfferDelisted(row[o], row[o]).delisted
          /\ ~MarkOfferDelisted(row[o], row[o]).available
      BY <1>1 DEF MarkOfferDelisted, Flushed, Row
    <3> QED
      BY <3>3, <3>4
  <2>2. TheBook' = [TheBook EXCEPT
                      ![o] = [standing |-> "delisted", price |-> row[o].price,
                              log |-> history[o]]]
    <3>1. Standing(o)' = "delisted"
      BY <1>1, <1>4, <2>1 DEF Standing
    <3> QED
      BY <1>1, <1>2, <3>1, BookEntry
  <2>3. CASE Standing(o) = "delisted"
    <3>1. UNCHANGED TheBook
      BY <1>1, <1>4, <2>2, <2>3 DEF TheBook
    <3> QED
      BY <3>1
  <2>4. CASE Standing(o) # "delisted"
    <3>1. TheBook[o].standing \in {"trusted", "doubted", "returned"}
      BY <1>1, <1>4, <2>4 DEF TheBook, Standing
    <3>2. TheBook' = [TheBook EXCEPT ![o].standing = "delisted"]
      BY <1>1, <2>2 DEF TheBook
    <3>3. Book!Delist(o)
      BY <3>1, <3>2 DEF Book!Delist, TheBook
    <3> QED
      BY <1>1, <3>3 DEF Book!Next
  <2> QED
    BY <2>3, <2>4
<1> QED
  BY <1>3, <1>4

LEMMA DeadLetterIsDoubt ==
  ASSUME TypeOK, ProcessesOK, LatestOK, NEW w \in Worker, DeadLetter(w)
  PROVE  [Book!Next]_TheBook
<1> PICK o, loaded : o = fetch[w].offer /\ loaded = fetch[w].loaded
  OBVIOUS
<1>1. CASE o \notin present
  BY <1>1, UntouchedBook DEF DeadLetter
<1>2. ASSUME o \in present
      PROVE  /\ o \in Offer /\ row[o] \in Row /\ row \in [Offer -> Row]
             /\ history \in [Offer -> Seq(Price)] /\ loaded \in Row
             /\ row' = [row EXCEPT ![o] = MarkOfferUnavailable(row[o], loaded)]
             /\ UNCHANGED <<present, history>> /\ present \in SUBSET Offer
  BY <1>2
  DEF DeadLetter, TypeOK, ProcessesOK, LocalsOK, FetchControl, FetchLocals
<1>3. CASE o \in present /\ ~loaded.available
  <2>1. MarkOfferUnavailable(row[o], loaded) = row[o]
    BY <1>2, <1>3 DEF MarkOfferUnavailable, Flushed, Row
  <2> QED
    BY <1>2, <1>3, <2>1, UntouchedBook
<1>4. CASE o \in present /\ loaded.available
  <2>1. /\ o \in Offer /\ row[o] \in Row /\ row \in [Offer -> Row]
        /\ history \in [Offer -> Seq(Price)]
        /\ UNCHANGED <<present, history>> /\ present \in SUBSET Offer
    BY <1>2, <1>4
  <2>2. /\ \A x \in Offer : x # o => row'[x] = row[x]
        /\ row'[o].price = row[o].price
        /\ ~row'[o].available /\ (row'[o].delisted <=> row[o].delisted)
    <3>1. /\ MarkOfferUnavailable(row[o], loaded).price = row[o].price
          /\ ~MarkOfferUnavailable(row[o], loaded).available
          /\ MarkOfferUnavailable(row[o], loaded).delisted <=> row[o].delisted
      BY <1>4, <2>1 DEF MarkOfferUnavailable, Flushed, Row
    <3> QED
      BY <1>2, <1>4, <3>1
  <2>3. TheBook' = [TheBook EXCEPT
                      ![o] = [standing |-> IF row[o].delisted THEN "delisted"
                                           ELSE "doubted",
                              price |-> row[o].price, log |-> history[o]]]
    <3>1. Standing(o)' = IF row[o].delisted THEN "delisted" ELSE "doubted"
      BY <1>4, <2>1, <2>2 DEF Standing
    <3> QED
      BY <2>1, <2>2, <3>1, BookEntry
  <2>4. CASE ~row[o].available
    <3>1. UNCHANGED TheBook
      BY ZenonT(30), <1>4, <2>1, <2>3, <2>4 DEF TheBook, Standing
    <3> QED
      BY <3>1
  <2>5. CASE row[o].available
    <3>1. TheBook[o].standing \in {"trusted", "returned"}
      BY <1>4, <2>1, <2>5 DEF TheBook, Standing
    <3>2. TheBook' = [TheBook EXCEPT ![o].standing = Book!Seen(@, FALSE)]
      BY ZenonT(30), <1>4, <2>1, <2>3, <2>5
      DEF TheBook, Standing, Book!Seen, Book!Gone
    <3>3. Book!Doubt(o)
      BY <3>1, <3>2 DEF Book!Doubt, TheBook
    <3> QED
      BY <2>1, <3>3 DEF Book!Next
  <2> QED
    BY <2>4, <2>5
<1> QED
  BY <1>1, <1>3, <1>4

LEMMA FlushIsDiscover ==
  ASSUME TypeOK, ProcessesOK, ReviveOK, LatestOK,
         "relist" \notin Faults => SearchOK,
         NEW w \in Worker, FlushOffers(w)
  PROVE  [Book!Next]_TheBook
<1> PICK new, back : new = refresh[w].insert /\ back = refresh[w].revive
  OBVIOUS
<1>1. CASE ~(tracked /\ new \cap present = {})
  BY <1>1, UntouchedBook DEF FlushOffers
<1>2. CASE tracked /\ new \cap present = {}
  <2>1. /\ new \in SUBSET Offer /\ present \in SUBSET Offer
        /\ row \in [Offer -> Row]
        /\ present' = present \cup new /\ UNCHANGED history
        /\ row' = [o \in Offer |-> IF o \in new THEN NewRow
                                  ELSE IF o \in back THEN Revive(row[o])
                                  ELSE row[o]]
    BY <1>2 DEF FlushOffers, TypeOK, ProcessesOK, RefreshLocals
  <2>2. /\ \A o \in new : history[o] = <<>>
        /\ back \subseteq {o \in present : row[o].delisted}
        /\ back # {} => "relist" \in Faults
    BY <1>2, <2>1
    DEF LatestOK, BlankOK, ReviveOK, Searching, FlushOffers, SearchOK
  <2>3. \A o \in Offer : Revive(row[o]) = [row[o] EXCEPT !.delisted = FALSE]
    BY DEF Revive
  <2>4. ASSUME NEW o \in Offer
        PROVE  TheBook'[o] =
                 IF o \notin new \cup back THEN TheBook[o]
                 ELSE CASE TheBook[o].standing = "absent"   -> Book!Fresh
                        [] TheBook[o].standing = "delisted" ->
                             [TheBook[o] EXCEPT !.standing = "doubted"]
                        [] TheBook[o].standing = "returned" ->
                             [TheBook[o] EXCEPT !.standing = "trusted"]
                        [] OTHER -> TheBook[o]
    <3>1. CASE o \in new
      <4>1. TheBook[o].standing = "absent"
        BY <1>2, <3>1 DEF TheBook, Standing
      <4>2. TheBook'[o] = Book!Fresh
        BY <2>1, <2>2, <3>1 DEF TheBook, Standing, NewRow, Book!Fresh
      <4> QED
        BY <3>1, <4>1, <4>2
    <3>2. CASE o \in back
      <4>1. /\ o \in present /\ o \notin new /\ row[o] \in Row
            /\ row'[o] = [row[o] EXCEPT !.delisted = FALSE]
            /\ row[o].delisted
        BY <1>2, <2>1, <2>2, <2>3, <3>2
      <4>2. TheBook'[o] = [TheBook[o] EXCEPT !.standing =
                             IF row[o].available THEN "trusted" ELSE "doubted"]
        BY <2>1, <4>1 DEF TheBook, Standing, Row
      <4>3. TheBook[o].standing =
              IF row[o].available THEN "returned" ELSE "delisted"
        BY <4>1 DEF TheBook, Standing
      <4> QED
        BY <3>2, <4>2, <4>3
    <3>3. CASE o \notin new \cup back
      BY <2>1, <3>3 DEF TheBook, Standing
    <3> QED
      BY <3>1, <3>2, <3>3
  <2>5. \A o \in new \cup back :
          TheBook[o].standing \in Book!Gone => "relist" \in Faults
    BY <1>2, <2>1, <2>2 DEF TheBook, Standing, Book!Gone
  <2>6. TheBook' = [o \in Offer |-> TheBook'[o]]
    BY DEF TheBook
  <2>7. Book!Discover(new \cup back)
    BY <2>4, <2>5, <2>6 DEF Book!Discover, TheBook
  <2> QED
    BY <2>1, <2>2, <2>7 DEF Book!Next
<1> QED
  BY <1>1, <1>2

LEMMA DeleteIsErase ==
  ASSUME DeleteItem
  PROVE  [Book!Next]_TheBook
<1>1. Book!Erase
  BY DEF DeleteItem, Book!Erase, Book!Absent, Standing, NewRow
<1> QED
  BY <1>1 DEF Book!Next

LEMMA StepIsBookStep ==
  ASSUME TypeOK, ProcessesOK, HistoryOK, ReviveOK, LatestOK,
         "relist" \notin Faults => TrustOK /\ SearchOK, [Next]_vars
  PROVE  [Book!Next]_TheBook
<1> USE DEF database
<1>1. CASE DeleteItem
  BY <1>1, DeleteIsErase
<1>2. CASE (Request /\ ~DeleteItem) \/ Environment \/ UNCHANGED vars
  <2>1. UNCHANGED <<present, row, history>>
    BY <1>2
    DEF Request, Environment, RequestRefresh, ReadItem, LookupDeal,
        ComputeDeal, StoreDeal, CacheExpires, LockExpires, ListingEnds,
        ListingReturns, vars
  <2> QED
    BY <2>1, UntouchedBook
<1>3. ASSUME NEW w \in Worker,
             TakeMessage(w) \/ RefreshStep(w) \/ FetchStep(w) \/ Fault(w)
      PROVE  [Book!Next]_TheBook
  <2>1. CASE \/ FlushOffers(w) \/ CommitPrice(w) \/ CommitDelisted(w)
             \/ DeadLetter(w)
    BY <2>1, FlushIsDiscover, CommitIsObserve, DelistIsDelist, DeadLetterIsDoubt
  <2>2. CASE ~(\/ FlushOffers(w) \/ CommitPrice(w) \/ CommitDelisted(w)
               \/ DeadLetter(w))
    <3>1. UNCHANGED <<present, row, history>>
      BY <1>3, <2>2
      DEF TakeMessage, StartRefresh, StartFetch, RefreshStep, SearchSource,
          SearchDone, FanOut, FanOutDone, FetchStep, LoadOffer, AcquireLock,
          RateAllowed, RateDenied, FetchPrice, FetchRaises, ReleaseLock,
          InvalidateCache, AnnounceDrop, RereadOffer, ForgetDeal,
          RetryOrGiveUp, LoadStale, Fault, RedisFault, DatabaseFault, Crash
    <3> QED
      BY <3>1, UntouchedBook
  <2> QED
    BY <2>1, <2>2
<1> QED
  BY <1>1, <1>2, <1>3 DEF Next

LEMMA BookInduction ==
  ASSUME OneWorker
  PROVE  Spec => [](/\ TypeOK /\ ProcessesOK /\ HistoryOK /\ LatestOK
                    /\ ReviveOK
                    /\ "relist" \notin Faults => TrustOK /\ SearchOK)
<1> DEFINE Ended == "relist" \notin Faults => TrustOK /\ SearchOK
<1>1. Init => ReviveOK /\ Ended
  BY InitTrusted, InitIsBook
<1>2. TypeOK /\ ProcessesOK /\ ReviveOK /\ [Next]_vars => ReviveOK'
  BY StepKeepsRevive
<1>3. TypeOK /\ ProcessesOK /\ Ended /\ [Next]_vars => Ended'
  BY FetchStepKeepsTrust, OtherStepKeepsTrust, StepKeepsSearch DEF Next
<1>4. Spec => [](TypeOK /\ ProcessesOK /\ HistoryOK /\ LatestOK)
  BY LatestInduction
<1> QED
  BY <1>1, <1>2, <1>3, <1>4, PTL DEF Spec

(***************************************************************************)
(* The pipeline of one worker implements PriceBook: its tasks, locks,      *)
(* sessions, retries, crashes and deletions come to steps of the book, or  *)
(* to none.  Among them is mark_offer_delisted's promise that an offer     *)
(* "revives only if the source's search returns the same listing id".      *)
(***************************************************************************)
THEOREM PipelineIsABook ==
  ASSUME OneWorker
  PROVE  Spec => ImplementsPriceBook
<1>1. Init => Book!Init
  BY InitIsBook
<1>2. /\ TypeOK /\ ProcessesOK /\ HistoryOK /\ LatestOK /\ ReviveOK
      /\ "relist" \notin Faults => TrustOK /\ SearchOK
      /\ [Next]_vars
      => [Book!Next]_TheBook
  BY StepIsBookStep
<1> QED
  BY <1>1, <1>2, BookInduction, PTL
  DEF Spec, ImplementsPriceBook, Book!Spec, TheBook

-----------------------------------------------------------------------------
(***************************************************************************)
(* Genuine drops.  A worker that has recorded a fall, and has yet to       *)
(* announce it, leaves room for the announcement: there are fewer events   *)
(* of the offer than falls in its history.                                 *)
(***************************************************************************)
OwesDrop(w) ==
  /\ HasPrice(w)
  /\ pc[w] # "commit"
  /\ fetch[w].loaded.price # None
  /\ fetch[w].observed.price < fetch[w].loaded.price

Announced(o) == Len(dropped[o])
Fallen(o)    == Cardinality(Falls(history[o]))

GenuineOK ==
  tracked =>
    /\ \A o \in Offer : Announced(o) <= Fallen(o)
    /\ \A w \in Worker :
         OwesDrop(w) => Announced(fetch[w].offer) < Fallen(fetch[w].offer)

LEMMA FallsAreFinite ==
  ASSUME NEW h \in Seq(Price)
  PROVE  /\ IsFiniteSet(Falls(h)) /\ Cardinality(Falls(h)) \in Nat
         /\ Falls(h) \subseteq 2..Len(h)
<1>1. Falls(h) \subseteq 2..Len(h) /\ Len(h) \in Int
  BY DEF Falls
<1>2. IsFiniteSet(2..Len(h))
  BY <1>1, FS_Interval
<1>3. IsFiniteSet(Falls(h))
  BY <1>1, <1>2, FS_Subset
<1> QED
  BY <1>1, <1>3, FS_CardinalityType

\* An appended price is one fall more when it is lower than the last, and
\* takes no fall away.
LEMMA FallsOfAppend ==
  ASSUME NEW h \in Seq(Price), NEW p \in Price
  PROVE  /\ Cardinality(Falls(h)) \in Nat
         /\ Cardinality(Falls(Append(h, p))) \in Nat
         /\ Cardinality(Falls(h)) <= Cardinality(Falls(Append(h, p)))
         /\ h # <<>> /\ p < h[Len(h)] =>
              Cardinality(Falls(h)) < Cardinality(Falls(Append(h, p)))
<1> PICK n \in Nat : n = Len(h)
  OBVIOUS
<1>1. /\ Len(Append(h, p)) = n + 1
      /\ \A i \in 1..n : Append(h, p)[i] = h[i]
      /\ Append(h, p)[n + 1] = p
      /\ \A i \in 1..n : h[i] \in Nat
      /\ p \in Nat
      /\ h # <<>> => n >= 1
  <2>1. /\ Len(Append(h, p)) = n + 1
        /\ \A i \in 1..n : Append(h, p)[i] = h[i]
        /\ Append(h, p)[n + 1] = p
    OBVIOUS
  <2>2. p \in Nat /\ \A i \in 1..n : h[i] \in Price
    BY PriceAssumption
  <2>3. h # <<>> => n >= 1
    OBVIOUS
  <2> QED
    BY <2>1, <2>2, <2>3, PriceAssumption
<1>2. Falls(h) \subseteq 2..n
  BY FallsAreFinite
<1>3. IsFiniteSet(Falls(h)) /\ Cardinality(Falls(h)) \in Nat
  BY FallsAreFinite
<1>4. CASE n >= 1 /\ p < h[n]
  <2>1. Falls(Append(h, p)) = Falls(h) \cup {n + 1}
    BY <1>1, <1>4 DEF Falls
  <2>2. n + 1 \notin Falls(h)
    BY <1>2
  <2>3. Cardinality(Falls(h) \cup {n + 1}) = Cardinality(Falls(h)) + 1
    BY <1>3, <2>2, FS_AddElement
  <2> QED
    BY <1>3, <2>1, <2>3
<1>5. CASE ~(n >= 1 /\ p < h[n])
  <2>1. Falls(Append(h, p)) = Falls(h)
    BY <1>1, <1>5 DEF Falls
  <2> QED
    BY <1>1, <1>3, <1>5, <2>1
<1> QED
  BY <1>4, <1>5

LEMMA FallsCounted ==
  ASSUME TypeOK
  PROVE  \A o \in Offer : Fallen(o) \in Nat /\ Announced(o) \in Nat
<1>1. \A o \in Offer : history[o] \in Seq(Price) /\ dropped[o] \in Seq(Drop)
  BY DEF TypeOK
<1> QED
  BY <1>1, FallsAreFinite DEF Fallen, Announced

\* No worker comes to owe an announcement.
NobodyOwes ==
  \A w \in Worker : OwesDrop(w)' => /\ OwesDrop(w)
                                    /\ fetch'[w].offer = fetch[w].offer

LEMMA QuietStepKeepsDrops ==
  ASSUME GenuineOK, NobodyOwes, tracked' => tracked,
         UNCHANGED <<history, dropped>>
  PROVE  GenuineOK'
<1>1. \A o \in Offer : Announced(o)' = Announced(o) /\ Fallen(o)' = Fallen(o)
  BY DEF Announced, Fallen
<1>2. ASSUME NEW w \in Worker, OwesDrop(w)', tracked
      PROVE  (Announced(fetch[w].offer) < Fallen(fetch[w].offer))'
  <2> PICK o : o = fetch[w].offer
    OBVIOUS
  <2>1. fetch'[w].offer = o /\ Announced(o) < Fallen(o)
    BY <1>2 DEF NobodyOwes, GenuineOK
  <2> QED
    BY <2>1 DEF Announced, Fallen
<1> QED
  BY <1>1, <1>2 DEF GenuineOK

LEMMA FinishOwesNothing ==
  ASSUME ProcessesOK, NEW w \in Worker, Finish(w)
  PROVE  NobodyOwes
<1>1. ASSUME NEW v \in Worker
      PROVE  \/ pc'[v] = "idle"
             \/ pc'[v] = pc[v] /\ fetch'[v] = fetch[v]
  BY DEF Finish, ProcessesOK
<1> QED
  BY <1>1 DEF NobodyOwes, OwesDrop, HasPrice

LEMMA LeaveOwesNothing ==
  ASSUME ProcessesOK, NEW w \in Worker, NEW from,
         NEW outcome \in {"gone", "stop", "error"}, Leave(w, from, outcome)
  PROVE  NobodyOwes
<1>1. ASSUME NEW v \in Worker
      PROVE  \/ pc'[v] = "release" /\ fetch'[v].outcome # "ok"
             \/ pc'[v] = pc[v] /\ fetch'[v] = fetch[v]
  BY DEF Leave, Goto, ProcessesOK, FetchLocals
<1> QED
  BY <1>1 DEF NobodyOwes, OwesDrop, HasPrice

LEMMA MoveOwesNothing ==
  ASSUME ProcessesOK, NEW w \in Worker, NEW to,
         to \notin {"invalidate", "announce", "release"},
         pc' = [pc EXCEPT ![w] = to],
         \A v \in Worker : v # w => fetch'[v] = fetch[v]
  PROVE  NobodyOwes
<1>1. ASSUME NEW v \in Worker
      PROVE  \/ pc'[v] = to
             \/ pc'[v] = pc[v] /\ fetch'[v] = fetch[v]
  BY DEF ProcessesOK
<1> QED
  BY <1>1 DEF NobodyOwes, OwesDrop, HasPrice

\* The price that is committed is compared with the row as it was loaded:
\* with one worker that is the row as it is, and its price the last recorded.
LEMMA CommitKeepsDrops ==
  ASSUME TypeOK, ProcessesOK, LatestOK, SnapshotFromHistory, GenuineOK,
         OneWorker, NEW w \in Worker, CommitPrice(w)
  PROVE  GenuineOK'
<1> PICK o, p : o = fetch[w].offer /\ p = fetch[w].observed.price
  OBVIOUS
<1>1. CASE o \notin present
  <2>1. Leave(w, "commit", "error")
    BY <1>1 DEF CommitPrice
  <2> QED
    BY <1>1, <2>1, LeaveOwesNothing, QuietStepKeepsDrops
    DEF CommitPrice, database, messages
<1>2. CASE o \in present
  <2>1. /\ o \in Offer /\ p \in Price /\ history[o] \in Seq(Price)
        /\ pc[w] = "commit" /\ fetch \in [Worker -> FetchLocals]
        /\ history' = [history EXCEPT ![o] = Append(@, p)]
        /\ fetch' = [fetch EXCEPT ![w].outcome = "ok"]
        /\ UNCHANGED <<tracked, dropped>>
    BY <1>2
    DEF CommitPrice, Leave, Goto, ProcessesOK, LocalsOK, HasPrice, TypeOK,
        FetchControl, messages
  <2>2. /\ history'[o] = Append(history[o], p)
        /\ \A x \in Offer \ {o} : history'[x] = history[x]
    BY <2>1 DEF TypeOK
  <2>3. /\ Fallen(o) \in Nat /\ Fallen(o)' \in Nat /\ Fallen(o) <= Fallen(o)'
        /\ history[o] # <<>> /\ p < history[o][Len(history[o])]
             => Fallen(o) < Fallen(o)'
    BY <2>1, <2>2, FallsOfAppend DEF Fallen
  <2>4. /\ \A x \in Offer : Announced(x)' = Announced(x)
        /\ \A x \in Offer \ {o} : Fallen(x)' = Fallen(x)
    BY <2>1, <2>2 DEF Announced, Fallen
  <2> SUFFICES ASSUME tracked
               PROVE  /\ \A x \in Offer : (Announced(x) <= Fallen(x))'
                      /\ \A v \in Worker : OwesDrop(v)' =>
                           (Announced(fetch[v].offer)
                              < Fallen(fetch[v].offer))'
    BY <2>1 DEF GenuineOK
  <2>5. \A x \in Offer : Announced(x) \in Nat /\ Announced(x) <= Fallen(x)
    BY FallsCounted DEF GenuineOK
  <2>6. \A x \in Offer : (Announced(x) <= Fallen(x))'
    BY <2>1, <2>3, <2>4, <2>5
  <2>7. ASSUME NEW v \in Worker, OwesDrop(v)'
        PROVE  (Announced(fetch[v].offer) < Fallen(fetch[v].offer))'
    <3>1. /\ v = w
          /\ fetch'[v].offer = o
          /\ fetch'[v].observed.price = p
          /\ fetch'[v].loaded = fetch[w].loaded
      BY <2>1 DEF OneWorker, FetchLocals
    <3>2. fetch[w].loaded = row[o]
      BY <2>1 DEF LatestOK, CurrentOK, LoadedAt
    <3>3. row[o].price # None /\ p < row[o].price
      BY <2>7, <3>1, <3>2 DEF OwesDrop
    <3>4. history[o] # <<>> /\ row[o].price = history[o][Len(history[o])]
      BY <1>2, <2>1, <3>3 DEF LatestOK, SnapshotIsLatest, SnapshotFromHistory
    <3>5. Announced(o)' < Fallen(o)'
      BY <2>1, <2>3, <2>4, <2>5, <3>3, <3>4
    <3> QED
      BY <3>1, <3>5 DEF Announced, Fallen
  <2> QED
    BY <2>6, <2>7
<1> QED
  BY <1>1, <1>2

\* The announcement that was owed is made, or none was owed.
LEMMA AnnounceKeepsDrops ==
  ASSUME TypeOK, ProcessesOK, GenuineOK, OneWorker, NEW w \in Worker,
         AnnounceDrop(w)
  PROVE  GenuineOK'
<1>1. \A v \in Worker : ~OwesDrop(v)'
  BY DEF AnnounceDrop, Finish, OneWorker, ProcessesOK, OwesDrop, HasPrice
<1>2. UNCHANGED <<tracked, history>> /\ pc[w] = "announce"
  BY DEF AnnounceDrop, database
<1>3. CASE UNCHANGED dropped
  BY <1>1, <1>2, <1>3, QuietStepKeepsDrops DEF NobodyOwes
<1>4. CASE ~UNCHANGED dropped
  <2> PICK o : o = fetch[w].offer
    OBVIOUS
  <2>1. /\ OwesDrop(w)
        /\ o \in Offer
        /\ dropped[o] \in Seq(Drop)
    BY <1>2, <1>4
    DEF AnnounceDrop, OwesDrop, HasPrice, ProcessesOK, LocalsOK, FetchControl,
        TypeOK
  <2>2. PICK d : dropped' = [dropped EXCEPT ![o] = Append(@, d)]
    BY <1>4 DEF AnnounceDrop
  <2>3. /\ Announced(o)' = Announced(o) + 1
        /\ \A x \in Offer \ {o} : Announced(x)' = Announced(x)
    BY <2>1, <2>2 DEF Announced, TypeOK
  <2>4. \A x \in Offer : Fallen(x)' = Fallen(x)
    BY <1>2 DEF Fallen
  <2>5. tracked => Announced(o) < Fallen(o)
    BY <2>1 DEF GenuineOK
  <2>6. tracked => \A x \in Offer : (Announced(x) <= Fallen(x))'
    BY <2>1, <2>3, <2>4, <2>5, FallsCounted DEF GenuineOK
  <2> QED
    BY <1>1, <1>2, <2>6 DEF GenuineOK
<1> QED
  BY <1>3, <1>4

LEMMA FetchStepKeepsDrops ==
  ASSUME TypeOK, ProcessesOK, LatestOK, SnapshotFromHistory, GenuineOK,
         OneWorker, NEW w \in Worker, FetchStep(w)
  PROVE  GenuineOK'
<1> USE DEF database, messages
<1>0. fetch \in [Worker -> FetchLocals] /\ pc \in [Worker -> Control]
  BY DEF ProcessesOK
<1>1. CASE CommitPrice(w)
  BY <1>1, CommitKeepsDrops
<1>2. CASE AnnounceDrop(w)
  BY <1>2, AnnounceKeepsDrops
<1>3. CASE ReleaseLock(w)
  <2>1. CASE Finish(w)
    BY <1>3, <2>1, FinishOwesNothing, QuietStepKeepsDrops DEF ReleaseLock
  <2>2. CASE /\ UNCHANGED fetch
             /\ pc' = [pc EXCEPT ![w] =
                         CASE fetch[w].outcome = "ok"   -> "invalidate"
                           [] fetch[w].outcome = "gone" -> "reread"
                           [] OTHER                     -> "retry"]
    <3>1. NobodyOwes
      BY <1>0, <1>3, <2>2 DEF ReleaseLock, NobodyOwes, OwesDrop, HasPrice
    <3> QED
      BY <1>3, <3>1, QuietStepKeepsDrops DEF ReleaseLock
  <2> QED
    BY <1>3, <2>1, <2>2 DEF ReleaseLock
<1>4. CASE InvalidateCache(w)
  <2>1. NobodyOwes
    BY <1>0, <1>4
    DEF InvalidateCache, Goto, NobodyOwes, OwesDrop, HasPrice
  <2> QED
    BY <1>4, <2>1, QuietStepKeepsDrops DEF InvalidateCache
<1>5. CASE RateDenied(w)
  BY <1>5, LeaveOwesNothing, QuietStepKeepsDrops DEF RateDenied, Publish
<1>6. CASE \E outcome \in Outcome : FetchRaises(w, outcome)
  BY <1>6, LeaveOwesNothing, QuietStepKeepsDrops DEF FetchRaises
<1>7. CASE \/ LoadOffer(w) \/ AcquireLock(w) \/ RateAllowed(w)
           \/ \E observed \in Observation : FetchPrice(w, observed)
           \/ RereadOffer(w) \/ CommitDelisted(w) \/ ForgetDeal(w)
           \/ RetryOrGiveUp(w) \/ LoadStale(w) \/ DeadLetter(w)
  <2>1. UNCHANGED <<tracked, history, dropped>>
    BY <1>7
    DEF LoadOffer, AcquireLock, RateAllowed, FetchPrice, RereadOffer,
        CommitDelisted, ForgetDeal, RetryOrGiveUp, LoadStale, DeadLetter,
        Publish
  <2>2. \/ Finish(w)
        \/ /\ \E to \in {"lock", "rate", "fetch", "commit", "delist",
                         "forget", "deadLetter", "park"} :
                pc' = [pc EXCEPT ![w] = to]
           /\ \A v \in Worker : v # w => fetch'[v] = fetch[v]
    BY <1>0, <1>7
    DEF LoadOffer, AcquireLock, RateAllowed, FetchPrice, RereadOffer,
        CommitDelisted, ForgetDeal, RetryOrGiveUp, LoadStale, DeadLetter, Goto
  <2>3. NobodyOwes
    BY <2>2, FinishOwesNothing, MoveOwesNothing
  <2> QED
    BY <2>1, <2>3, QuietStepKeepsDrops
<1> QED
  BY <1>1, <1>2, <1>3, <1>4, <1>5, <1>6, <1>7 DEF FetchStep

LEMMA OtherStepKeepsDrops ==
  ASSUME TypeOK, ProcessesOK, GenuineOK,
         \/ Request \/ Environment \/ UNCHANGED vars
         \/ \E w \in Worker : TakeMessage(w) \/ RefreshStep(w) \/ Fault(w)
  PROVE  GenuineOK'
<1> USE DEF database, messages, processes
<1>0. fetch \in [Worker -> FetchLocals] /\ pc \in [Worker -> Control]
  BY DEF ProcessesOK
<1>1. CASE DeleteItem
  BY <1>1 DEF DeleteItem, GenuineOK
<1>2. CASE (Request /\ ~DeleteItem) \/ Environment \/ UNCHANGED vars
  <2>1. UNCHANGED <<tracked, history, dropped, pc, fetch>>
    BY <1>2
    DEF Request, Environment, RequestRefresh, ReadItem, LookupDeal,
        ComputeDeal, StoreDeal, CacheExpires, LockExpires, ListingEnds,
        ListingReturns, vars
  <2>2. NobodyOwes
    BY <2>1 DEF NobodyOwes, OwesDrop, HasPrice
  <2> QED
    BY <2>1, <2>2, QuietStepKeepsDrops
<1>3. ASSUME NEW w \in Worker, TakeMessage(w) \/ RefreshStep(w)
      PROVE  GenuineOK'
  <2>1. UNCHANGED <<tracked, history, dropped>>
    BY <1>3
    DEF TakeMessage, StartRefresh, StartFetch, RefreshStep, SearchSource,
        SearchDone, FlushOffers, FanOut, FanOutDone, Publish
  <2>2. \/ Finish(w)
        \/ UNCHANGED <<pc, fetch>>
        \/ /\ \E to \in {"search", "load", "flush", "fanout"} :
                pc' = [pc EXCEPT ![w] = to]
           /\ \A v \in Worker : v # w => fetch'[v] = fetch[v]
    BY <1>0, <1>3
    DEF TakeMessage, StartRefresh, StartFetch, RefreshStep, SearchSource,
        SearchDone, FlushOffers, FanOut, FanOutDone, Goto
  <2>3. NobodyOwes
    <3>1. CASE UNCHANGED <<pc, fetch>>
      BY <3>1 DEF NobodyOwes, OwesDrop, HasPrice
    <3> QED
      BY <2>2, <3>1, FinishOwesNothing, MoveOwesNothing
  <2> QED
    BY <2>1, <2>3, QuietStepKeepsDrops
<1>4. ASSUME NEW w \in Worker, Fault(w) PROVE GenuineOK'
  <2>1. UNCHANGED <<tracked, history, dropped>>
    BY <1>4 DEF Fault, RedisFault, DatabaseFault, Crash
  <2>2. NobodyOwes
    <3>1. CASE Finish(w)
      BY <3>1, FinishOwesNothing
    <3>2. CASE \E from \in Control : Leave(w, from, "error")
      BY <3>2, LeaveOwesNothing
    <3>3. CASE pc' = [pc EXCEPT ![w] = "retry"] /\ UNCHANGED fetch
      BY <3>3, MoveOwesNothing
    <3> QED
      BY <1>4, <3>1, <3>2, <3>3
      DEF Fault, RedisFault, DatabaseFault, Crash, Goto, Control, FetchControl
  <2> QED
    BY <2>1, <2>2, QuietStepKeepsDrops
<1> QED
  BY <1>1, <1>2, <1>3, <1>4

(***************************************************************************)
(* fetch_offer publishes price_dropped "only when the price genuinely      *)
(* fell": with one worker an offer never has more events than its history  *)
(* has falls, whatever fails, is retried or outlives its lock.  (Two       *)
(* workers may compare with the same loaded price, and announce one fall   *)
(* twice.)                                                                 *)
(***************************************************************************)
THEOREM AnnouncedDropsAreGenuine ==
  ASSUME OneWorker
  PROVE  Spec => []DropsAreGenuine
<1>1. Init => GenuineOK
  <2> SUFFICES ASSUME Init PROVE GenuineOK
    OBVIOUS
  <2>1. \A o \in Offer : Announced(o) = 0
    BY DEF Init, Announced
  <2>2. \A w \in Worker : ~OwesDrop(w)
    BY DEF Init, OwesDrop, HasPrice
  <2>3. \A o \in Offer : Fallen(o) \in Nat
    BY InitTyped, FallsCounted
  <2> QED
    BY <2>1, <2>2, <2>3 DEF GenuineOK
<1>2. GenuineOK /\ TypeOK /\ ProcessesOK /\ LatestOK /\ SnapshotFromHistory
        /\ [Next]_vars => GenuineOK'
  BY FetchStepKeepsDrops, OtherStepKeepsDrops DEF Next
<1>3. GenuineOK => DropsAreGenuine
  BY DEF GenuineOK, DropsAreGenuine, Announced, Fallen
<1> QED
  BY <1>1, <1>2, <1>3, LatestInduction, SnapshotsAreBacked, PTL DEF Spec

=============================================================================
