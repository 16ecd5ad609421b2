--------------------------- MODULE ItemPageProofs ---------------------------
(* Theorems about BestDeal and ItemPage, for every value of their constants. *)
EXTENDS ItemPage, WellFoundedInduction, TLAPS

-----------------------------------------------------------------------------
(* Grading.                                                                *)

\* A set of prices that is not empty has a least one.
LEMMA LeastPrice ==
  ASSUME NEW S \in SUBSET Price, S # {}
  PROVE  Least(S) \in S /\ \A q \in S : Least(S) <= q
<1> DEFINE Less == OpToRel(<, Nat)
<1>1. S \in SUBSET Nat
  BY PriceAssumption
<1>2. \E p \in S : \A q \in S : ~(<<q, p>> \in Less)
  BY <1>1, NatLessThanWellFounded, WFMin
<1>3. \A p, q \in Nat : ~(<<q, p>> \in Less) => p <= q
  BY DEF OpToRel
<1>4. \E p \in S : \A q \in S : p <= q
  BY <1>1, <1>2, <1>3
<1> QED
  BY <1>4 DEF Least

\* The low of a window is a price of the history, and no later price in the
\* window is below it.
LEMMA LowOfWindow ==
  ASSUME NEW H \in SUBSET Point, NEW since
  PROVE  /\ LowestInWindow(H, since) \in Price \cup {None}
         /\ \A h \in H :
              h.at >= since => /\ LowestInWindow(H, since) # None
                               /\ LowestInWindow(H, since) <= h.price
<1> DEFINE W == {h.price : h \in {i \in H : i.at >= since}}
<1>1. W \in SUBSET Price
  BY DEF Point
<1>2. LowestInWindow(H, since) = Least(W)
  BY DEF LowestInWindow
<1>3. \A h \in H : h.at >= since => h.price \in W
  OBVIOUS
<1> HIDE DEF W
<1>4. CASE W = {}
  BY <1>2, <1>3, <1>4 DEF Least
<1>5. CASE W # {}
  BY <1>1, <1>2, <1>3, <1>5, LeastPrice, NoneAssumption
<1> QED
  BY <1>4, <1>5

LEMMA BestIsPriced ==
  ASSUME NEW R \in [Offer -> Row]
  PROVE  BestPrice(R, Offer) \in Price \cup {None}
  BY DEF BestPrice, Priced, Row

LEMMA VerdictTyped ==
  ASSUME NEW best, NEW low, NEW goal
  PROVE  Verdict(best, low, goal) \in
           {"no_data", "below_target", "all_time_low", "great", "fair"}
  BY DEF Verdict

\* A deal is of an offer that was priced so, with the low it was given.
LEMMA DealOf ==
  ASSUME NEW R \in [Offer -> Row], NEW low \in Price \cup {None}, NEW goal,
         NEW d \in Deals(R, Offer, low, goal)
  PROVE  /\ d \in Deal
         /\ d.low = low
         /\ d.price # None => d.offer \in Offer /\ R[d.offer].price = d.price
<1> DEFINE best == BestPrice(R, Offer)
<1>1. PICK o \in IF best = None THEN {None}
                 ELSE {p \in Priced(R, Offer) : R[p].price = best} :
        d = [offer |-> o, price |-> best, low |-> low,
             verdict |-> Verdict(best, low, goal)]
  BY DEF Deals
<1>2. o \in Offer \cup {None} /\ (best # None => o \in Offer /\ R[o].price = best)
  BY <1>1 DEF Priced
<1>3. best \in Price \cup {None}
  BY BestIsPriced
<1> HIDE DEF best
<1> QED
  BY <1>1, <1>2, <1>3, VerdictTyped DEF Deal

\* min() over the offers with a price: it is one of theirs, and none is lower.
LEMMA BestIsLeast ==
  ASSUME NEW R \in [Offer -> Row]
  PROVE  IF Priced(R, Offer) = {}
         THEN BestPrice(R, Offer) = None
         ELSE /\ \E o \in Priced(R, Offer) : R[o].price = BestPrice(R, Offer)
              /\ \A o \in Priced(R, Offer) : BestPrice(R, Offer) <= R[o].price
<1> DEFINE prices == {R[o].price : o \in Priced(R, Offer)}
           least  == {p \in prices : \A q \in prices : p <= q}
<1>1. prices \in SUBSET Price
  BY DEF Priced, Row
<1>2. BestPrice(R, Offer) = IF least = {} THEN None ELSE CHOOSE p \in least : TRUE
  BY DEF BestPrice
<1>3. CASE Priced(R, Offer) = {}
  BY <1>2, <1>3
<1>4. CASE Priced(R, Offer) # {}
  <2>1. prices # {}
    BY <1>4
  <2>2. Least(prices) \in least
    <3> HIDE DEF prices
    <3> QED
      BY <1>1, <2>1, LeastPrice
  <2>3. BestPrice(R, Offer) \in least
    BY <1>2, <2>2
  <2> QED
    BY <1>4, <2>3
<1> QED
  BY <1>3, <1>4

InWindow(H, since) == {h \in H : h.at >= since}

\* The low is None when the window is empty, and else the least price in it.
LEMMA LowIsLeast ==
  ASSUME NEW H \in SUBSET Point, NEW since
  PROVE  IF InWindow(H, since) = {}
         THEN LowestInWindow(H, since) = None
         ELSE /\ \E h \in InWindow(H, since) : h.price = LowestInWindow(H, since)
              /\ \A h \in InWindow(H, since) : LowestInWindow(H, since) <= h.price
<1> DEFINE W == {h.price : h \in InWindow(H, since)}
<1>1. W \in SUBSET Price
  BY DEF Point, InWindow
<1>2. LowestInWindow(H, since) = Least(W)
  BY DEF LowestInWindow, InWindow
<1>3. CASE InWindow(H, since) = {}
  <2>1. W = {}
    BY <1>3
  <2> QED
    BY <1>2, <1>3, <2>1 DEF Least
<1>4. CASE InWindow(H, since) # {}
  <2>1. W # {}
    BY <1>4
  <2>2. Least(W) \in W /\ \A q \in W : Least(W) <= q
    <3> HIDE DEF W
    <3> QED
      BY <1>1, <2>1, LeastPrice
  <2> QED
    BY <1>2, <1>4, <2>2
<1> QED
  BY <1>3, <1>4

(***************************************************************************)
(* compute_best_deal's "pick the cheapest available offer and grade it     *)
(* against recent history", said of every offer and every observation: the *)
(* pick is available and none that is available is cheaper; each verdict   *)
(* speaks of all observations of the window, and "great" of 5% of them.    *)
(***************************************************************************)
THEOREM VerdictsMeanWhatTheySay ==
  ASSUME NEW R \in [Offer -> Row], NEW H \in SUBSET Point, NEW since,
         NEW goal \in Price \cup {None},
         NEW d \in Deals(R, Offer, LowestInWindow(H, since), goal)
  PROVE  /\ d.price = None <=> Priced(R, Offer) = {}
         /\ d.price # None =>
              /\ d.offer \in Priced(R, Offer) /\ R[d.offer].price = d.price
              /\ \A o \in Priced(R, Offer) : d.price <= R[o].price
         /\ d.verdict = "no_data" <=> d.price = None
         /\ d.verdict = "below_target" => goal # None /\ d.price <= goal
         /\ d.verdict = "all_time_low" =>
              /\ InWindow(H, since) # {}
              /\ \A h \in InWindow(H, since) : d.price <= h.price
         /\ d.verdict = "great" =>
              /\ \E h \in InWindow(H, since) : h.price < d.price
              /\ \A h \in InWindow(H, since) : 100 * d.price <= 105 * h.price
         /\ d.verdict = "fair" =>
              \/ InWindow(H, since) = {}
              \/ \E h \in InWindow(H, since) : 105 * h.price < 100 * d.price
<1> DEFINE best == BestPrice(R, Offer)
           low  == LowestInWindow(H, since)
           W    == InWindow(H, since)
<1>1. /\ d.price = best /\ d.verdict = Verdict(best, low, goal)
      /\ best # None => d.offer \in Priced(R, Offer) /\ R[d.offer].price = best
  BY DEF Deals
<1>2. best \in Price \cup {None} /\ low \in Price \cup {None}
  BY BestIsPriced, LowOfWindow
<1>3. IF Priced(R, Offer) = {} THEN best = None
      ELSE best # None /\ \A o \in Priced(R, Offer) : best <= R[o].price
  BY BestIsLeast, NoneAssumption DEF Priced, Row
<1>4. /\ \A h \in W : h.price \in Nat
      /\ Price \subseteq Nat /\ None \notin Price
      /\ IF W = {} THEN low = None
         ELSE /\ low # None /\ \E h \in W : h.price = low
              /\ \A h \in W : low <= h.price
  <2>1. \A h \in W : h.price \in Price
    BY DEF Point, InWindow
  <2> QED
    BY <2>1, LowIsLeast, PriceAssumption, NoneAssumption
<1> HIDE DEF best, low, W
<1>5. d.verdict = "no_data" <=> best = None
  BY <1>1 DEF Verdict
<1>6. d.verdict = "below_target" => goal # None /\ best <= goal
  BY <1>1 DEF Verdict
<1>7. d.verdict = "all_time_low" => best # None /\ low # None /\ best <= low
  BY <1>1 DEF Verdict
<1>8. d.verdict = "great" =>
        best # None /\ low # None /\ ~(best <= low) /\ 100 * best <= 105 * low
  BY <1>1 DEF Verdict
<1>9. d.verdict = "fair" =>
        best # None /\ (low = None \/ ~(100 * best <= 105 * low))
  BY <1>1 DEF Verdict
<1>10. d.verdict = "all_time_low" => W # {} /\ \A h \in W : best <= h.price
  BY <1>2, <1>4, <1>7
<1>11. d.verdict = "great" =>
         /\ \E h \in W : h.price < best
         /\ \A h \in W : 100 * best <= 105 * h.price
  BY <1>2, <1>4, <1>8
<1>12. d.verdict = "fair" => W = {} \/ \E h \in W : 105 * h.price < 100 * best
  BY <1>2, <1>4, <1>9
<1> QED
  BY <1>1, <1>3, <1>5, <1>6, <1>10, <1>11, <1>12 DEF best, W

-----------------------------------------------------------------------------
(***************************************************************************)
(* The inductive invariant: the variables are typed, and every price a row *)
(* shows, in the table or as a session has loaded it, is in the history.   *)
(***************************************************************************)
Backed(R) ==
  \A o \in Offer :
    R[o].price # None => \E h \in history : h.offer = o /\ h.price = R[o].price

Backs == Backed(rows) /\ \A c \in Client : Backed(reading[c].rows)

IInv == TypeOK /\ Backs

\* A row after a fetch shows the price it showed before, or the one observed.
LEMMA RecordTyped ==
  ASSUME NEW current \in Row, NEW loaded \in Row, NEW observed \in Observation
  PROVE  /\ RecordPrice(current, loaded, observed) \in Row
         /\ RecordPrice(current, loaded, observed).price \in
              {current.price, observed.price}
  BY DEF Row, Observation, RecordPrice, Flushed

LEMMA MarkTyped ==
  ASSUME NEW current \in Row, NEW loaded \in Row
  PROVE  /\ MarkOfferDelisted(current, loaded) \in Row
         /\ MarkOfferDelisted(current, loaded).price = current.price
         /\ MarkOfferUnavailable(current, loaded) \in Row
         /\ MarkOfferUnavailable(current, loaded).price = current.price
  BY DEF Row, MarkOfferDelisted, MarkOfferUnavailable, Flushed

LEMMA NothingTyped ==
  /\ NewRow \in Row /\ NewRow.price = None
  /\ Nothing \in Loaded
  /\ NoDeal \in Deal
  /\ Backed(Nothing.rows) /\ Backed(NewRows)
<1>1. NewRow \in Row /\ NewRow.price = None
  BY DEF NewRow, Row
<1>2. NewRows \in [Offer -> Row] /\ \A o \in Offer : NewRows[o].price = None
  BY <1>1 DEF NewRows
<1>3. Nothing \in Loaded /\ Nothing.rows = NewRows
  BY <1>2 DEF Nothing, Loaded, Targets
<1>4. NoDeal \in Deal
  BY DEF NoDeal, Deal
<1> QED
  BY <1>1, <1>2, <1>3, <1>4 DEF Backed

\* Nothing a session has loaded changes, except that one loads the rows or
\* forgets what it had.
LEMMA ReadingBacked ==
  ASSUME IInv, UNCHANGED <<rows, history>>, NEW c \in Client,
         \/ UNCHANGED reading
         \/ reading' = [reading EXCEPT ![c] = Nothing]
         \/ reading' = [reading EXCEPT ![c] = [rows |-> rows, target |-> target]]
  PROVE  reading' \in [Client -> Loaded] /\ Backs'
<1> DEFINE l == [rows |-> rows, target |-> target]
<1>1. l \in Loaded /\ l.rows = rows
  BY DEF IInv, TypeOK, Loaded
<1>2. /\ reading \in [Client -> Loaded]
      /\ Backed(rows) /\ \A b \in Client : Backed(reading[b].rows)
  BY DEF IInv, TypeOK, Backs
<1> HIDE DEF l
<1>3. /\ reading' \in [Client -> Loaded]
      /\ \A b \in Client : reading'[b] \in {reading[b], Nothing, l}
  BY <1>1, <1>2, NothingTyped DEF l
<1>4. \A b \in Client : Backed(reading'[b].rows)
  BY <1>1, <1>2, <1>3, NothingTyped
<1>5. Backed(rows)' /\ \A b \in Client : Backed(reading[b].rows)'
  BY <1>2, <1>4 DEF Backed
<1> QED
  BY <1>3, <1>5 DEF Backs

Points == {"idle", "loaded", "missed", "graded", "page"} \cup Streams

\* A client goes to a point, with the same messages waiting as before or none.
LEMMA GoesTo ==
  ASSUME TypeOK, NEW c \in Client, NEW p \in Points, pc' = [pc EXCEPT ![c] = p],
         \/ UNCHANGED inbox /\ (inbox[c] = 0 \/ p \in Streams)
         \/ inbox' = [inbox EXCEPT ![c] = 0],
         dead' \in {dead, dead \ {c}}
  PROVE  /\ pc' \in [Client -> Points]
         /\ inbox' \in [Client -> Nat]
         /\ dead' \subseteq Client
         /\ \A v \in Client : inbox'[v] > 0 => pc'[v] \in Streams /\ v \notin dead'
<1>1. /\ pc \in [Client -> Points] /\ inbox \in [Client -> Nat]
      /\ dead \subseteq Client
      /\ \A v \in Client : inbox[v] > 0 => pc[v] \in Streams /\ v \notin dead
  BY DEF TypeOK, Points
<1>2. /\ pc' \in [Client -> Points] /\ pc'[c] = p
      /\ \A v \in Client \ {c} : pc'[v] = pc[v]
  BY <1>1
<1>3. /\ inbox' \in [Client -> Nat]
      /\ inbox'[c] > 0 => p \in Streams /\ inbox[c] > 0
      /\ \A v \in Client \ {c} : inbox'[v] = inbox[v]
  BY <1>1
<1> QED
  BY <1>1, <1>2, <1>3

\* A client without a stream has no messages waiting.
LEMMA NoStreamNoMessages ==
  ASSUME TypeOK, NEW c \in Client, pc[c] \notin Streams
  PROVE  inbox[c] = 0
<1>1. inbox[c] \in Nat /\ ~(inbox[c] > 0)
  BY DEF TypeOK
<1> QED
  BY <1>1

LEMMA LoadItemKeeps == ASSUME IInv, NEW c \in Client, LoadItem(c) PROVE IInv'
<1>1. reading' \in [Client -> Loaded] /\ Backs'
  BY ReadingBacked DEF LoadItem, Load, dbVars
<1>2. /\ pc' \in [Client -> Points]
      /\ \A v \in Client : inbox'[v] > 0 => pc'[v] \in Streams /\ v \notin dead'
  BY GoesTo, NoStreamNoMessages DEF LoadItem, Load, IInv, Points, Streams
<1> QED
  BY <1>1, <1>2 DEF LoadItem, IInv, TypeOK, Points, dbVars, redisVars, bounds

LEMMA LookupDealKeeps == ASSUME IInv, NEW c \in Client, LookupDeal(c) PROVE IInv'
<1>1. reading' \in [Client -> Loaded] /\ Backs'
  BY ReadingBacked DEF LookupDeal, Answer, dbVars
<1>2. /\ pc' = [pc EXCEPT ![c] = "missed"] \/ pc' = [pc EXCEPT ![c] = "idle"]
      /\ pc[c] = "loaded" /\ UNCHANGED <<inbox, dead>>
  BY DEF LookupDeal, Answer
<1>3. /\ pc' \in [Client -> Points]
      /\ \A v \in Client : inbox'[v] > 0 => pc'[v] \in Streams /\ v \notin dead'
  BY <1>2, GoesTo, NoStreamNoMessages DEF IInv, Points, Streams
<1> QED
  BY <1>1, <1>3 DEF LookupDeal, IInv, TypeOK, Points, dbVars, redisVars, bounds

LEMMA ComputedDeal ==
  ASSUME IInv, NEW c \in Client,
         NEW d \in Deals(reading[c].rows, Offer, LowestInWindow(history, Since),
                         reading[c].target)
  PROVE  d \in Deal /\ CountsItself(d)
<1> DEFINE low == LowestInWindow(history, Since)
           R == reading[c].rows
<1>1. R \in [Offer -> Row] /\ Backed(R) /\ history \in SUBSET Point
  BY DEF IInv, TypeOK, Backs, Loaded
<1>2. /\ low \in Price \cup {None}
      /\ \A h \in history : h.at >= Since => low # None /\ low <= h.price
  BY <1>1, LowOfWindow
<1> HIDE DEF low, R
<1>3. /\ d \in Deal /\ d.low = low
      /\ d.price # None => d.offer \in Offer /\ R[d.offer].price = d.price
  BY <1>1, <1>2, DealOf DEF low, R
<1>4. ASSUME d.price # None
      PROVE  \E h \in history :
               /\ h.offer = d.offer /\ h.price = d.price
               /\ h.at >= Since => d.low # None /\ d.low <= d.price
  <2>1. PICK h \in history : h.offer = d.offer /\ h.price = d.price
    BY <1>1, <1>3, <1>4 DEF Backed
  <2> QED
    BY <1>2, <1>3, <2>1
<1> QED
  BY <1>3, <1>4 DEF CountsItself

LEMMA ComputeDealKeeps == ASSUME IInv, NEW c \in Client, ComputeDeal(c) PROVE IInv'
<1>1. reading' \in [Client -> Loaded] /\ Backs'
  BY ReadingBacked DEF ComputeDeal, dbVars
<1>2. /\ pc' \in [Client -> Points]
      /\ \A v \in Client : inbox'[v] > 0 => pc'[v] \in Streams /\ v \notin dead'
  BY GoesTo, NoStreamNoMessages DEF ComputeDeal, IInv, Points, Streams
<1>3. deal' \in [Client -> Deal]
  BY ComputedDeal DEF ComputeDeal, IInv, TypeOK
<1> QED
  BY <1>1, <1>2, <1>3
     DEF ComputeDeal, IInv, TypeOK, Points, dbVars, redisVars, bounds

LEMMA StoreDealKeeps == ASSUME IInv, NEW c \in Client, StoreDeal(c) PROVE IInv'
<1>1. reading' \in [Client -> Loaded] /\ Backs'
  BY ReadingBacked DEF StoreDeal, Answer, dbVars
<1>2. /\ pc' \in [Client -> Points]
      /\ \A v \in Client : inbox'[v] > 0 => pc'[v] \in Streams /\ v \notin dead'
  BY GoesTo, NoStreamNoMessages DEF StoreDeal, Answer, IInv, Points, Streams
<1>3. deal' \in [Client -> Deal] /\ cache' \in Deal \cup {None}
  BY NothingTyped DEF StoreDeal, IInv, TypeOK
<1> QED
  BY <1>1, <1>2, <1>3
     DEF StoreDeal, IInv, TypeOK, Points, dbVars, bounds

\* The page and its stream.
LEMMA OpenPageKeeps == ASSUME IInv, NEW c \in Client, OpenPage(c) PROVE IInv'
<1>1. reading' \in [Client -> Loaded] /\ Backs'
  BY ReadingBacked DEF OpenPage, dbVars
<1>2. /\ pc' \in [Client -> Points]
      /\ \A v \in Client : inbox'[v] > 0 => pc'[v] \in Streams /\ v \notin dead'
  BY GoesTo, NoStreamNoMessages DEF OpenPage, IInv, Points, Streams
<1>3. shown' \in [Client -> [Offer -> Row]]
  BY DEF OpenPage, IInv, TypeOK
<1> QED
  BY <1>1, <1>2, <1>3 DEF OpenPage, IInv, TypeOK, Points, dbVars, redisVars, bounds

LEMMA ConnectKeeps == ASSUME IInv, NEW c \in Client, Connect(c) PROVE IInv'
<1>1. reading' \in [Client -> Loaded] /\ Backs'
  BY ReadingBacked DEF Connect, dbVars
<1>2. /\ pc' \in [Client -> Points] /\ dead' \subseteq Client
      /\ \A v \in Client : inbox'[v] > 0 => pc'[v] \in Streams /\ v \notin dead'
  BY GoesTo, NoStreamNoMessages DEF Connect, IInv, Points, Streams
<1> QED
  BY <1>1, <1>2 DEF Connect, IInv, TypeOK, Points, dbVars, redisVars, bounds

LEMMA ReadOffersKeeps == ASSUME IInv, NEW c \in Client, ReadOffers(c) PROVE IInv'
<1>1. reading' \in [Client -> Loaded] /\ Backs'
  BY ReadingBacked DEF ReadOffers, Load, dbVars
<1>2. /\ pc' \in [Client -> Points]
      /\ \A v \in Client : inbox'[v] > 0 => pc'[v] \in Streams /\ v \notin dead'
  BY GoesTo DEF ReadOffers, Load, IInv, Points, Streams
<1> QED
  BY <1>1, <1>2 DEF ReadOffers, IInv, TypeOK, Points, dbVars, redisVars, bounds

LEMMA SendFrameKeeps == ASSUME IInv, NEW c \in Client, SendFrame(c) PROVE IInv'
<1>1. reading' \in [Client -> Loaded] /\ Backs'
  BY ReadingBacked DEF SendFrame, dbVars
<1>2. /\ pc' \in [Client -> Points]
      /\ \A v \in Client : inbox'[v] > 0 => pc'[v] \in Streams /\ v \notin dead'
  BY GoesTo DEF SendFrame, IInv, Points, Streams
<1>3. shown' \in [Client -> [Offer -> Row]]
  BY DEF SendFrame, IInv, TypeOK, Loaded
<1> QED
  BY <1>1, <1>2, <1>3 DEF SendFrame, IInv, TypeOK, Points, dbVars, redisVars, bounds

LEMMA NextMessageKeeps == ASSUME IInv, NEW c \in Client, NextMessage(c) PROVE IInv'
<1>1. reading' \in [Client -> Loaded] /\ Backs'
  BY ReadingBacked DEF NextMessage, dbVars
<1>2. /\ pc' \in [Client -> Points] /\ pc'[c] \in Streams
      /\ \A v \in Client \ {c} : pc'[v] = pc[v]
  BY DEF NextMessage, IInv, TypeOK, Points, Streams
<1>3. /\ inbox' \in [Client -> Nat] /\ inbox[c] > 0
      /\ \A v \in Client \ {c} : inbox'[v] = inbox[v]
  BY DEF NextMessage, IInv, TypeOK
<1>4. \A v \in Client : inbox'[v] > 0 => pc'[v] \in Streams /\ v \notin dead'
  BY <1>2, <1>3 DEF NextMessage, IInv, TypeOK
<1> QED
  BY <1>1, <1>2, <1>3, <1>4
     DEF NextMessage, IInv, TypeOK, Points, dbVars, redisVars, bounds

LEMMA StreamEndsKeeps ==
  ASSUME IInv, NEW c \in Client, StreamFails(c) \/ StreamCut(c) \/ ClosePage(c)
  PROVE  IInv'
<1>1. PICK p \in {"page", "idle"} : EndStream(c, p)
  BY DEF StreamFails, StreamCut, ClosePage
<1>2. reading' \in [Client -> Loaded] /\ Backs'
  BY <1>1, ReadingBacked DEF EndStream, dbVars
<1>3. /\ pc' \in [Client -> Points] /\ dead' \subseteq Client
      /\ inbox' \in [Client -> Nat]
      /\ \A v \in Client : inbox'[v] > 0 => pc'[v] \in Streams /\ v \notin dead'
  BY <1>1, GoesTo DEF EndStream, IInv, Points, Streams
<1>4. shown' \in [Client -> [Offer -> Row]]
  BY NothingTyped DEF StreamFails, StreamCut, ClosePage, NewRows, IInv, TypeOK
<1>5. breaks' \subseteq {"outage", "stream", "crash"}
  BY DEF StreamFails, StreamCut, ClosePage, Breaks, IInv, TypeOK
<1> QED
  BY <1>1, <1>2, <1>3, <1>4, <1>5
     DEF EndStream, IInv, TypeOK, Points, dbVars, redisVars

-----------------------------------------------------------------------------
(* The workers and the rest of the world.                                  *)

\* Rows move by fetches, and the history only grows.
LEMMA RowsBacked ==
  ASSUME IInv, history \subseteq history', NEW o \in Offer, NEW u \in Row,
         rows' = [rows EXCEPT ![o] = u], UNCHANGED reading,
         \/ u.price = rows[o].price
         \/ \E h \in history' : h.offer = o /\ h.price = u.price
  PROVE  rows' \in [Offer -> Row] /\ Backs'
<1>1. /\ rows \in [Offer -> Row] /\ Backed(rows)
      /\ \A c \in Client : Backed(reading[c].rows)
  BY DEF IInv, TypeOK, Backs
<1>2. /\ rows' \in [Offer -> Row] /\ rows'[o] = u
      /\ \A p \in Offer \ {o} : rows'[p] = rows[p]
  BY <1>1
<1>3. ASSUME NEW p \in Offer, rows'[p].price # None
      PROVE  \E h \in history' : h.offer = p /\ h.price = rows'[p].price
  BY <1>1, <1>2, <1>3 DEF Backed
<1>4. Backed(rows)'
  BY <1>3 DEF Backed
<1>5. \A c \in Client : Backed(reading[c].rows)'
  BY <1>1 DEF Backed
<1> QED
  BY <1>2, <1>4, <1>5 DEF Backs

LEMMA CommitsTyped ==
  ASSUME TypeOK, NEW w \in Worker, NEW from \in {"loaded", "gone", "stale"},
         NEW to \in {"recorded", "givenup"}, Commits(w, from, to),
         rows' \in [Offer -> Row], history' \subseteq Point
  PROVE  TypeOK'
<1>1. [NoFetch EXCEPT !.at = to] \in Fetch
  BY DEF NoFetch, Fetch
<1>2. fetch' \in [Worker -> Fetch]
  BY <1>1 DEF Commits, TypeOK
<1> QED
  BY <1>2 DEF Commits, TypeOK, redisVars, pageVars, bounds

\* A task that is about to commit has loaded the row of an offer.
LEMMA HasLoaded ==
  ASSUME TypeOK, NEW w \in Worker, fetch[w].at \in {"loaded", "gone", "stale"}
  PROVE  /\ fetch[w].offer \in Offer /\ fetch[w].loaded \in Row
         /\ rows[fetch[w].offer] \in Row
  BY DEF TypeOK, Fetch

LEMMA CommitPriceKeeps == ASSUME IInv, NEW w \in Worker, CommitPrice(w) PROVE IInv'
<1> DEFINE o == fetch[w].offer
           l == fetch[w].loaded
<1>1. PICK observed \in Observation, day \in {now, now - 1} \cap Nat :
        /\ rows' = [rows EXCEPT ![o] = RecordPrice(@, l, observed)]
        /\ history' = history \cup {[offer |-> o, price |-> observed.price, at |-> day]}
  BY DEF CommitPrice
<1> DEFINE h == [offer |-> o, price |-> observed.price, at |-> day]
           u == RecordPrice(rows[o], l, observed)
<1>2. o \in Offer /\ l \in Row /\ rows[o] \in Row
  BY HasLoaded DEF CommitPrice, Commits, IInv
<1>3. h \in Point /\ h.offer = o /\ h.price = observed.price
  BY <1>2, WindowAssumption DEF IInv, TypeOK, Point, Observation
<1>4. u \in Row /\ u.price \in {rows[o].price, observed.price}
  BY <1>2, RecordTyped
<1>5. rows' = [rows EXCEPT ![o] = u] /\ history' = history \cup {h}
  BY <1>1
<1>6. UNCHANGED reading
  BY DEF CommitPrice, Commits, pageVars
<1> HIDE DEF h, u, o
<1>7. rows' \in [Offer -> Row] /\ Backs'
  BY <1>2, <1>3, <1>4, <1>5, <1>6, RowsBacked
<1>8. history' \subseteq Point
  BY <1>3, <1>5 DEF IInv, TypeOK
<1> QED
  BY <1>7, <1>8, CommitsTyped DEF CommitPrice, IInv

LEMMA WithdrawKeeps ==
  ASSUME IInv, NEW w \in Worker, Withdraw(w) \/ GiveUp(w)
  PROVE  IInv'
<1> DEFINE o == fetch[w].offer
<1>1. PICK from \in {"gone", "stale"}, to \in {"recorded", "givenup"}, u \in Row :
        /\ o \in Offer /\ Commits(w, from, to) /\ u.price = rows[o].price
        /\ rows' = [rows EXCEPT ![o] = u] /\ UNCHANGED history
  <2>1. o \in Offer /\ fetch[w].loaded \in Row /\ rows[o] \in Row
    BY HasLoaded DEF Withdraw, GiveUp, Commits, IInv
  <2>2. CASE Withdraw(w)
    BY <2>1, <2>2, MarkTyped DEF Withdraw
  <2>3. CASE GiveUp(w)
    BY <2>1, <2>3, MarkTyped DEF GiveUp
  <2> QED
    BY <2>2, <2>3
<1>2. rows' \in [Offer -> Row] /\ Backs'
  BY <1>1, RowsBacked DEF Commits, pageVars
<1>3. history' \subseteq Point
  BY <1>1 DEF IInv, TypeOK
<1> QED
  BY <1>1, <1>2, <1>3, CommitsTyped DEF IInv

\* The steps that touch neither rows nor history nor a session.
LEMMA BacksKept ==
  ASSUME IInv, UNCHANGED <<rows, history, reading>>
  PROVE  Backs'
<1>1. Backed(rows)' /\ \A c \in Client : Backed(reading[c].rows)'
  BY DEF IInv, Backs, Backed
<1> QED
  BY <1>1 DEF Backs

\* A task starts, reads its row again, ends or dies.
LEMMA FetchMovesKeeps ==
  ASSUME IInv, NEW w \in Worker,
         \/ \E o \in Offer : LoadOffer(w, o)
         \/ \E as \in {"gone", "stale"} : Reread(w, as)
         \/ Skip(w) \/ Crash(w)
  PROVE  IInv'
<1>1. Backs'
  BY BacksKept DEF LoadOffer, Reread, Skip, Crash, dbVars, pageVars
<1>2. NoFetch \in Fetch
  BY DEF NoFetch, Fetch
<1>3. fetch' \in [Worker -> Fetch]
  <2>1. ASSUME NEW o \in Offer, LoadOffer(w, o)
        PROVE  fetch' \in [Worker -> Fetch]
    <3>1. [at |-> "loaded", offer |-> o, loaded |-> rows[o]] \in Fetch
      BY DEF Fetch, IInv, TypeOK
    <3> QED
      BY <2>1, <3>1 DEF LoadOffer, IInv, TypeOK
  <2>2. ASSUME NEW as \in {"gone", "stale"}, Reread(w, as)
        PROVE  fetch' \in [Worker -> Fetch]
    <3> DEFINE o == fetch[w].offer
               u == [at |-> as, offer |-> o, loaded |-> rows[o]]
    <3>1. o \in Offer /\ rows[o] \in Row
      BY <2>2, HasLoaded DEF Reread, IInv
    <3>2. u \in Fetch
      BY <3>1 DEF Fetch
    <3>3. fetch' = [fetch EXCEPT ![w] = u]
      BY <2>2 DEF Reread
    <3> QED
      BY <3>2, <3>3 DEF IInv, TypeOK
  <2> QED
    BY <1>2, <2>1, <2>2 DEF Skip, Crash, IInv, TypeOK
<1>4. changes' \in 0..Changes
  BY WindowAssumption DEF LoadOffer, Reread, Skip, Crash, bounds, IInv, TypeOK
<1>5. breaks' \subseteq {"outage", "stream", "crash"}
  BY DEF LoadOffer, Reread, Skip, Crash, bounds, IInv, TypeOK
<1> QED
  BY <1>1, <1>3, <1>4, <1>5 DEF LoadOffer, Reread, Skip, Crash, IInv, TypeOK, dbVars,
                                redisVars, pageVars, bounds

\* A task that has committed carries nothing but where it is.
LEMMA FetchAdvances ==
  ASSUME TypeOK, NEW w \in Worker, fetch[w].at \in {"recorded", "givenup", "forgotten"},
         NEW at \in {"idle", "forgotten"}, fetch' = [fetch EXCEPT ![w].at = at]
  PROVE  fetch' \in [Worker -> Fetch]
<1>1. fetch[w] = [at |-> fetch[w].at, offer |-> None, loaded |-> NewRow]
  BY DEF TypeOK, Fetch
<1>2. [fetch[w] EXCEPT !.at = at] = [at |-> at, offer |-> None, loaded |-> NewRow]
  BY <1>1
<1> QED
  BY <1>2 DEF TypeOK, Fetch

LEMMA InvalidateKeeps == ASSUME IInv, NEW w \in Worker, Invalidate(w) PROVE IInv'
<1>1. Backs'
  BY BacksKept DEF Invalidate, dbVars, pageVars
<1>2. fetch' \in [Worker -> Fetch]
  <2>1. \/ fetch' = [fetch EXCEPT ![w].at = "idle"]
        \/ fetch' = [fetch EXCEPT ![w].at = "forgotten"]
    BY DEF Invalidate
  <2> QED
    BY <2>1, FetchAdvances DEF Invalidate, IInv
<1>3. cache' \in Deal \cup {None}
  BY DEF Invalidate, IInv, TypeOK
<1> QED
  BY <1>1, <1>2, <1>3 DEF Invalidate, IInv, TypeOK, dbVars, pageVars, bounds

LEMMA PublishKeeps == ASSUME IInv, NEW w \in Worker, Publish(w) PROVE IInv'
<1>1. Backs'
  BY BacksKept DEF Publish, dbVars
<1>2. fetch' \in [Worker -> Fetch]
  BY FetchAdvances DEF Publish, IInv
<1>3. /\ inbox' \in [Client -> Nat]
      /\ \A v \in Client : v \notin Subscribed => inbox'[v] = inbox[v]
  BY DEF Publish, IInv, TypeOK
<1>4. \A v \in Client : inbox'[v] > 0 => pc'[v] \in Streams /\ v \notin dead'
  BY <1>3 DEF Publish, Subscribed, IInv, TypeOK
<1> QED
  BY <1>1, <1>2, <1>3, <1>4 DEF Publish, IInv, TypeOK, dbVars, redisVars, bounds

LEMMA WorldKeeps ==
  ASSUME IInv, CacheExpires \/ SetTarget \/ DayPasses \/ OutageEnds
  PROVE  IInv'
<1>1. Backs'
  BY BacksKept DEF CacheExpires, SetTarget, DayPasses, OutageEnds, dbVars, pageVars
<1>2. TypeOK'
  <2>1. CASE CacheExpires
    BY <2>1 DEF CacheExpires, IInv, TypeOK, dbVars, pageVars, bounds
  <2>2. CASE SetTarget
    <3>1. changes' \in 0..Changes
      BY <2>2, WindowAssumption DEF SetTarget, IInv, TypeOK
    <3> QED
      BY <2>2, <3>1 DEF SetTarget, IInv, TypeOK, redisVars, pageVars
  <2>3. CASE DayPasses
    <3>1. now' \in 0..LastDay
      BY <2>3, WindowAssumption DEF DayPasses, IInv, TypeOK
    <3> QED
      BY <2>3, <3>1 DEF DayPasses, IInv, TypeOK, redisVars, pageVars, bounds
  <2>4. CASE OutageEnds
    BY <2>4 DEF OutageEnds, IInv, TypeOK, dbVars, pageVars, bounds
  <2> QED
    BY <2>1, <2>2, <2>3, <2>4
<1> QED
  BY <1>1, <1>2 DEF IInv

LEMMA OutageStartsKeeps == ASSUME IInv, OutageStarts PROVE IInv'
<1>1. Backs'
  BY BacksKept DEF OutageStarts, dbVars
<1>2. /\ inbox' \in [Client -> Nat] /\ dead' \subseteq Client
      /\ \A v \in Client : ~(inbox'[v] > 0)
      /\ breaks' \subseteq {"outage", "stream", "crash"}
  BY DEF OutageStarts, Breaks, IInv, TypeOK
<1> QED
  BY <1>1, <1>2 DEF OutageStarts, IInv, TypeOK, dbVars

-----------------------------------------------------------------------------
LEMMA InvInitially == Init => IInv
<1> SUFFICES ASSUME Init PROVE IInv
  OBVIOUS
<1>1. rows \in [Offer -> Row] /\ shown \in [Client -> [Offer -> Row]]
  BY NothingTyped DEF Init, NewRows
<1>2. /\ deal \in [Client -> Deal] /\ reading \in [Client -> Loaded]
      /\ \A c \in Client : reading[c] = Nothing
  BY NothingTyped DEF Init
<1>3. inbox \in [Client -> Nat] /\ \A v \in Client : ~(inbox[v] > 0)
  BY DEF Init
<1>4. TypeOK
  <2>1. NoFetch \in Fetch
    BY DEF NoFetch, Fetch
  <2> QED
    BY <1>1, <1>2, <1>3, <2>1, WindowAssumption DEF Init, TypeOK, Targets
<1>5. Backs
  BY <1>2, NothingTyped DEF Init, Backs
<1> QED
  BY <1>4, <1>5 DEF IInv

LEMMA InvKept == IInv /\ [Next]_vars => IInv'
<1> SUFFICES ASSUME IInv, [Next]_vars PROVE IInv'
  OBVIOUS
<1>1. CASE UNCHANGED vars
  <2>1. Backs'
    BY <1>1, BacksKept DEF vars, dbVars, pageVars
  <2> QED
    BY <1>1, <2>1 DEF vars, dbVars, redisVars, pageVars, bounds, IInv, TypeOK
<1>2. ASSUME NEW w \in Worker,
             (\E o \in Offer : LoadOffer(w, o)) \/ WorkerStep(w) \/ Crash(w)
      PROVE  IInv'
  BY <1>2, FetchMovesKeeps, CommitPriceKeeps, WithdrawKeeps, InvalidateKeeps,
     PublishKeeps DEF WorkerStep
<1>3. ASSUME NEW c \in Client,
             \/ LoadItem(c) \/ OpenPage(c) \/ ClientStep(c)
             \/ ClosePage(c) \/ StreamCut(c)
      PROVE  IInv'
  BY <1>3, LoadItemKeeps, OpenPageKeeps, LookupDealKeeps, ComputeDealKeeps,
     StoreDealKeeps, ConnectKeeps, ReadOffersKeeps, SendFrameKeeps,
     NextMessageKeeps, StreamEndsKeeps DEF ClientStep
<1> QED
  BY <1>1, <1>2, <1>3, WorldKeeps, OutageStartsKeeps DEF Next

(***************************************************************************)
(* Tables, cache, sessions and pages always have their types, and messages *)
(* wait for live subscriptions only.                                       *)
(***************************************************************************)
THEOREM PageTypeCorrect == Spec => []TypeOK
<1>1. IInv => TypeOK
  BY DEF IInv
<1> QED
  BY <1>1, InvInitially, InvKept, PTL DEF Spec

(***************************************************************************)
(* A deal is graded against a low that counts its own last observation, if *)
(* that is in the window, for any offers, prices, window and number of     *)
(* clients: the rows were loaded before the history is looked at, and the  *)
(* history only grows.                                                     *)
(***************************************************************************)
THEOREM DealsCountThemselves == Spec => GradedAgainstItself
<1>1. IInv /\ [Next]_vars =>
        [\A r \in Client :
           pc[r] = "missed" /\ pc'[r] = "graded" => CountsItself(deal'[r])]_vars
  <2> SUFFICES ASSUME IInv, [Next]_vars, NEW r \in Client,
                      pc[r] = "missed", pc'[r] = "graded"
               PROVE  CountsItself(deal'[r])
    OBVIOUS
  <2>1. ASSUME NEW c \in Client, NEW p \in Points \ {"graded"},
               pc' = [pc EXCEPT ![c] = p]
        PROVE  FALSE
    BY <2>1 DEF IInv, TypeOK
  <2>2. ComputeDeal(r)
    <3>1. pc' # pc
      OBVIOUS
    <3>2. ASSUME NEW w \in Worker,
                 (\E o \in Offer : LoadOffer(w, o)) \/ WorkerStep(w) \/ Crash(w)
          PROVE  FALSE
      BY <3>1, <3>2 DEF LoadOffer, Skip, CommitPrice, Reread, Withdraw, GiveUp,
                        Commits, WorkerStep, Invalidate, Publish, Crash, pageVars
    <3>3. ASSUME CacheExpires \/ SetTarget \/ DayPasses \/ OutageStarts \/ OutageEnds
          PROVE  FALSE
      BY <3>1, <3>3 DEF CacheExpires, SetTarget, DayPasses, OutageStarts,
                        OutageEnds, pageVars
    <3>4. ASSUME NEW c \in Client,
                 LoadItem(c) \/ OpenPage(c) \/ ClosePage(c) \/ StreamCut(c)
          PROVE  FALSE
      BY <2>1, <3>4 DEF LoadItem, Load, OpenPage, ClosePage, StreamCut, EndStream,
                        Points, Streams
    <3>5. ASSUME NEW c \in Client, ClientStep(c), ~ComputeDeal(c)
          PROVE  FALSE
      BY <2>1, <3>5 DEF ClientStep, LookupDeal, StoreDeal, Answer, Connect,
                        ReadOffers, Load, SendFrame, NextMessage, StreamFails,
                        EndStream, Points, Streams
    <3>6. PICK c \in Client : ComputeDeal(c)
      BY <3>1, <3>2, <3>3, <3>4, <3>5 DEF Next, vars, pageVars
    <3>7. c = r
      BY <3>6 DEF ComputeDeal, IInv, TypeOK
    <3> QED
      BY <3>6, <3>7
  <2>3. PICK d \in Deals(reading[r].rows, Offer, LowestInWindow(history, Since),
                         reading[r].target) : deal' = [deal EXCEPT ![r] = d]
    BY <2>2 DEF ComputeDeal
  <2>4. deal'[r] = d
    BY <2>3 DEF IInv, TypeOK
  <2> QED
    BY <2>3, <2>4, ComputedDeal
<1> QED
  BY <1>1, InvInitially, InvKept, PTL DEF Spec, GradedAgainstItself

=============================================================================
