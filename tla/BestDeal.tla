------------------------------ MODULE BestDeal ------------------------------
(***************************************************************************)
(* Grading a product's best offer against its price history, as            *)
(* compute_best_deal does it.  The rows come from one query and the lowest *)
(* price from a later one, so the two are parameters of their own.         *)
(***************************************************************************)
EXTENDS OfferRow, Integers

\* min(prices, default=None).
Least(prices) ==
  IF prices = {} THEN None
  ELSE CHOOSE p \in prices : \A q \in prices : p <= q

\* Mutant: the window starts after its first moment.
LowestAfterStart(history, since) ==
  Least({h.price : h \in {i \in history : i.at > since}})

\* The window keeps an observation made exactly at its start.
LowestInWindow(history, since) ==
  Least({h.price : h \in {i \in history : i.at >= since}})

\* _verdict; prices are in cents, so the 5% band is compared without rounding.
Verdict(best, low, target) ==
  CASE best = None                             -> "no_data"
    [] best # None /\ target # None /\ best <= target -> "below_target"
    [] OTHER ->
         IF low = None THEN "fair"
         ELSE IF best <= low THEN "all_time_low"
         ELSE IF 100 * best <= 105 * low THEN "great" ELSE "fair"

\* The deals compute_best_deal may return: offers of one price tie, and the
\* order of the query's rows decides between them.
Deals(rows, offers, low, target) ==
  LET best == BestPrice(rows, offers)
  IN  { [offer |-> o, price |-> best, low |-> low,
         verdict |-> Verdict(best, low, target)] :
        o \in IF best = None THEN {None}
              ELSE {p \in Priced(rows, offers) : rows[p].price = best} }
=============================================================================
