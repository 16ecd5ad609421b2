--------------------------- MODULE MCNotifications ---------------------------
(* Small instances of Notifications for TLC. *)
EXTENDS Notifications, TLC

CONSTANTS a1, a2, e1, e2

\* One rule of each kind: "any 50% drop", and "below the product's target".
BothRules ==
  a1 :> [rule |-> "pct_drop", threshold |-> 5000] @@
  a2 :> [rule |-> "below_target", threshold |-> None]

OneRule == a1 :> [rule |-> "pct_drop", threshold |-> 5000]

\* 2 -> 1 meets the drop rule; so does its duplicate.
TwoDrops ==
  e1 :> [new |-> 1, previous |-> 2] @@ e2 :> [new |-> 1, previous |-> 2]

Interchangeable == Permutations(Worker)
=============================================================================
