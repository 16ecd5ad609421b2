------------------------------ MODULE OfferRow ------------------------------
(***************************************************************************)
(* The `offers` row as the workers see it, and what the three pipeline     *)
(* functions that write it do to it.                                       *)
(*                                                                         *)
(* An ORM session reads a row once (`loaded`) and at flush time issues an  *)
(* UPDATE for the attributes whose new value differs from the loaded one,  *)
(* and for those only.  The row in the database may have moved on since    *)
(* (`current`), so each writer takes both.                                 *)
(***************************************************************************)
EXTENDS Naturals

CONSTANTS
  Price,    \* prices a source can quote (NUMERIC(12,2), in cents)
  None      \* SQL NULL / Python None

ASSUME PriceAssumption == Price \subseteq Nat
ASSUME NoneAssumption  == None \notin Price

Row == [price : Price \cup {None}, available : BOOLEAN, delisted : BOOLEAN]

\* What Offer(...) inserts: the column defaults.
NewRow == [price |-> None, available |-> TRUE, delisted |-> FALSE]

\* What a source's fetch() returns: the part of NormalizedOffer that is stored.
Observation == [price : Price, available : BOOLEAN]

\* One attribute after a flush that assigned `value` to it.
Flushed(current, loaded, value) == IF value = loaded THEN current ELSE value

\* Mutant: the price is taken over only while the listing can be bought.
RecordPriceOfAvailable(current, loaded, observed) ==
  [current EXCEPT
     !.price     = IF observed.available
                   THEN Flushed(@, loaded.price, observed.price) ELSE @,
     !.available = Flushed(@, loaded.available, observed.available)]

\* record_price: the snapshot half (the history half is an append).
RecordPrice(current, loaded, observed) ==
  [current EXCEPT
     !.price     = Flushed(@, loaded.price, observed.price),
     !.available = Flushed(@, loaded.available, observed.available)]

\* Mutant: delisting leaves is_available alone.
MarkOfferDelistedOnly(current, loaded) ==
  [current EXCEPT !.delisted = Flushed(@, loaded.delisted, TRUE)]

\* mark_offer_delisted.
MarkOfferDelisted(current, loaded) ==
  [current EXCEPT
     !.delisted  = Flushed(@, loaded.delisted, TRUE),
     !.available = Flushed(@, loaded.available, FALSE)]

\* Mutant: giving up on a fetch forgets the price as well.
MarkOfferUnpriced(current, loaded) ==
  [current EXCEPT !.available = FALSE, !.price = None]

\* record_dead_letter with mark_offer_unavailable, in a session of its own.
MarkOfferUnavailable(current, loaded) ==
  [current EXCEPT !.available = Flushed(@, loaded.available, FALSE)]

\* discover_offers, for a found offer that was loaded as delisted.
Revive(current) == [current EXCEPT !.delisted = FALSE]

-----------------------------------------------------------------------------
\* The offers compute_best_deal chooses from, and the price it settles on.
Priced(rows, offers) ==
  {o \in offers : rows[o].available /\ rows[o].price # None}

BestPrice(rows, offers) ==
  LET prices == {rows[o].price : o \in Priced(rows, offers)}
      least  == {p \in prices : \A q \in prices : p <= q}
  IN  IF least = {} THEN None ELSE CHOOSE p \in least : TRUE

=============================================================================
