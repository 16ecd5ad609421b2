------------------------------ MODULE PriceBook ------------------------------
(***************************************************************************)
(* What the price pipeline promises to the readers of a product's offers,  *)
(* without tasks, locks, sessions or caches: one entry per listing, with   *)
(* the log of its observed prices, the current price, and how far the      *)
(* entry may be relied on.                                                 *)
(***************************************************************************)
EXTENDS Sequences

CONSTANTS
  Offer, Price, None,
  Relists     \* a listing that ended may come back

VARIABLE book

\* trusted:  the last news of the listing was a price it can be bought at
\* doubted:  out of stock, or fetching it was given up
\* delisted: the source said it no longer exists
\* returned: and then a price it can be bought at, but no search found it yet
Entry == [standing : {"absent", "trusted", "doubted", "delisted", "returned"},
          price    : Price \cup {None},
          log      : Seq(Price)]

Absent == [standing |-> "absent", price |-> None, log |-> <<>>]
Fresh  == [standing |-> "trusted", price |-> None, log |-> <<>>]

Gone == {"delisted", "returned"}

\* News of a listing that can or cannot be bought: it does not list it again.
Seen(standing, available) ==
  IF standing \in Gone
  THEN IF available THEN "returned" ELSE "delisted"
  ELSE IF available THEN "trusted" ELSE "doubted"

Observed(entry, p, available) ==
  [standing |-> Seen(entry.standing, available),
   price    |-> p,
   log      |-> Append(entry.log, p)]

Init ==
  \/ book = [o \in Offer |-> Absent]
  \/ \E o \in Offer, p \in Price, available \in BOOLEAN :
       book = [x \in Offer |-> IF x = o THEN Observed(Fresh, p, available)
                               ELSE Absent]

\* A price was read: only a listing the book still carries can have one,
\* unless listings come back.
Observe(o, p, available) ==
  /\ book[o].standing # "absent"
  /\ book[o].standing \in Gone => Relists
  /\ book' = [book EXCEPT ![o] = Observed(@, p, available)]

\* Reading it was given up: the price stays, the trust goes.
Doubt(o) ==
  /\ book[o].standing \in {"trusted", "returned"}
  /\ book' = [book EXCEPT ![o].standing = Seen(@, FALSE)]

Delist(o) ==
  /\ book[o].standing \in {"trusted", "doubted", "returned"}
  /\ book' = [book EXCEPT ![o].standing = "delisted"]

\* A search turned up listings: unknown ones enter the book, and one that was
\* gone is carried again, with the price and the trust it has.
Discover(found) ==
  /\ (\E o \in found : book[o].standing \in Gone) => Relists
  /\ book' = [o \in Offer |->
                IF o \notin found THEN book[o]
                ELSE CASE book[o].standing = "absent"   -> Fresh
                       [] book[o].standing = "delisted" ->
                            [book[o] EXCEPT !.standing = "doubted"]
                       [] book[o].standing = "returned" ->
                            [book[o] EXCEPT !.standing = "trusted"]
                       [] OTHER -> book[o]]

\* The product is deleted, and its entries with it.
Erase == book' = [o \in Offer |-> Absent]

Next ==
  \/ \E o \in Offer, p \in Price, available \in BOOLEAN : Observe(o, p, available)
  \/ \E o \in Offer : Doubt(o) \/ Delist(o)
  \/ \E found \in SUBSET Offer : Discover(found)
  \/ Erase

Spec == Init /\ [][Next]_book

=============================================================================
