----------------------------- MODULE MCSourcing -----------------------------
(* Small instances of Sourcing for TLC: the answers stores give. *)
EXTENDS Sourcing, TLC

Bare == [status |-> 200, retryAfter |-> None, wall |-> FALSE, complete |-> TRUE,
         ld |-> <<>>, meta |-> None, microdata |-> None, dom |-> None,
         price |-> None, offers |-> <<>>]

Alike == Permutations(Worker)

\* Offers in each of the places a price may be in, a page of a bot wall that
\* advertises something, a listing that ended, and refusals.
PlainAnswers ==
  { [Bare EXCEPT !.ld = <<None, Junk, 1>>, !.meta = Junk, !.dom = 1, !.price = 1],
    [Bare EXCEPT !.ld = <<1>>, !.wall = TRUE],
    [Bare EXCEPT !.status = 404],
    [Bare EXCEPT !.status = 429, !.retryAfter = 0],
    [Bare EXCEPT !.status = 403] }
=============================================================================
