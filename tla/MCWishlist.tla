----------------------------- MODULE MCWishlist -----------------------------
(* Small instances of Wishlist for TLC. *)
EXTENDS Wishlist, TLC

CONSTANTS e1, e2, t1, t2, k1

\* One product, added by its link, and a token for each of two accounts.
OneProduct ==
  [i \in Item |-> IF i = 1 THEN [owner |-> e1, key |-> k1, linked |-> TRUE,
                                active |-> TRUE, target |-> TRUE] ELSE NoRow]
TokenEach == [t \in Token |-> CASE t = t1 -> e1 [] t = t2 -> e2 [] OTHER -> None]

\* The target form, and a PATCH that resumes.
FormAndPatch == {[target |-> FALSE], [active |-> TRUE]}
=============================================================================
