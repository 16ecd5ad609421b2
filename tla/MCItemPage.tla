----------------------------- MODULE MCItemPage -----------------------------
(* Small instances of ItemPage for TLC. *)
EXTENDS ItemPage
=============================================================================
