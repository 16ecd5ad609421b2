------------------------------ MODULE MCModel3D ------------------------------
(* Small instances of Model3D for TLC. *)
EXTENDS Model3D, TLC

Interchangeable ==
  Permutations(Request) \cup Permutations(Worker) \cup Permutations(Product)
=============================================================================
