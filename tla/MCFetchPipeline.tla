--------------------------- MODULE MCFetchPipeline ---------------------------
(* Small instances of FetchPipeline for TLC. *)
EXTENDS FetchPipeline, TLC

OneSource == [o \in Offer |-> CHOOSE s \in Source : TRUE]

\* Workers run the same code, and so do requests; neither is distinguished.
Interchangeable == Permutations(Worker) \cup Permutations(Reader)
=============================================================================
