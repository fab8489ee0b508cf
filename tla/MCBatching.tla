------------------------------ MODULE MCBatching ------------------------------
(* Model-checking instances of Batching. *)
EXTENDS Batching, TLC

(* Callers are alike, and so are flusher slots. *)
TaskSymmetry == Permutations(Callers) \cup Permutations(Flushers)
===============================================================================
