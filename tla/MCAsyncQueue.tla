----------------------------- MODULE MCAsyncQueue -----------------------------
(* Instances of AsyncQueue for TLC. *)
EXTENDS AsyncQueue

Symmetry == Permutations(Threads) \cup Permutations(Items) \cup Permutations(Events)
===============================================================================
