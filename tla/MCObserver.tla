------------------------------ MODULE MCObserver ------------------------------
(* The protocol observer on small instances. *)
EXTENDS Observer, TLC

Symmetry == Permutations(Threads) \cup Permutations(Turns) \cup Permutations(Ids)
=============================================================================
