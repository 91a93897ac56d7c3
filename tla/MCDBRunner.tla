----------------------------- MODULE MCDBRunner -----------------------------
(* Symmetry for the TLC runs of DBRunner. *)
EXTENDS DBRunner, TLC

Symmetry == Permutations(Requests) \cup Permutations(Bridges)

=============================================================================
