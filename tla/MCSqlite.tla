------------------------------- MODULE MCSqlite -------------------------------
(* SqliteRefinement with interchangeable connections. *)
EXTENDS SqliteRefinement, TLC

Symmetry == Permutations(Conns)

=============================================================================
