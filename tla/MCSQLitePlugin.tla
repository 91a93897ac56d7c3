--------------------------- MODULE MCSQLitePlugin ---------------------------
(* Model values and symmetry for the TLC runs of SQLitePlugin. *)
EXTENDS SQLitePlugin, TLC

Symmetry == Permutations(Tx)

=============================================================================
