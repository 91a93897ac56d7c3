---------------------- MODULE MCSQLitePluginRefinement ----------------------
(* Symmetry for the TLC runs of SQLitePluginRefinement. *)
EXTENDS SQLitePluginRefinement, TLC

Symmetry == Permutations(Tx)

=============================================================================
