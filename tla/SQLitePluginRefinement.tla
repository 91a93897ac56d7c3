----------------------- MODULE SQLitePluginRefinement -----------------------
(***************************************************************************)
(* The transaction engine implements SerialTransactions, as long as the    *)
(* application waits for open and close, deletes no database that is in    *)
(* use, and SQLite ends a transaction only at COMMIT and ROLLBACK.         *)
(***************************************************************************)
EXTENDS SQLitePlugin

Holders == {t \in Tx : Holding(t)}

\* The COMMIT or ROLLBACK of a transaction has been executed, and is committed.
EndExecuted(t) == status[t] = "ending" /\ Len(results[t]) = Len(batch[t])
Committed(t) == batch[t][Len(batch[t])] = "COMMIT" /\ ~Failed(t, "COMMIT")

Stage ==
  IF \E t \in Holders : EndExecuted(t)
  THEN IF \E t \in Holders : EndExecuted(t) /\ Committed(t) THEN "committed" ELSE "undone"
  ELSE "running"

Serial == INSTANCE SerialTransactions WITH
  waiting <- queue,
  current <- Holders,
  atomic  <- [t \in Tx |-> Locked(kind[t])],
  stage   <- Stage,
  work    <- dirty,
  store   <- durable,
  told    <- reports

\* Every behaviour of the engine is one of SerialTransactions.
ImplementsSerialTransactions == Serial!Spec

=============================================================================
