------------------------- MODULE DBRunnerRefinement -------------------------
(***************************************************************************)
(* The runners of a database implement DatabaseRequests, as long as one    *)
(* bridge thread calls execute(), no open is asked for while another one   *)
(* is unanswered or after one has failed, and onDestroy() is not called.   *)
(***************************************************************************)
EXTENDS DBRunner

\* The database is connected from the moment a runner has its connection until
\* it has removed itself from the map.
Connected == dbrmap # None /\ pc[dbrmap] \notin {"start", "failed"}

\* A request that finds a runner to use again, or nothing to close, is served
\* when it reads the map; a new open when the connection is made; another close
\* or delete when the runner is out of the map.
ServedOnBridge(r) ==
  \E b \in Bridges :
    /\ bridge[b] = r
    /\ IF kind[r] = "open" THEN found[b] # None
       ELSE kind[r] # "batch" /\ found[b] = None

ServedByRunner(r) ==
  \/ pc[r] = "opened"
  \/ \E s \in Requests : pc[s] = "answer" /\ dbq[s] = r

Told(r) == answers[r] # << >> /\ kind[r] # "batch"
Refused(r) == kind[r] = "open" /\ answers[r] = <<"error">>

Served ==
  {r \in Requests : ServedOnBridge(r) \/ ServedByRunner(r) \/ (Told(r) /\ ~Refused(r))}

Database == INSTANCE DatabaseRequests WITH
  asked     <- kind,
  served    <- Served,
  told      <- answers,
  connected <- Connected

\* Every behaviour of the runners is one of DatabaseRequests.
ImplementsDatabaseRequests == Database!Spec

=============================================================================
