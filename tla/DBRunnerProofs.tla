--------------------------- MODULE DBRunnerProofs ---------------------------
(***************************************************************************)
(* Proofs about DBRunner, for any set of requests.                         *)
(***************************************************************************)
EXTENDS DBRunnerRefinement, SequenceTheorems, TLAPS

\* Answering keeps the type of the answers.
LEMMA ReplyType ==
  ASSUME TypeOK, NEW r \in Requests, NEW answer \in {"success", "error"}, Reply(r, answer)
  PROVE  answers' \in [Requests -> Seq({"success", "error"})]
  BY DEF TypeOK, Reply

LEMMA GoToType ==
  ASSUME TypeOK, NEW r \in Requests, NEW place \in Places, GoTo(r, place)
  PROVE  pc' \in [Requests -> Places]
  BY DEF TypeOK, GoTo

-----------------------------------------------------------------------------
(* Types. *)

\* A runner that has taken a batch, a close or a delete holds a request.
HoldsRequest ==
  \A r \in Requests :
    pc[r] \in {"execute", "close", "remove", "answer"} => dbq[r] \in Requests

LEMMA TypeInduction ==
  ASSUME TypeOK, HoldsRequest, [Next]_vars PROVE TypeOK' /\ HoldsRequest'
<1> USE DBRunnerAssumption
<1>1. ASSUME NEW b \in Bridges, NEW r \in Requests, NEW k \in Kinds, Call(b, r, k)
      PROVE TypeOK' /\ HoldsRequest'
  BY <1>1 DEF Call, TypeOK, HoldsRequest, runnerVars
<1>2. ASSUME NEW b \in Bridges, StartDatabase(b) PROVE TypeOK' /\ HoldsRequest'
  <2>1. bridge[b] \in Requests
    BY <1>2 DEF StartDatabase, TypeOK
  <2>2. answers' \in [Requests -> Seq({"success", "error"})]
    BY <1>2, <2>1, ReplyType DEF StartDatabase, TypeOK
  <2> QED BY <1>2, <2>1, <2>2 DEF StartDatabase, Return, TypeOK, HoldsRequest, Places
<1>3. ASSUME NEW b \in Bridges, PutQuery(b) PROVE TypeOK' /\ HoldsRequest'
  <2>1. bridge[b] \in Requests /\ found[b] \in Requests
    BY <1>3 DEF PutQuery, TypeOK
  <2>2. q' \in [Requests -> Seq(Requests \cup {Stop})]
    BY <1>3, <2>1 DEF PutQuery, TypeOK
  <2> QED BY <1>3, <2>2 DEF PutQuery, Return, TypeOK, HoldsRequest
<1>4. ASSUME NEW b \in Bridges, AnswerWithoutRunner(b) PROVE TypeOK' /\ HoldsRequest'
  <2>1. bridge[b] \in Requests
    BY <1>4 DEF AnswerWithoutRunner, TypeOK
  <2>2. PICK answer \in {"success", "error"} : Reply(bridge[b], answer)
    BY <1>4 DEF AnswerWithoutRunner, AnswersWithoutRunner
  <2>3. answers' \in [Requests -> Seq({"success", "error"})]
    BY <2>1, <2>2, ReplyType
  <2> QED BY <1>4, <2>3 DEF AnswerWithoutRunner, Return, TypeOK, HoldsRequest
<1>5. ASSUME NEW r \in Requests, OpenDatabase(r) PROVE TypeOK' /\ HoldsRequest'
  BY <1>5 DEF OpenDatabase, GoTo, callVars, bridgeVars, TypeOK, HoldsRequest, Places
<1>6. ASSUME NEW r \in Requests, AnswerOpen(r) PROVE TypeOK' /\ HoldsRequest'
  <2>1. answers' \in [Requests -> Seq({"success", "error"})]
    BY <1>6, ReplyType DEF AnswerOpen
  <2> QED BY <1>6, <2>1 DEF AnswerOpen, GoTo, bridgeVars, TypeOK, HoldsRequest, Places
<1>17. ASSUME NEW r \in Requests, AssignMydbc(r) PROVE TypeOK' /\ HoldsRequest'
  BY <1>17 DEF AssignMydbc, GoTo, callVars, bridgeVars, TypeOK, HoldsRequest, Places
<1>7. ASSUME NEW r \in Requests, OpenDatabaseFails(r) PROVE TypeOK' /\ HoldsRequest'
  <2>1. answers' \in [Requests -> Seq({"success", "error"})]
    BY <1>7, ReplyType DEF OpenDatabaseFails
  <2> QED BY <1>7, <2>1 DEF OpenDatabaseFails, GoTo, bridgeVars, TypeOK, HoldsRequest, Places
<1>8. ASSUME NEW r \in Requests, RemoveFailed(r) PROVE TypeOK' /\ HoldsRequest'
  BY <1>8 DEF RemoveFailed, GoTo, callVars, bridgeVars, TypeOK, HoldsRequest, Places
<1>9. ASSUME NEW r \in Requests, Take(r) PROVE TypeOK' /\ HoldsRequest'
  <2>1. q[r] \in Seq(Requests \cup {Stop}) /\ q[r] # << >>
    BY <1>9 DEF Take, TypeOK
  <2>2. Head(q[r]) \in Requests \cup {Stop} /\ Tail(q[r]) \in Seq(Requests \cup {Stop})
    BY <2>1
  <2>3. PICK place \in Places :
          /\ GoTo(r, place)
          /\ place \in {"execute", "close"} => Head(q[r]) # Stop
          /\ place \in {"end", "execute", "close"}
    <3>1. /\ PlaceFor(Head(q[r])) \in {"end", "execute", "close"}
          /\ PlaceFor(Head(q[r])) \in {"execute", "close"} => Head(q[r]) # Stop
      BY DEF PlaceFor
    <3> QED BY <1>9, <3>1 DEF Take, Places
  <2>4. pc' \in [Requests -> Places]
    BY <2>3, GoToType
  <2>5. ASSUME NEW s \in Requests, pc'[s] \in {"execute", "close", "remove", "answer"}
        PROVE  dbq'[s] \in Requests
    <3>1. dbq \in [Requests -> Requests \cup {Stop, None}] /\ pc \in [Requests -> Places]
      BY DEF TypeOK
    <3>2. CASE s = r
      <4>1. place \in {"execute", "close"}
        BY <2>3, <2>5, <3>1, <3>2 DEF GoTo
      <4> QED BY <1>9, <2>2, <2>3, <3>1, <3>2, <4>1 DEF Take
    <3>3. CASE s # r
      BY <1>9, <2>3, <2>5, <3>1, <3>3 DEF Take, GoTo, HoldsRequest
    <3> QED BY <3>2, <3>3
  <2> QED BY <1>9, <2>2, <2>4, <2>5 DEF Take, callVars, bridgeVars, TypeOK, HoldsRequest
<1>10. ASSUME NEW r \in Requests, ExecuteBatch(r) PROVE TypeOK' /\ HoldsRequest'
  <2>1. answers' \in [Requests -> Seq({"success", "error"})]
    BY <1>10, ReplyType DEF ExecuteBatch, HoldsRequest
  <2> QED BY <1>10, <2>1 DEF ExecuteBatch, GoTo, bridgeVars, TypeOK, HoldsRequest, Places
<1>11. ASSUME NEW r \in Requests, CloseDatabaseNow(r) PROVE TypeOK' /\ HoldsRequest'
  BY <1>11 DEF CloseDatabaseNow, Dispose, GoTo, callVars, bridgeVars, TypeOK, HoldsRequest, Places
<1>12. ASSUME NEW r \in Requests, RemoveItself(r) PROVE TypeOK' /\ HoldsRequest'
  BY <1>12 DEF RemoveItself, GoTo, callVars, bridgeVars, TypeOK, HoldsRequest, Places
<1>13. ASSUME NEW r \in Requests, AnswerClose(r) PROVE TypeOK' /\ HoldsRequest'
  <2>1. PICK answer \in {"success", "error"} : Reply(dbq[r], answer)
    BY <1>13 DEF AnswerClose
  <2>2. answers' \in [Requests -> Seq({"success", "error"})]
    BY <1>13, <2>1, ReplyType DEF AnswerClose, HoldsRequest
  <2> QED BY <1>13, <2>2 DEF AnswerClose, GoTo, bridgeVars, TypeOK, HoldsRequest, Places
<1>14. CASE Destroy
  BY <1>14 DEF Destroy, callVars, bridgeVars, runnerVars, TypeOK, HoldsRequest
<1>15. CASE OnDestroy
  <2>1. CASE DestroyCheck
    BY <2>1 DEF DestroyCheck, callVars, bridgeVars, runnerVars, TypeOK, HoldsRequest
  <2>2. CASE DestroyClose
    BY <2>2 DEF DestroyClose, Dispose, callVars, bridgeVars, TypeOK, HoldsRequest
  <2>3. CASE DestroyStop
    <3>1. q' \in [Requests -> Seq(Requests \cup {Stop})]
      BY <2>3 DEF DestroyStop, TypeOK
    <3> QED BY <2>3, <3>1 DEF DestroyStop, callVars, bridgeVars, TypeOK, HoldsRequest
  <2>4. CASE DestroyRemove
    BY <2>4 DEF DestroyRemove, callVars, bridgeVars, runnerVars, TypeOK, HoldsRequest
  <2> QED BY <1>15, <2>1, <2>2, <2>3, <2>4 DEF OnDestroy
<1>16. CASE UNCHANGED vars
  BY <1>16 DEF vars, callVars, bridgeVars, runnerVars, TypeOK, HoldsRequest
<1> QED
  BY <1>1, <1>2, <1>3, <1>4, <1>5, <1>6, <1>7, <1>8, <1>9, <1>10, <1>11, <1>12,
     <1>13, <1>14, <1>15, <1>16, <1>17 DEF Next, Run, Act

\* Every variable keeps its type.
THEOREM RunnerTypeCorrect == Spec => []TypeOK
<1>1. Init => TypeOK /\ HoldsRequest
  BY DEF Init, TypeOK, HoldsRequest, Places
<1>2. TypeOK /\ HoldsRequest /\ [Next]_vars => (TypeOK /\ HoldsRequest)'
  BY TypeInduction
<1> QED BY <1>1, <1>2, PTL DEF Spec

-----------------------------------------------------------------------------
(* One runner at a time. *)

\* One bridge thread calls execute(), and onDestroy() does not come in between.
Undisturbed == (\A a, b \in Bridges : a = b) /\ ~Destroys

Alive == {"start", "opened", "answered", "failed", "take", "execute", "close", "remove"}
Connecting == {"opened", "answered", "take", "execute", "close"}

\* The connection of a runner is open just between openDatabase() and
\* closeDatabaseNow().
ConnectionInv ==
  \A r \in Requests : connection[r] = "open" <=> pc[r] \in Connecting

\* What the bridge thread has read of an empty map is still true: only itself
\* puts runners there.
FoundInv ==
  \A b \in Bridges : bridge[b] # None /\ found[b] = None => dbrmap = None

\* Nothing but requests is queued: Stop comes from onDestroy() only.
NoStopInv == destroy = "idle" /\ \A r \in Requests : q[r] \in Seq(Requests)

RunnerInv == MapIsAlive /\ ConnectionInv /\ FoundInv /\ NoStopInv

LEMMA RunnerInduction ==
  ASSUME Undisturbed, TypeOK, HoldsRequest, RunnerInv, [Next]_vars
  PROVE  RunnerInv'
<1> USE DBRunnerAssumption DEF Alive, Connecting
<1>0. MapIsAlive /\ ConnectionInv /\ FoundInv /\ NoStopInv
  BY DEF RunnerInv
<1>1. ASSUME NEW b \in Bridges, NEW r \in Requests, NEW k \in Kinds, Call(b, r, k)
      PROVE RunnerInv'
  <2>1. FoundInv'
    BY <1>1, Undisturbed DEF Call, FoundInv, TypeOK, Undisturbed
  <2> QED BY <1>0, <1>1, <2>1
        DEF Call, runnerVars, RunnerInv, MapIsAlive, ConnectionInv, NoStopInv
<1>2. ASSUME NEW b \in Bridges, StartDatabase(b) PROVE RunnerInv'
  <2>1. bridge[b] \in Requests
    BY <1>2 DEF StartDatabase, TypeOK
  <2>2. FoundInv'
    BY <1>2 DEF StartDatabase, Return, FoundInv, TypeOK, Undisturbed
  <2>3. CASE found[b] # None
    BY <1>0, <1>2, <2>2, <2>3
    DEF StartDatabase, Return, RunnerInv, MapIsAlive, ConnectionInv, NoStopInv
  <2>4. CASE found[b] = None
    <3>1. dbrmap = None
      BY <1>0, <1>2, <2>4 DEF StartDatabase, FoundInv
    <3>2. \A r \in Requests : pc[r] \notin Alive /\ connection[r] # "open"
      BY <1>0, <3>1 DEF MapIsAlive, ConnectionInv
    <3>3. dbrmap' = bridge[b] /\ pc' = [pc EXCEPT ![bridge[b]] = "start"]
      BY <1>2, <2>4 DEF StartDatabase
    <3>4. MapIsAlive' /\ ConnectionInv'
      BY <1>2, <2>1, <3>2, <3>3 DEF StartDatabase, TypeOK, MapIsAlive, ConnectionInv
    <3> QED BY <1>0, <1>2, <2>2, <3>4 DEF StartDatabase, Return, RunnerInv, NoStopInv
  <2> QED BY <2>3, <2>4
<1>3. ASSUME NEW b \in Bridges, PutQuery(b) PROVE RunnerInv'
  <2>1. bridge[b] \in Requests /\ found[b] \in Requests
    BY <1>3 DEF PutQuery, TypeOK
  <2>2. NoStopInv'
    BY <1>0, <1>3, <2>1 DEF PutQuery, Return, TypeOK, NoStopInv
  <2> QED BY <1>0, <1>3, <2>2
        DEF PutQuery, Return, TypeOK, RunnerInv, MapIsAlive, ConnectionInv, FoundInv
<1>4. ASSUME NEW b \in Bridges, AnswerWithoutRunner(b) PROVE RunnerInv'
  BY <1>0, <1>4 DEF AnswerWithoutRunner, Return, TypeOK, RunnerInv, MapIsAlive,
     ConnectionInv, FoundInv, NoStopInv
<1>5. ASSUME NEW r \in Requests, OpenDatabase(r) PROVE RunnerInv'
  BY <1>0, <1>5 DEF OpenDatabase, GoTo, bridgeVars, TypeOK, RunnerInv, MapIsAlive,
     ConnectionInv, FoundInv, NoStopInv
<1>6. ASSUME NEW r \in Requests, AnswerOpen(r) PROVE RunnerInv'
  BY <1>0, <1>6 DEF AnswerOpen, GoTo, bridgeVars, TypeOK, RunnerInv, MapIsAlive,
     ConnectionInv, FoundInv, NoStopInv
<1>16. ASSUME NEW r \in Requests, AssignMydbc(r) PROVE RunnerInv'
  BY <1>0, <1>16 DEF AssignMydbc, GoTo, callVars, bridgeVars, TypeOK, RunnerInv, MapIsAlive,
     ConnectionInv, FoundInv, NoStopInv
<1>7. ASSUME NEW r \in Requests, OpenDatabaseFails(r) PROVE RunnerInv'
  BY <1>0, <1>7 DEF OpenDatabaseFails, GoTo, bridgeVars, TypeOK, RunnerInv, MapIsAlive,
     ConnectionInv, FoundInv, NoStopInv
<1>8. ASSUME NEW r \in Requests, RemoveFailed(r) PROVE RunnerInv'
  <2>1. dbrmap = r
    BY <1>0, <1>8 DEF RemoveFailed, MapIsAlive
  <2> QED BY <1>0, <1>8, <2>1 DEF RemoveFailed, GoTo, bridgeVars, TypeOK, RunnerInv,
        MapIsAlive, ConnectionInv, FoundInv, NoStopInv
<1>9. ASSUME NEW r \in Requests, Take(r) PROVE RunnerInv'
  <2>1. Head(q[r]) \in Requests /\ Tail(q[r]) \in Seq(Requests)
    BY <1>0, <1>9 DEF Take, NoStopInv
  <2>2. PICK place \in {"execute", "close"} : GoTo(r, place)
    BY <1>9, <2>1 DEF Take, PlaceFor
  <2>3. NoStopInv'
    BY <1>0, <1>9, <2>1 DEF Take, TypeOK, NoStopInv
  <2>4. MapIsAlive' /\ ConnectionInv'
    BY <1>0, <1>9, <2>2 DEF Take, GoTo, TypeOK, MapIsAlive, ConnectionInv
  <2> QED BY <1>0, <1>9, <2>3, <2>4 DEF Take, bridgeVars, RunnerInv, FoundInv
<1>10. ASSUME NEW r \in Requests, ExecuteBatch(r) PROVE RunnerInv'
  BY <1>0, <1>10 DEF ExecuteBatch, GoTo, bridgeVars, TypeOK, RunnerInv, MapIsAlive,
     ConnectionInv, FoundInv, NoStopInv
<1>11. ASSUME NEW r \in Requests, CloseDatabaseNow(r) PROVE RunnerInv'
  <2>1. dbrmap = r /\ HasMydbc(r)
    BY <1>0, <1>11 DEF CloseDatabaseNow, MapIsAlive, ConnectionInv, HasMydbc
  <2>2. connection' = [connection EXCEPT ![r] = "disposed"]
    BY <1>11, <2>1 DEF CloseDatabaseNow, Dispose, TypeOK
  <2> QED BY <1>0, <1>11, <2>2 DEF CloseDatabaseNow, GoTo, bridgeVars, TypeOK, RunnerInv,
        MapIsAlive, ConnectionInv, FoundInv, NoStopInv
<1>12. ASSUME NEW r \in Requests, RemoveItself(r) PROVE RunnerInv'
  <2>1. dbrmap = r
    BY <1>0, <1>12 DEF RemoveItself, MapIsAlive
  <2> QED BY <1>0, <1>12, <2>1 DEF RemoveItself, GoTo, bridgeVars, TypeOK, RunnerInv,
        MapIsAlive, ConnectionInv, FoundInv, NoStopInv
<1>13. ASSUME NEW r \in Requests, AnswerClose(r) PROVE RunnerInv'
  BY <1>0, <1>13 DEF AnswerClose, GoTo, bridgeVars, TypeOK, RunnerInv, MapIsAlive,
     ConnectionInv, FoundInv, NoStopInv
<1>14. ~Destroy /\ ~OnDestroy
  BY <1>0 DEF Destroy, OnDestroy, DestroyCheck, DestroyClose, DestroyStop,
     DestroyRemove, NoStopInv, Undisturbed
<1>15. CASE UNCHANGED vars
  BY <1>0, <1>15 DEF vars, callVars, bridgeVars, runnerVars, RunnerInv, MapIsAlive,
     ConnectionInv, FoundInv, NoStopInv
<1> QED
  BY <1>1, <1>2, <1>3, <1>4, <1>5, <1>6, <1>7, <1>8, <1>9, <1>10, <1>11, <1>12,
     <1>13, <1>14, <1>15, <1>16 DEF Next, Run, Act

LEMMA RunnerInvariant ==
  ASSUME Undisturbed PROVE Spec => [](TypeOK /\ RunnerInv)
<1>1. Init => TypeOK /\ HoldsRequest /\ RunnerInv
  BY DBRunnerAssumption DEF Init, TypeOK, HoldsRequest, Places, RunnerInv, MapIsAlive,
     ConnectionInv, Connecting, FoundInv, NoStopInv
<1>2. TypeOK /\ HoldsRequest /\ RunnerInv /\ [Next]_vars
        => (TypeOK /\ HoldsRequest /\ RunnerInv)'
  BY TypeInduction, RunnerInduction
<1> QED BY <1>1, <1>2, PTL DEF Spec

\* Two runners never have a connection open, with one bridge thread and without
\* onDestroy(): a new runner is made only when the old one has closed.
THEOREM RunnersExclude == ASSUME Undisturbed PROVE Spec => []OneConnection
<1>1. TypeOK /\ RunnerInv => OneConnection
  BY DEF RunnerInv, ConnectionInv, Connecting, MapIsAlive, OneConnection
<1> QED BY <1>1, RunnerInvariant, PTL

\* The map holds the runner that is alive, on the same assumptions.
THEOREM MapHoldsTheLiving == ASSUME Undisturbed PROVE Spec => []MapIsAlive
<1>1. TypeOK /\ RunnerInv => MapIsAlive
  BY DEF RunnerInv
<1> QED BY <1>1, RunnerInvariant, PTL

\* Batches are executed on an open connection, on the same assumptions.
THEOREM BatchesHaveConnection ==
  ASSUME Undisturbed PROVE Spec => []ExecutesOnOpenConnection
<1>1. TypeOK /\ RunnerInv => ExecutesOnOpenConnection
  BY DEF RunnerInv, ConnectionInv, Connecting, ExecutesOnOpenConnection
<1> QED BY <1>1, RunnerInvariant, PTL

-----------------------------------------------------------------------------
(* No request is answered twice: it is in one place until it is answered.   *)

\* The runner is carrying out the request it has taken.
Busy(r) == pc[r] \in {"execute", "close", "remove", "answer"}

\* A batch, close or delete that a runner is to carry out.
Waiting(e) ==
  kind[e] \notin {"none", "open"} /\ answers[e] = << >> /\ \A b \in Bridges : bridge[b] # e

FreshInv ==
  \A e \in Requests :
    /\ kind[e] = "none" => answers[e] = << >>
    /\ pc[e] # "none" => kind[e] = "open"
    /\ pc[e] \in {"start", "opened"} => answers[e] = << >>

BridgeInv ==
  \A b \in Bridges : bridge[b] # None =>
    /\ kind[bridge[b]] # "none" /\ answers[bridge[b]] = << >> /\ pc[bridge[b]] = "none"
    /\ \A a \in Bridges : bridge[a] = bridge[b] => a = b

QueuedInv ==
  \A r \in Requests : \A i \in 1..Len(q[r]) : q[r][i] # Stop =>
    /\ Waiting(q[r][i])
    /\ \A s \in Requests : \A j \in 1..Len(q[s]) : q[s][j] = q[r][i] => s = r /\ j = i

HeldInv ==
  \A r \in Requests : Busy(r) =>
    /\ Waiting(dbq[r])
    /\ \A s \in Requests : \A j \in 1..Len(q[s]) : q[s][j] # dbq[r]
    /\ \A s \in Requests : Busy(s) /\ dbq[s] = dbq[r] => s = r

OnceInv == AnsweredAtMostOnce /\ FreshInv /\ BridgeInv /\ QueuedInv /\ HeldInv

LEMMA OnceInduction ==
  ASSUME TypeOK, HoldsRequest, OnceInv, [Next]_vars PROVE OnceInv'
<1> USE DBRunnerAssumption DEF Busy, Waiting
<1>0. AnsweredAtMostOnce /\ FreshInv /\ BridgeInv /\ QueuedInv /\ HeldInv
  BY DEF OnceInv
<1>1. ASSUME NEW b \in Bridges, NEW r \in Requests, NEW k \in Kinds, Call(b, r, k)
      PROVE OnceInv'
  <2>1. kind' = [kind EXCEPT ![r] = k] /\ kind[r] = "none" /\ k # "none"
    BY <1>1 DEF Call, Kinds
  <2>2. answers[r] = << >> /\ pc[r] = "none"
    BY <1>0, <2>1 DEF FreshInv
  <2>3. /\ \A a \in Bridges : bridge[a] # r
        /\ \A s \in Requests : \A i \in 1..Len(q[s]) : q[s][i] # r
        /\ \A s \in Requests : Busy(s) => dbq[s] # r
    BY <1>0, <2>1 DEF BridgeInv, QueuedInv, HeldInv
  <2>4. AnsweredAtMostOnce'
    BY <1>0, <1>1 DEF Call, AnsweredAtMostOnce
  <2>5. FreshInv'
    BY <1>0, <1>1, <2>1, <2>2 DEF Call, runnerVars, TypeOK, FreshInv
  <2>6. BridgeInv'
    BY <1>0, <1>1, <2>1, <2>2, <2>3 DEF Call, runnerVars, TypeOK, BridgeInv
  <2>7. QueuedInv'
    BY <1>0, <1>1, <2>1, <2>3 DEF Call, runnerVars, TypeOK, QueuedInv
  <2>8. HeldInv'
    BY <1>0, <1>1, <2>1, <2>3 DEF Call, runnerVars, TypeOK, HeldInv, HoldsRequest
  <2> QED BY <2>4, <2>5, <2>6, <2>7, <2>8 DEF OnceInv
<1>2. ASSUME NEW b \in Bridges, StartDatabase(b) PROVE OnceInv'
  <2>1. bridge[b] \in Requests /\ kind[bridge[b]] = "open" /\ answers[bridge[b]] = << >>
    BY <1>0, <1>2 DEF StartDatabase, TypeOK, BridgeInv
  <2>2. /\ bridge' = [bridge EXCEPT ![b] = None]
        /\ \/ answers' = [answers EXCEPT ![bridge[b]] = <<"success">>] /\ pc' = pc
           \/ pc' = [pc EXCEPT ![bridge[b]] = "start"] /\ answers' = answers
        /\ kind' = kind /\ q' = q /\ dbq' = dbq
    BY <1>2, <2>1 DEF StartDatabase, Return, Reply, TypeOK
  <2>3. AnsweredAtMostOnce'
    <3>1. CASE answers' = [answers EXCEPT ![bridge[b]] = <<"success">>]
      BY <1>0, <2>1, <3>1 DEF TypeOK, AnsweredAtMostOnce
    <3>2. CASE answers' = answers
      BY <1>0, <3>2 DEF AnsweredAtMostOnce
    <3> QED BY <2>2, <3>1, <3>2
  <2>4. FreshInv'
    BY <1>0, <1>2, <2>1, <2>2 DEF TypeOK, FreshInv, BridgeInv, StartDatabase
  <2>5. BridgeInv'
    BY <1>0, <2>1, <2>2 DEF TypeOK, BridgeInv
  <2>6. QueuedInv'
    BY <1>0, <2>1, <2>2 DEF TypeOK, QueuedInv
  <2>7. HeldInv'
    BY <1>0, <2>1, <2>2 DEF TypeOK, HeldInv, HoldsRequest, FreshInv, BridgeInv
  <2> QED BY <2>3, <2>4, <2>5, <2>6, <2>7 DEF OnceInv
<1>3. ASSUME NEW b \in Bridges, PutQuery(b) PROVE OnceInv'
  <2>0. PICK e \in Requests, f \in Requests : e = bridge[b] /\ f = found[b]
    BY <1>3 DEF PutQuery, TypeOK
  <2>1. e # Stop /\ q[f] \in Seq(Requests \cup {Stop})
    BY DEF TypeOK
  <2>2. /\ bridge' = [bridge EXCEPT ![b] = None]
        /\ q' = [q EXCEPT ![f] = Append(@, e)]
        /\ kind' = kind /\ answers' = answers /\ pc' = pc /\ dbq' = dbq
    BY <1>3, <2>0 DEF PutQuery, Return
  <2>3. /\ Waiting(e)'
        /\ \A s \in Requests : \A i \in 1..Len(q[s]) : q[s][i] # e
        /\ \A s \in Requests : Busy(s) => dbq[s] # e
    <3>1. kind[e] \notin {"none", "open"} /\ answers[e] = << >>
      BY <1>0, <1>3, <2>0 DEF PutQuery, BridgeInv
    <3>2. \A a \in Bridges : bridge[a] = e => a = b
      BY <1>0, <2>0 DEF BridgeInv
    <3>3. Waiting(e)'
      BY <2>2, <3>1, <3>2 DEF TypeOK
    <3> QED BY <1>0, <2>0, <2>1, <3>3 DEF QueuedInv, HeldInv
  <2>4. \A s \in Requests : \A i \in 1..Len(q'[s]) :
          \/ i \in 1..Len(q[s]) /\ q'[s][i] = q[s][i]
          \/ s = f /\ i = Len(q[f]) + 1 /\ q'[s][i] = e
    <3> TAKE s \in Requests
    <3> TAKE i \in 1..Len(q'[s])
    <3>1. CASE s = f
      <4>1. q'[s] = Append(q[f], e)
        BY <2>2, <3>1 DEF TypeOK
      <4> QED BY <2>1, <3>1, <4>1
    <3>2. CASE s # f
      BY <2>2, <3>2 DEF TypeOK
    <3> QED BY <3>1, <3>2
  <2>5. \A x \in Requests : Waiting(x) => Waiting(x)'
    BY <2>2 DEF TypeOK
  <2>10. /\ \A s \in Requests : \A i \in 1..Len(q[s]) : q[s][i] # Stop => q[s][i] \in Requests
         /\ \A s \in Requests : Busy(s) => dbq[s] \in Requests
    BY DEF TypeOK, HoldsRequest
  <2>6. AnsweredAtMostOnce' /\ FreshInv'
    BY <1>0, <2>2 DEF AnsweredAtMostOnce, FreshInv
  <2>7. BridgeInv'
    BY <1>0, <2>2 DEF TypeOK, BridgeInv
  <2>8. QueuedInv'
    <3> SUFFICES ASSUME NEW s \in Requests, NEW i \in 1..Len(q'[s]), q'[s][i] # Stop
                 PROVE  /\ \A x : x = q'[s][i] => Waiting(x)'
                        /\ \A u \in Requests : \A j \in 1..Len(q'[u]) :
                             q'[u][j] = q'[s][i] => u = s /\ j = i
      BY DEF QueuedInv
    <3>1. ASSUME NEW x, x = q'[s][i] PROVE Waiting(x)'
      <4>1. CASE x = e
        BY <2>3, <4>1
      <4>2. CASE x # e
        <5>1. i \in 1..Len(q[s]) /\ x = q[s][i]
          BY <2>4, <3>1, <4>2
        <5> QED BY <1>0, <2>5, <2>10, <3>1, <5>1 DEF QueuedInv
      <4> QED BY <4>1, <4>2
    <3>2. ASSUME NEW u \in Requests, NEW j \in 1..Len(q'[u]), q'[u][j] = q'[s][i]
          PROVE  u = s /\ j = i
      <4>1. CASE q'[s][i] = e
        BY <2>3, <2>4, <3>2, <4>1
      <4>2. CASE q'[s][i] # e
        <5>1. /\ i \in 1..Len(q[s]) /\ q'[s][i] = q[s][i]
              /\ j \in 1..Len(q[u]) /\ q'[u][j] = q[u][j]
          BY <2>4, <3>2, <4>2
        <5> QED BY <1>0, <3>2, <5>1 DEF QueuedInv
      <4> QED BY <4>1, <4>2
    <3> QED BY <3>1, <3>2
  <2>9. HeldInv'
    BY <1>0, <2>2, <2>3, <2>4, <2>5, <2>10 DEF HeldInv
  <2> QED BY <2>6, <2>7, <2>8, <2>9 DEF OnceInv
<1>4. ASSUME NEW b \in Bridges, AnswerWithoutRunner(b) PROVE OnceInv'
  <2>1. bridge[b] \in Requests /\ answers[bridge[b]] = << >>
        /\ kind[bridge[b]] # "none" /\ pc[bridge[b]] = "none"
    BY <1>0, <1>4 DEF AnswerWithoutRunner, TypeOK, BridgeInv
  <2>2. PICK answer \in {"success", "error"} : answers' = [answers EXCEPT ![bridge[b]] = <<answer>>]
    <3>1. PICK answer \in {"success", "error"} : Reply(bridge[b], answer)
      BY <1>4 DEF AnswerWithoutRunner, AnswersWithoutRunner
    <3>2. Append(answers[bridge[b]], answer) = <<answer>>
      BY <2>1
    <3> QED BY <3>1, <3>2 DEF Reply
  <2>3. /\ bridge' = [bridge EXCEPT ![b] = None]
        /\ kind' = kind /\ pc' = pc /\ q' = q /\ dbq' = dbq
    BY <1>4 DEF AnswerWithoutRunner, Return
  <2>4. AnsweredAtMostOnce'
    BY <1>0, <2>1, <2>2 DEF TypeOK, AnsweredAtMostOnce
  <2>5. FreshInv'
    BY <1>0, <2>1, <2>2, <2>3 DEF TypeOK, FreshInv
  <2>6. BridgeInv'
    BY <1>0, <2>1, <2>2, <2>3 DEF TypeOK, BridgeInv
  <2>7. QueuedInv'
    BY <1>0, <2>1, <2>2, <2>3 DEF TypeOK, QueuedInv
  <2>8. HeldInv'
    BY <1>0, <2>1, <2>2, <2>3 DEF TypeOK, HeldInv, HoldsRequest
  <2> QED BY <2>4, <2>5, <2>6, <2>7, <2>8 DEF OnceInv
<1>5. ASSUME NEW r \in Requests, NEW answer,
             pc[r] \in {"start", "opened"}, Reply(r, answer),
             pc' \in [Requests -> Places], \A s \in Requests \ {r} : pc'[s] = pc[s],
             pc'[r] \in {"answered", "failed"},
             UNCHANGED <<kind, bridge, q, dbq>>
      PROVE  OnceInv'
  <2>1. kind[r] = "open" /\ answers[r] = << >>
    BY <1>0, <1>5 DEF FreshInv
  <2>2. answers' = [answers EXCEPT ![r] = <<answer>>]
    BY <1>5, <2>1 DEF Reply, TypeOK
  <2>3. AnsweredAtMostOnce'
    BY <1>0, <2>2 DEF TypeOK, AnsweredAtMostOnce
  <2>4. FreshInv'
    BY <1>0, <1>5, <2>1, <2>2 DEF TypeOK, FreshInv
  <2>5. BridgeInv'
    BY <1>0, <1>5, <2>1, <2>2 DEF TypeOK, BridgeInv
  <2>6. QueuedInv'
    <3>1. \A e \in Requests : Waiting(e) => Waiting(e)'
      BY <1>0, <1>5, <2>1, <2>2 DEF TypeOK
    <3>2. \A s \in Requests : \A i \in 1..Len(q[s]) : q[s][i] # Stop => q[s][i] \in Requests
      BY <1>0 DEF TypeOK
    <3> QED BY <1>0, <1>5, <3>1, <3>2 DEF QueuedInv
  <2>7. \A s \in Requests : Busy(s)' => Busy(s)
    BY <1>5
  <2>8. HeldInv'
    BY <1>0, <1>5, <2>1, <2>2, <2>7 DEF TypeOK, HeldInv, HoldsRequest
  <2> QED BY <2>3, <2>4, <2>5, <2>6, <2>8 DEF OnceInv
<1>6. ASSUME NEW r \in Requests, AnswerOpen(r) \/ OpenDatabaseFails(r) PROVE OnceInv'
  <2>1. /\ \E answer \in {"success", "error"} : Reply(r, answer)
        /\ GoTo(r, "answered") \/ GoTo(r, "failed")
    BY <1>6 DEF AnswerOpen, OpenDatabaseFails
  <2>2. /\ pc' \in [Requests -> Places] /\ \A s \in Requests \ {r} : pc'[s] = pc[s]
        /\ pc'[r] \in {"answered", "failed"}
    BY <2>1 DEF GoTo, TypeOK, Places
  <2>3. pc[r] \in {"start", "opened"} /\ UNCHANGED <<kind, bridge, q, dbq>>
    BY <1>6 DEF AnswerOpen, OpenDatabaseFails, bridgeVars
  <2> QED BY <1>5, <2>1, <2>2, <2>3
<1>7. ASSUME UNCHANGED <<kind, answers, bridge, dbq>>,
             \A s \in Requests : Busy(s)' => Busy(s),
             \A s \in Requests : /\ (pc'[s] # "none" => pc[s] # "none")
                                 /\ (pc[s] = "none" => pc'[s] = "none")
                                 /\ (pc'[s] \in {"start", "opened"} => pc[s] \in {"start", "opened"}),
             \A s \in Requests : \A i \in 1..Len(q'[s]) :
               q'[s][i] = Stop \/ (i \in 1..Len(q[s]) /\ q'[s][i] = q[s][i]),
             TypeOK'
      PROVE  OnceInv'
  <2>1. AnsweredAtMostOnce' /\ FreshInv'
    BY <1>0, <1>7 DEF AnsweredAtMostOnce, FreshInv
  <2>2. BridgeInv'
    BY <1>0, <1>7 DEF TypeOK, BridgeInv
  <2>3. QueuedInv'
    BY <1>0, <1>7 DEF QueuedInv
  <2>4. \A s \in Requests : Busy(s) => dbq[s] # Stop
    BY DEF HoldsRequest
  <2>5. HeldInv'
    BY <1>0, <1>7, <2>4 DEF HeldInv
  <2> QED BY <2>1, <2>2, <2>3, <2>5 DEF OnceInv
<1>8. TypeOK'
  BY TypeInduction
<1>9. ASSUME NEW r \in Requests,
             \/ OpenDatabase(r) \/ AssignMydbc(r) \/ RemoveFailed(r)
             \/ CloseDatabaseNow(r) \/ RemoveItself(r)
      PROVE OnceInv'
  <2>1. UNCHANGED <<kind, answers, bridge, q, dbq>>
    BY <1>9 DEF OpenDatabase, AssignMydbc, RemoveFailed, CloseDatabaseNow, RemoveItself,
       callVars, bridgeVars
  <2>2. \/ pc[r] = "start" /\ GoTo(r, "opened")
        \/ pc[r] = "answered" /\ GoTo(r, "take")
        \/ pc[r] = "failed" /\ GoTo(r, "end")
        \/ pc[r] = "close" /\ GoTo(r, "remove")
        \/ pc[r] = "remove" /\ GoTo(r, "answer")
    BY <1>9 DEF OpenDatabase, AssignMydbc, RemoveFailed, CloseDatabaseNow, RemoveItself
  <2>3. \A s \in Requests :
          /\ Busy(s)' => Busy(s)
          /\ pc'[s] # "none" => pc[s] # "none"
          /\ pc[s] = "none" => pc'[s] = "none"
          /\ pc'[s] \in {"start", "opened"} => pc[s] \in {"start", "opened"}
    BY <2>2 DEF GoTo, TypeOK
  <2> QED BY <1>7, <1>8, <2>1, <2>3
<1>10. ASSUME NEW r \in Requests, Take(r) PROVE OnceInv'
  <2>1. q[r] \in Seq(Requests \cup {Stop}) /\ q[r] # << >> /\ pc[r] = "take"
    BY <1>10 DEF Take, TypeOK
  <2>2. /\ q' = [q EXCEPT ![r] = Tail(@)] /\ dbq' = [dbq EXCEPT ![r] = Head(q[r])]
        /\ UNCHANGED <<kind, answers, bridge>>
    BY <1>10 DEF Take, callVars, bridgeVars
  <2>3. \A s \in Requests : \A i \in 1..Len(q'[s]) :
          IF s = r THEN i + 1 \in 1..Len(q[r]) /\ q'[s][i] = q[r][i + 1]
          ELSE i \in 1..Len(q[s]) /\ q'[s][i] = q[s][i]
    BY <2>1, <2>2 DEF TypeOK
  <2>4. PICK place \in {"end", "execute", "close"} :
          GoTo(r, place) /\ (place # "end" => Head(q[r]) # Stop)
    BY <1>10 DEF Take, PlaceFor
  <2>5. /\ pc' \in [Requests -> Places] /\ pc'[r] = place
        /\ \A s \in Requests \ {r} : pc'[s] = pc[s]
    BY <2>4 DEF GoTo, TypeOK, Places
  <2>6. AnsweredAtMostOnce' /\ FreshInv' /\ BridgeInv'
    BY <1>0, <2>1, <2>2, <2>4, <2>5 DEF TypeOK, AnsweredAtMostOnce, FreshInv, BridgeInv
  <2>7. ASSUME NEW x, Waiting(x) PROVE Waiting(x)'
    BY <2>2, <2>7
  <2>8. QueuedInv'
    <3> SUFFICES ASSUME NEW s \in Requests, NEW i \in 1..Len(q'[s]), q'[s][i] # Stop
                 PROVE  /\ \A x : x = q'[s][i] => Waiting(x)'
                        /\ \A u \in Requests : \A j \in 1..Len(q'[u]) :
                             q'[u][j] = q'[s][i] => u = s /\ j = i
      BY DEF QueuedInv
    <3>1. PICK k \in 1..Len(q[s]) : q'[s][i] = q[s][k] /\ k = IF s = r THEN i + 1 ELSE i
      BY <2>3
    <3>2. ASSUME NEW x, x = q'[s][i] PROVE Waiting(x)'
      <4>1. Waiting(x)
        BY <1>0, <3>1, <3>2 DEF QueuedInv
      <4> QED BY <2>7, <4>1
    <3>3. ASSUME NEW u \in Requests, NEW j \in 1..Len(q'[u]), q'[u][j] = q'[s][i]
          PROVE u = s /\ j = i
      <4>1. PICK l \in 1..Len(q[u]) : q'[u][j] = q[u][l] /\ l = IF u = r THEN j + 1 ELSE j
        BY <2>3
      <4>2. u = s /\ l = k
        BY <1>0, <3>1, <3>3, <4>1 DEF QueuedInv
      <4>3. i \in Int /\ j \in Int
        BY <2>1, <2>2 DEF TypeOK
      <4> QED BY <3>1, <4>1, <4>2, <4>3
    <3> QED BY <3>2, <3>3
  <2>9. Head(q[r]) = q[r][1] /\ 1 \in 1..Len(q[r])
    BY <2>1
  <2>10. Head(q[r]) # Stop =>
           /\ Waiting(Head(q[r]))
           /\ \A s \in Requests : \A j \in 1..Len(q'[s]) : q'[s][j] # Head(q[r])
           /\ \A s \in Requests : Busy(s) => dbq[s] # Head(q[r])
    BY <1>0, <2>1, <2>3, <2>9 DEF QueuedInv, HeldInv
  <2>11. HeldInv'
    <3>1. dbq'[r] = Head(q[r]) /\ \A u \in Requests \ {r} : dbq'[u] = dbq[u]
      BY <2>2 DEF TypeOK
    <3>2. Busy(r)' => Head(q[r]) # Stop
      BY <2>4, <2>5
    <3>3. \A u \in Requests \ {r} : Busy(u)' => Busy(u)
      BY <2>5
    <3>4. ASSUME NEW s \in Requests, Busy(s)', NEW e, e = dbq'[s]
          PROVE  /\ Waiting(e)'
                 /\ \A u \in Requests : \A j \in 1..Len(q'[u]) : q'[u][j] # e
                 /\ \A u \in Requests : Busy(u)' /\ dbq'[u] = e => u = s
      <4>1. CASE s = r
        BY <2>7, <2>10, <3>1, <3>2, <3>3, <3>4, <4>1
      <4>2. CASE s # r
        <5>1. Busy(s) /\ e = dbq[s]
          BY <3>1, <3>3, <3>4, <4>2
        <5>2. Waiting(e)'
          BY <1>0, <2>7, <5>1 DEF HeldInv
        <5>3. \A u \in Requests : \A j \in 1..Len(q'[u]) : q'[u][j] # e
          BY <1>0, <2>3, <5>1 DEF HeldInv
        <5>4. \A u \in Requests : Busy(u)' /\ dbq'[u] = e => u = s
          BY <1>0, <2>10, <3>1, <3>2, <3>3, <4>2, <5>1 DEF HeldInv
        <5> QED BY <5>2, <5>3, <5>4
      <4> QED BY <4>1, <4>2
    <3> QED BY <3>4 DEF HeldInv
  <2> QED BY <2>6, <2>8, <2>11 DEF OnceInv
<1>11. ASSUME NEW r \in Requests, ExecuteBatch(r) \/ AnswerClose(r) PROVE OnceInv'
  <2>0. /\ \E answer \in {"success", "error"} : Reply(dbq[r], answer)
        /\ GoTo(r, "take") \/ GoTo(r, "end")
    BY <1>11 DEF ExecuteBatch, AnswerClose
  <2>1. PICK answer \in {"success", "error"}, place \in {"take", "end"} :
          Reply(dbq[r], answer) /\ GoTo(r, place)
    BY <2>0
  <2>2. Busy(r) /\ dbq[r] \in Requests /\ UNCHANGED <<kind, bridge, q, dbq>>
    BY <1>11 DEF ExecuteBatch, AnswerClose, HoldsRequest, bridgeVars
  <2>3. Waiting(dbq[r])
    BY <1>0, <2>2 DEF HeldInv
  <2>4. answers' = [answers EXCEPT ![dbq[r]] = <<answer>>]
    BY <2>1, <2>2, <2>3 DEF Reply, TypeOK
  <2>5. /\ pc' \in [Requests -> Places] /\ pc'[r] = place
        /\ \A s \in Requests \ {r} : pc'[s] = pc[s]
    BY <2>1 DEF GoTo, TypeOK, Places
  <2>6. AnsweredAtMostOnce'
    BY <1>0, <2>2, <2>4 DEF TypeOK, AnsweredAtMostOnce
  <2>7. FreshInv'
    BY <1>0, <2>2, <2>3, <2>4, <2>5 DEF TypeOK, FreshInv
  <2>8. BridgeInv'
    BY <1>0, <2>2, <2>3, <2>4, <2>5 DEF TypeOK, BridgeInv
  <2>9. \A x : x # dbq[r] /\ Waiting(x) => Waiting(x)'
    BY <2>2, <2>4 DEF TypeOK
  <2>10. QueuedInv'
    BY <1>0, <2>2, <2>9 DEF QueuedInv, HeldInv
  <2>11. HeldInv'
    BY <1>0, <2>2, <2>5, <2>9 DEF HeldInv
  <2> QED BY <2>6, <2>7, <2>8, <2>10, <2>11 DEF OnceInv
<1>12. CASE Destroy \/ OnDestroy \/ UNCHANGED vars
  <2>1. UNCHANGED <<kind, answers, bridge, dbq, pc>>
    BY <1>12 DEF Destroy, OnDestroy, DestroyCheck, DestroyClose, DestroyStop, DestroyRemove,
       vars, callVars, bridgeVars, runnerVars
  <2>2. CASE DestroyStop
    <3>1. \A s \in Requests : q'[s] = q[s] \/ q'[s] = Append(q[s], Stop)
      BY <2>2 DEF DestroyStop
    <3>2. \A s \in Requests : \A i \in 1..Len(q'[s]) :
            q'[s][i] = Stop \/ (i \in 1..Len(q[s]) /\ q'[s][i] = q[s][i])
      <4> TAKE s \in Requests
      <4> TAKE i \in 1..Len(q'[s])
      <4>1. q[s] \in Seq(Requests \cup {Stop})
        BY DEF TypeOK
      <4>2. CASE q'[s] = q[s]
        BY <4>2
      <4>3. CASE q'[s] = Append(q[s], Stop)
        BY <4>1, <4>3
      <4> QED BY <3>1, <4>2, <4>3
    <3> QED BY <1>7, <1>8, <2>1, <3>2
  <2>3. CASE ~DestroyStop
    <3>1. UNCHANGED q
      BY <1>12, <2>3 DEF Destroy, OnDestroy, DestroyCheck, DestroyClose, DestroyRemove,
         vars, runnerVars
    <3> QED BY <1>7, <1>8, <2>1, <3>1
  <2> QED BY <2>2, <2>3
<1> QED
  BY <1>1, <1>2, <1>3, <1>4, <1>6, <1>9, <1>10, <1>11, <1>12 DEF Next, Run, Act

\* No request is answered twice, whatever the threads do: with several bridge
\* threads, with onDestroy(), and with a runner that is used when it has ended.
THEOREM NoSecondAnswer == Spec => []AnsweredAtMostOnce
<1>1. Init => TypeOK /\ HoldsRequest /\ OnceInv
  BY DBRunnerAssumption DEF Init, TypeOK, HoldsRequest, Places, OnceInv, AnsweredAtMostOnce,
     FreshInv, BridgeInv, QueuedInv, HeldInv, Busy
<1>2. TypeOK /\ HoldsRequest /\ OnceInv /\ [Next]_vars
        => (TypeOK /\ HoldsRequest /\ OnceInv)'
  BY TypeInduction, OnceInduction
<1>3. OnceInv => AnsweredAtMostOnce
  BY DEF OnceInv
<1> QED BY <1>1, <1>2, <1>3, PTL DEF Spec

-----------------------------------------------------------------------------
(* An open that is answered with success has a connection.                  *)

\* An application that opens again only when its last open, close or delete has
\* been answered, and gives up after an open that failed.
OneOpenAtATime ==
  Undisturbed /\ {"openOpening", "callClosing", "retryOpen"} \cap Overlaps = {}

FailedInv == \A r \in Requests : pc[r] = "failed" => answers[r] = <<"error">>

ClosingInv ==
  \A r \in Requests : pc[r] \in {"close", "remove"} => kind[dbq[r]] \in {"close", "delete"}

\* While a bridge thread has an open request, no other open, close or delete is
\* under way, so the runner it has found goes on to serve.
OpenCallInv ==
  \A b \in Bridges : bridge[b] # None /\ kind[bridge[b]] = "open" =>
    /\ \A e \in Requests :
         kind[e] \in {"open", "close", "delete"} /\ e # bridge[b] => answers[e] # << >>
    /\ found[b] # None => pc[found[b]] \in {"answered", "take", "execute"}

OpenInv == FailedInv /\ ClosingInv /\ OpenCallInv

LEMMA OpenInduction ==
  ASSUME OneOpenAtATime, TypeOK, HoldsRequest, RunnerInv, OnceInv, OpenInv, [Next]_vars
  PROVE  OpenInv'
<1> USE DBRunnerAssumption DEF Busy
<1>0. FailedInv /\ ClosingInv /\ OpenCallInv /\ MapIsAlive /\ NoStopInv
      /\ FreshInv /\ BridgeInv /\ QueuedInv /\ HeldInv
  BY DEF OpenInv, RunnerInv, OnceInv
<1>1. ASSUME NEW b \in Bridges, NEW r \in Requests, NEW k \in Kinds, Call(b, r, k)
      PROVE OpenInv'
  <2>1. /\ kind' = [kind EXCEPT ![r] = k] /\ kind[r] = "none"
        /\ UNCHANGED <<answers, pc, dbq>>
    BY <1>1 DEF Call, runnerVars
  <2>2. FailedInv'
    BY <1>0, <2>1 DEF FailedInv
  <2>3. ClosingInv'
    BY <1>0, <2>1 DEF ClosingInv, TypeOK
  <2>4. OpenCallInv'
    <3> SUFFICES ASSUME NEW a \in Bridges, bridge'[a] # None, kind'[bridge'[a]] = "open"
                 PROVE  /\ \A e \in Requests :
                             kind'[e] \in {"open", "close", "delete"} /\ e # bridge'[a]
                               => answers'[e] # << >>
                        /\ found'[a] # None => pc'[found'[a]] \in {"answered", "take", "execute"}
      BY DEF OpenCallInv
    <3>1. a = b /\ bridge'[a] = r /\ found'[a] = dbrmap
      BY <1>1 DEF Call, TypeOK, OneOpenAtATime, Undisturbed
    <3>2. k = "open"
      BY <2>1, <3>1 DEF TypeOK
    <3>3. /\ \A e \in Requests : kind[e] \in {"open", "close", "delete"} => answers[e] # << >>
          /\ \A e \in Requests : kind[e] = "open" => answers[e] # <<"error">>
      BY <1>1, <3>2 DEF Call, Allowed, Unanswered, OneOpenAtATime
    <3>4. ASSUME dbrmap # None PROVE pc[dbrmap] \in {"answered", "take", "execute"}
      <4>1. dbrmap \in Requests /\ pc[dbrmap] \in Alive
        BY <1>0, <3>4 DEF TypeOK, MapIsAlive, Alive
      <4>2. kind[dbrmap] = "open" /\ pc[dbrmap] \notin {"start", "opened", "failed"}
        BY <1>0, <3>3, <4>1 DEF FreshInv, FailedInv, Alive
      <4>3. pc[dbrmap] \notin {"close", "remove"}
        BY <1>0, <3>3, <4>1 DEF HeldInv, ClosingInv, Waiting, HoldsRequest
      <4> QED BY <4>1, <4>2, <4>3 DEF Alive
    <3> QED BY <2>1, <3>1, <3>3, <3>4 DEF TypeOK
  <2> QED BY <2>2, <2>3, <2>4 DEF OpenInv
<1>2. ASSUME NEW b \in Bridges, StartDatabase(b) PROVE OpenInv'
  <2>1. bridge[b] \in Requests /\ pc[bridge[b]] = "none"
    BY <1>0, <1>2 DEF StartDatabase, TypeOK, BridgeInv
  <2>2. OpenCallInv'
    BY <1>2 DEF StartDatabase, Return, TypeOK, OpenCallInv, OneOpenAtATime, Undisturbed
  <2>3. FailedInv' /\ ClosingInv'
    BY <1>0, <1>2, <2>1 DEF StartDatabase, Return, Reply, TypeOK, FailedInv, ClosingInv
  <2> QED BY <2>2, <2>3 DEF OpenInv
<1>3. ASSUME NEW b \in Bridges, PutQuery(b) PROVE OpenInv'
  BY <1>0, <1>3 DEF PutQuery, Return, TypeOK, OpenInv, FailedInv, ClosingInv, OpenCallInv
<1>4. ASSUME NEW b \in Bridges, AnswerWithoutRunner(b) PROVE OpenInv'
  <2>1. bridge[b] \in Requests /\ pc[bridge[b]] = "none"
    BY <1>0, <1>4 DEF AnswerWithoutRunner, TypeOK, BridgeInv
  <2>2. OpenCallInv'
    BY <1>4 DEF AnswerWithoutRunner, Return, TypeOK, OpenCallInv, OneOpenAtATime, Undisturbed
  <2>3. FailedInv' /\ ClosingInv'
    BY <1>0, <1>4, <2>1
    DEF AnswerWithoutRunner, Return, Reply, TypeOK, FailedInv, ClosingInv
  <2> QED BY <2>2, <2>3 DEF OpenInv
<1>5. ASSUME NEW r \in Requests, NEW e \in Requests, NEW answer \in {"success", "error"},
             answers[e] = << >>, Reply(e, answer)
      PROVE  /\ answers'[e] = <<answer>>
             /\ \A f \in Requests \ {e} : answers'[f] = answers[f]
             /\ \A f \in Requests : answers[f] # << >> => answers'[f] # << >>
  BY <1>5 DEF Reply, TypeOK
<1>6. ASSUME NEW r \in Requests, OpenDatabase(r) \/ AssignMydbc(r) PROVE OpenInv'
  <2>1. /\ pc[r] \in {"start", "answered"} /\ pc'[r] \in {"opened", "take"}
        /\ \A s \in Requests \ {r} : pc'[s] = pc[s]
        /\ pc[r] = "answered" => pc'[r] = "take"
        /\ UNCHANGED <<kind, answers, bridge, found, dbq>>
    BY <1>6 DEF OpenDatabase, AssignMydbc, GoTo, TypeOK, callVars, bridgeVars
  <2> QED BY <1>0, <2>1 DEF TypeOK, OpenInv, FailedInv, ClosingInv, OpenCallInv
<1>7. ASSUME NEW r \in Requests, AnswerOpen(r) \/ OpenDatabaseFails(r) PROVE OpenInv'
  <2>1. /\ pc[r] \in {"start", "opened"} /\ pc'[r] \in {"answered", "failed"}
        /\ \A s \in Requests \ {r} : pc'[s] = pc[s]
        /\ UNCHANGED <<kind, bridge, found, dbq>>
    BY <1>7 DEF AnswerOpen, OpenDatabaseFails, GoTo, TypeOK, bridgeVars
  <2>2. PICK answer \in {"success", "error"} :
          Reply(r, answer) /\ (pc'[r] = "failed" => answer = "error")
    BY <1>7, <2>1 DEF AnswerOpen, OpenDatabaseFails, GoTo, TypeOK
  <2>3. answers[r] = << >>
    BY <1>0, <2>1 DEF FreshInv
  <2>4. /\ answers'[r] = <<answer>>
        /\ \A f \in Requests \ {r} : answers'[f] = answers[f]
        /\ \A f \in Requests : answers[f] # << >> => answers'[f] # << >>
    BY <1>5, <2>2, <2>3
  <2>5. FailedInv' /\ ClosingInv'
    BY <1>0, <2>1, <2>2, <2>4 DEF FailedInv, ClosingInv
  <2>6. OpenCallInv'
    BY <1>0, <2>1, <2>4 DEF TypeOK, OpenCallInv
  <2> QED BY <2>5, <2>6 DEF OpenInv
<1>8. ASSUME NEW r \in Requests, RemoveFailed(r) \/ CloseDatabaseNow(r) \/ RemoveItself(r)
      PROVE OpenInv'
  <2>1. /\ pc[r] \in {"failed", "close", "remove"} /\ pc'[r] \in {"end", "remove", "answer"}
        /\ pc'[r] = "remove" => pc[r] = "close"
        /\ \A s \in Requests \ {r} : pc'[s] = pc[s]
        /\ UNCHANGED <<kind, answers, bridge, found, dbq>>
    BY <1>8 DEF RemoveFailed, CloseDatabaseNow, RemoveItself, GoTo, TypeOK, callVars, bridgeVars
  <2> QED BY <1>0, <2>1 DEF TypeOK, OpenInv, FailedInv, ClosingInv, OpenCallInv
<1>9. ASSUME NEW r \in Requests, Take(r) PROVE OpenInv'
  <2>1. q[r] \in Seq(Requests) /\ q[r] # << >> /\ pc[r] = "take"
    BY <1>0, <1>9 DEF Take, NoStopInv
  <2>2. Head(q[r]) = q[r][1] /\ 1 \in 1..Len(q[r]) /\ q[r][1] \in Requests
    BY <2>1
  <2>3. Waiting(q[r][1])
    BY <1>0, <2>2 DEF QueuedInv
  <2>4. /\ pc'[r] = IF kind[q[r][1]] = "batch" THEN "execute" ELSE "close"
        /\ dbq'[r] = q[r][1]
        /\ \A s \in Requests \ {r} : pc'[s] = pc[s] /\ dbq'[s] = dbq[s]
        /\ UNCHANGED <<kind, answers, bridge, found>>
    BY <1>9, <2>2 DEF Take, PlaceFor, GoTo, TypeOK, callVars, bridgeVars
  <2>5. kind[q[r][1]] \in {"batch", "close", "delete"}
    BY <2>2, <2>3 DEF Waiting, TypeOK, Kinds
  <2>6. FailedInv' /\ ClosingInv'
    BY <1>0, <2>4, <2>5 DEF FailedInv, ClosingInv
  <2>7. OpenCallInv'
    <3> SUFFICES ASSUME NEW b \in Bridges, bridge[b] # None, kind[bridge[b]] = "open",
                        found[b] = r
                 PROVE  pc'[r] = "execute"
      BY <1>0, <2>1, <2>4 DEF TypeOK, OpenCallInv
    <3> QED BY <1>0, <2>2, <2>3, <2>4, <2>5 DEF Waiting, OpenCallInv
  <2> QED BY <2>6, <2>7 DEF OpenInv
<1>10. ASSUME NEW r \in Requests, ExecuteBatch(r) \/ AnswerClose(r) PROVE OpenInv'
  <2>1. /\ pc[r] \in {"execute", "answer"} /\ pc'[r] \in {"take", "end"}
        /\ pc[r] = "execute" => pc'[r] = "take"
        /\ \A s \in Requests \ {r} : pc'[s] = pc[s]
        /\ \E answer \in {"success", "error"} : Reply(dbq[r], answer)
        /\ UNCHANGED <<kind, bridge, found, dbq>>
    BY <1>10 DEF ExecuteBatch, AnswerClose, GoTo, TypeOK, bridgeVars
  <2>2. Waiting(dbq[r]) /\ dbq[r] \in Requests
    BY <1>0, <2>1 DEF HeldInv, HoldsRequest
  <2>3. /\ \A f \in Requests \ {dbq[r]} : answers'[f] = answers[f]
        /\ \A f \in Requests : answers[f] # << >> => answers'[f] # << >>
    BY <1>5, <2>1, <2>2 DEF Waiting
  <2>4. FailedInv' /\ ClosingInv'
    <3>1. \A s \in Requests : pc[s] = "failed" => s # dbq[r]
      BY <1>0, <2>2 DEF FreshInv, Waiting
    <3> QED BY <1>0, <2>1, <2>3, <3>1 DEF FailedInv, ClosingInv
  <2>5. OpenCallInv'
    BY <1>0, <2>1, <2>3 DEF TypeOK, OpenCallInv
  <2> QED BY <2>4, <2>5 DEF OpenInv
<1>11. ~Destroy /\ ~OnDestroy
  BY <1>0 DEF Destroy, OnDestroy, DestroyCheck, DestroyClose, DestroyStop,
     DestroyRemove, NoStopInv, OneOpenAtATime, Undisturbed
<1>12. CASE UNCHANGED vars
  BY <1>0, <1>12 DEF vars, callVars, bridgeVars, runnerVars, OpenInv, FailedInv, ClosingInv,
     OpenCallInv
<1> QED
  BY <1>1, <1>2, <1>3, <1>4, <1>6, <1>7, <1>8, <1>9, <1>10, <1>11, <1>12 DEF Next, Run, Act

\* An open is answered with success when there is a connection: the runner that
\* execute() has found cannot fail, close or be removed before the answer.
THEOREM OpenSucceedsWithConnection == ASSUME OneOpenAtATime PROVE Spec => OpenAnswerIsTrue
<1> DEFINE Inv == TypeOK /\ HoldsRequest /\ RunnerInv /\ OnceInv /\ OpenInv
           Step == \A r \in Requests :
                     kind[r] = "open" /\ answers'[r] # answers[r] /\ answers'[r] = <<"success">>
                       => \E s \in Requests : connection'[s] = "open"
<1>1. Init => Inv
  <2>1. Init => TypeOK /\ HoldsRequest /\ RunnerInv
    BY DBRunnerAssumption DEF Init, TypeOK, HoldsRequest, Places, RunnerInv, MapIsAlive,
       ConnectionInv, Connecting, FoundInv, NoStopInv
  <2>2. Init => OnceInv
    BY DBRunnerAssumption DEF Init, OnceInv, AnsweredAtMostOnce, FreshInv, BridgeInv,
       QueuedInv, HeldInv, Busy
  <2>3. Init => OpenInv
    BY DBRunnerAssumption DEF Init, OpenInv, FailedInv, ClosingInv, OpenCallInv
  <2> QED BY <2>1, <2>2, <2>3
<1>2. Inv /\ [Next]_vars => Inv'
  BY TypeInduction, RunnerInduction, OnceInduction, OpenInduction DEF OneOpenAtATime
<1>3. Inv /\ [Next]_vars => [Step]_vars
  <2> SUFFICES ASSUME Inv, Next, NEW r \in Requests, kind[r] = "open",
                      answers'[r] # answers[r], answers'[r] = <<"success">>
               PROVE  \E s \in Requests : connection'[s] = "open"
    OBVIOUS
  <2>0. ConnectionInv /\ OpenCallInv /\ HeldInv /\ NoStopInv
    BY DEF RunnerInv, OnceInv, OpenInv
  <2>1. ASSUME NEW b \in Bridges, StartDatabase(b)
        PROVE  \E s \in Requests : connection'[s] = "open"
    <3>1. /\ bridge[b] # None /\ kind[bridge[b]] = "open" /\ found[b] \in Requests
          /\ connection' = connection
      BY <2>1 DEF StartDatabase, TypeOK
    <3> QED BY <2>0, <3>1, DBRunnerAssumption DEF OpenCallInv, ConnectionInv, Connecting
  <2>2. ASSUME NEW s \in Requests, AnswerOpen(s)
        PROVE  connection'[s] = "open"
    BY <2>0, <2>2 DEF AnswerOpen, ConnectionInv, Connecting
  <2>3. ASSUME NEW s \in Requests, OpenDatabaseFails(s) PROVE FALSE
    <3>1. Reply(s, "error")
      BY <2>3 DEF OpenDatabaseFails
    <3>2. answers'[r] = Append(answers[r], "error") /\ answers[r] \in Seq({"success", "error"})
      BY <3>1 DEF Reply, TypeOK
    <3>3. answers'[r][Len(answers[r]) + 1] = "error" /\ Len(answers[r]) + 1 = 1
      BY <3>2
    <3> QED BY <3>3
  <2>4. ASSUME NEW s \in Requests, ExecuteBatch(s) \/ AnswerClose(s) PROVE FALSE
    <3>1. Waiting(dbq[s]) /\ \E answer : Reply(dbq[s], answer)
      BY <2>0, <2>4 DEF ExecuteBatch, AnswerClose, HeldInv, Busy
    <3> QED BY <3>1 DEF Waiting, Reply, TypeOK
  <2>5. ASSUME NEW b \in Bridges, AnswerWithoutRunner(b) PROVE FALSE
    BY <2>5 DEF AnswerWithoutRunner, Reply, TypeOK
  <2>6. ~Destroy /\ ~OnDestroy
    BY <2>0 DEF Destroy, OnDestroy, DestroyCheck, DestroyClose, DestroyStop,
       DestroyRemove, NoStopInv, OneOpenAtATime, Undisturbed
  <2>7. ASSUME NEW b \in Bridges, NEW e \in Requests, NEW k \in Kinds, Call(b, e, k)
        PROVE  FALSE
    BY <2>7 DEF Call
  <2>8. ASSUME NEW b \in Bridges, PutQuery(b) PROVE FALSE
    BY <2>8 DEF PutQuery
  <2>9. ASSUME NEW s \in Requests,
               \/ OpenDatabase(s) \/ AssignMydbc(s) \/ RemoveFailed(s) \/ Take(s)
               \/ CloseDatabaseNow(s) \/ RemoveItself(s)
        PROVE  FALSE
    BY <2>9 DEF OpenDatabase, AssignMydbc, RemoveFailed, Take, CloseDatabaseNow, RemoveItself,
       callVars
  <2> QED BY <2>1, <2>2, <2>3, <2>4, <2>5, <2>6, <2>7, <2>8, <2>9 DEF Next, Run, Act
<1> QED BY <1>1, <1>2, <1>3, PTL DEF Spec, OpenAnswerIsTrue

-----------------------------------------------------------------------------
(* onDestroy() closes all connections.                                      *)

\* One bridge thread; onDestroy() comes when no open is under way, and no request
\* after it.
OrderlyEnd ==
  /\ \A a, b \in Bridges : a = b
  /\ {"destroyOpening", "callDestroyed"} \cap Overlaps = {}

\* Before onDestroy() the map and the queues are as without it.
IdleInv ==
  destroy = "idle" =>
    MapIsAlive /\ FoundInv /\ \A r \in Requests : \A i \in 1..Len(q[r]) : q[r][i] # Stop

\* Once it has begun, no connection is being opened.
NoOpeningInv ==
  destroy # "idle" =>
    /\ \A r \in Requests : pc[r] \notin {"start", "opened", "answered"}
    /\ \A b \in Bridges : bridge[b] # None => kind[bridge[b]] # "open"

\* An open connection is that of the runner in the map, which is not stopped
\* while it is open; nobody else is in the map as long as a runner is alive.
OpenIsMappedInv ==
  /\ \A r \in Requests : connection[r] = "open" =>
       dbrmap = r /\ pc[r] \in Connecting /\ \A i \in 1..Len(q[r]) : q[r][i] # Stop
  /\ \A r \in Requests : pc[r] \in Alive => dbrmap \in {r, None}

\* Behind the close of onDestroy() nothing is open.
DisposedInv ==
  destroy \in {"stop", "remove", "done"} => \A r \in Requests : connection[r] # "open"

DestroyInv == IdleInv /\ NoOpeningInv /\ OpenIsMappedInv /\ DisposedInv

LEMMA DestroyInduction ==
  ASSUME OrderlyEnd, TypeOK, HoldsRequest, OnceInv, DestroyInv, [Next]_vars
  PROVE  DestroyInv'
<1> USE DBRunnerAssumption DEF Alive, Connecting
<1>0. IdleInv /\ NoOpeningInv /\ OpenIsMappedInv /\ DisposedInv
  BY DEF DestroyInv
<1>1. ASSUME NEW b \in Bridges, NEW r \in Requests, NEW k \in Kinds, Call(b, r, k)
      PROVE DestroyInv'
  <2>1. destroy = "idle" /\ destroy' = "idle"
    BY <1>1 DEF Call, Allowed, OrderlyEnd
  <2>2. FoundInv'
    BY <1>0, <1>1, <2>1 DEF Call, FoundInv, IdleInv, TypeOK, OrderlyEnd
  <2> QED BY <1>0, <1>1, <2>1, <2>2 DEF Call, runnerVars, DestroyInv, IdleInv, MapIsAlive,
        NoOpeningInv, OpenIsMappedInv, DisposedInv
<1>2. ASSUME NEW b \in Bridges, StartDatabase(b) PROVE DestroyInv'
  <2>1. bridge[b] \in Requests /\ destroy = "idle" /\ destroy' = "idle"
    BY <1>0, <1>2 DEF StartDatabase, Return, TypeOK, NoOpeningInv
  <2>2. FoundInv'
    BY <1>2 DEF StartDatabase, Return, FoundInv, TypeOK, OrderlyEnd
  <2>3. CASE found[b] # None
    BY <1>0, <1>2, <2>1, <2>2, <2>3 DEF StartDatabase, Return, DestroyInv, IdleInv,
       MapIsAlive, NoOpeningInv, OpenIsMappedInv, DisposedInv
  <2>4. CASE found[b] = None
    <3>1. dbrmap = None
      BY <1>0, <1>2, <2>1, <2>4 DEF StartDatabase, IdleInv, FoundInv
    <3>2. \A r \in Requests : pc[r] \notin Alive /\ connection[r] # "open"
      BY <1>0, <2>1, <3>1 DEF IdleInv, MapIsAlive, OpenIsMappedInv
    <3>3. dbrmap' = bridge[b] /\ pc' = [pc EXCEPT ![bridge[b]] = "start"]
      BY <1>2, <2>4 DEF StartDatabase
    <3>4. MapIsAlive' /\ OpenIsMappedInv'
      BY <1>2, <2>1, <3>2, <3>3 DEF StartDatabase, TypeOK, MapIsAlive, OpenIsMappedInv
    <3> QED BY <1>0, <1>2, <2>1, <2>2, <3>2, <3>4 DEF StartDatabase, Return, DestroyInv,
          IdleInv, NoOpeningInv, DisposedInv
  <2> QED BY <2>3, <2>4
<1>3. ASSUME NEW b \in Bridges, PutQuery(b) PROVE DestroyInv'
  <2>1. bridge[b] \in Requests /\ found[b] \in Requests
    BY <1>3 DEF PutQuery, TypeOK
  <2>2. \A r \in Requests : (\A i \in 1..Len(q[r]) : q[r][i] # Stop)
                            => \A i \in 1..Len(q'[r]) : q'[r][i] # Stop
    BY <1>3, <2>1 DEF PutQuery, TypeOK
  <2>3. UNCHANGED <<dbrmap, pc, connection, kind, destroy>>
    BY <1>3 DEF PutQuery, Return
  <2>4. FoundInv'
    BY <1>3 DEF PutQuery, Return, FoundInv, TypeOK, OrderlyEnd
  <2>5. NoOpeningInv'
    BY <1>0, <1>3, <2>3 DEF PutQuery, Return, TypeOK, NoOpeningInv
  <2> QED BY <1>0, <2>2, <2>3, <2>4, <2>5 DEF DestroyInv, IdleInv, MapIsAlive,
        OpenIsMappedInv, DisposedInv
<1>4. ASSUME NEW b \in Bridges, AnswerWithoutRunner(b) PROVE DestroyInv'
  BY <1>0, <1>4 DEF AnswerWithoutRunner, Return, TypeOK, DestroyInv, IdleInv, MapIsAlive,
     FoundInv, NoOpeningInv, OpenIsMappedInv, DisposedInv
<1>5. ASSUME NEW r \in Requests, OpenDatabase(r) PROVE DestroyInv'
  <2>1. destroy = "idle"
    BY <1>0, <1>5 DEF OpenDatabase, NoOpeningInv
  <2> QED BY <1>0, <1>5, <2>1 DEF OpenDatabase, GoTo, bridgeVars, TypeOK, DestroyInv,
        IdleInv, MapIsAlive, FoundInv, NoOpeningInv, OpenIsMappedInv, DisposedInv
<1>6. ASSUME NEW r \in Requests, AnswerOpen(r) PROVE DestroyInv'
  BY <1>0, <1>6 DEF AnswerOpen, GoTo, bridgeVars, TypeOK, DestroyInv, IdleInv, MapIsAlive,
     FoundInv, NoOpeningInv, OpenIsMappedInv, DisposedInv
<1>7. ASSUME NEW r \in Requests, AssignMydbc(r) PROVE DestroyInv'
  BY <1>0, <1>7 DEF AssignMydbc, GoTo, callVars, bridgeVars, TypeOK, DestroyInv, IdleInv,
     MapIsAlive, FoundInv, NoOpeningInv, OpenIsMappedInv, DisposedInv
<1>8. ASSUME NEW r \in Requests, OpenDatabaseFails(r) PROVE DestroyInv'
  BY <1>0, <1>8 DEF OpenDatabaseFails, GoTo, bridgeVars, TypeOK, DestroyInv, IdleInv,
     MapIsAlive, FoundInv, NoOpeningInv, OpenIsMappedInv, DisposedInv
<1>9. ASSUME NEW r \in Requests, RemoveFailed(r) \/ RemoveItself(r) PROVE DestroyInv'
  <2>1. /\ pc[r] \in {"failed", "remove"} /\ dbrmap' = None
        /\ \E place \in {"end", "answer"} : GoTo(r, place)
        /\ UNCHANGED <<kind, bridge, found, q, connection, destroy>>
    BY <1>9 DEF RemoveFailed, RemoveItself, callVars, bridgeVars
  <2>2. PICK place \in {"end", "answer"} : GoTo(r, place)
    BY <2>1
  <2>3. pc'[r] = place /\ \A s \in Requests \ {r} : pc'[s] = pc[s]
    BY <2>2 DEF GoTo, TypeOK
  <2>4. dbrmap \in {r, None}
    BY <1>0, <2>1 DEF OpenIsMappedInv
  <2>5. \A s \in Requests : connection[s] # "open"
    BY <1>0, <2>1, <2>4 DEF OpenIsMappedInv
  <2>6. destroy = "idle" => dbrmap = r
    BY <1>0, <2>1 DEF IdleInv, MapIsAlive
  <2>7. IdleInv'
    BY <1>0, <2>1, <2>3, <2>6 DEF IdleInv, MapIsAlive, FoundInv
  <2>8. NoOpeningInv'
    BY <1>0, <2>1, <2>3 DEF NoOpeningInv
  <2> QED BY <2>1, <2>5, <2>7, <2>8 DEF DestroyInv, OpenIsMappedInv, DisposedInv
<1>10. ASSUME NEW r \in Requests, Take(r) PROVE DestroyInv'
  <2>1. q[r] \in Seq(Requests \cup {Stop}) /\ q[r] # << >>
    BY <1>10 DEF Take, TypeOK
  <2>2. /\ Head(q[r]) = q[r][1] /\ 1 \in 1..Len(q[r])
        /\ Tail(q[r]) \in Seq(Requests \cup {Stop})
        /\ \A i \in 1..Len(Tail(q[r])) : i + 1 \in 1..Len(q[r]) /\ Tail(q[r])[i] = q[r][i + 1]
    BY <2>1
  <2>3. q' = [q EXCEPT ![r] = Tail(q[r])] /\ UNCHANGED <<kind, bridge, found, dbrmap, connection, destroy>>
    BY <1>10 DEF Take, callVars, bridgeVars
  <2>4. \A s \in Requests : (\A i \in 1..Len(q[s]) : q[s][i] # Stop)
                            => \A i \in 1..Len(q'[s]) : q'[s][i] # Stop
    <3> SUFFICES ASSUME NEW s \in Requests, \A i \in 1..Len(q[s]) : q[s][i] # Stop,
                        NEW i \in 1..Len(q'[s])
                 PROVE  q'[s][i] # Stop
      OBVIOUS
    <3>1. q \in [Requests -> Seq(Requests \cup {Stop})]
      BY DEF TypeOK
    <3>2. CASE s = r
      BY <2>2, <2>3, <3>1, <3>2
    <3>3. CASE s # r
      BY <2>3, <3>1, <3>3
    <3> QED BY <3>2, <3>3
  <2>5. /\ pc[r] = "take" /\ pc'[r] \in {"execute", "close", "end"}
        /\ pc'[r] = "end" => q[r][1] = Stop
        /\ \A s \in Requests \ {r} : pc'[s] = pc[s]
    <3>1. GoTo(r, PlaceFor(q[r][1])) /\ pc[r] = "take"
      BY <1>10, <2>2 DEF Take
    <3>2. /\ PlaceFor(q[r][1]) \in {"execute", "close", "end"}
          /\ PlaceFor(q[r][1]) = "end" => q[r][1] = Stop
      BY DEF PlaceFor
    <3> QED BY <3>1, <3>2 DEF GoTo, TypeOK
  <2>6. IdleInv'
    BY <1>0, <2>2, <2>3, <2>4, <2>5 DEF IdleInv, MapIsAlive, FoundInv
  <2>7. OpenIsMappedInv'
    BY <1>0, <2>2, <2>3, <2>4, <2>5 DEF OpenIsMappedInv
  <2>8. NoOpeningInv' /\ DisposedInv'
    BY <1>0, <2>3, <2>5 DEF NoOpeningInv, DisposedInv
  <2> QED BY <2>6, <2>7, <2>8 DEF DestroyInv
<1>11. ASSUME NEW r \in Requests, ExecuteBatch(r) PROVE DestroyInv'
  BY <1>0, <1>11 DEF ExecuteBatch, GoTo, bridgeVars, TypeOK, DestroyInv, IdleInv, MapIsAlive,
     FoundInv, NoOpeningInv, OpenIsMappedInv, DisposedInv
<1>12. ASSUME NEW r \in Requests, CloseDatabaseNow(r) PROVE DestroyInv'
  <2>1. /\ pc[r] = "close" /\ pc'[r] = "remove" /\ \A s \in Requests \ {r} : pc'[s] = pc[s]
        /\ UNCHANGED <<kind, bridge, found, q, dbrmap, destroy>>
    BY <1>12 DEF CloseDatabaseNow, GoTo, TypeOK, callVars, bridgeVars
  <2>2. \A s \in Requests : connection'[s] # "open"
    <3> SUFFICES ASSUME NEW s \in Requests, connection'[s] = "open" PROVE FALSE
      OBVIOUS
    <3>1. connection[s] = "open" /\ ~(s = dbrmap /\ HasMydbc(s))
      BY <1>12 DEF CloseDatabaseNow, Dispose
    <3>2. dbrmap = s /\ s = r
      BY <1>0, <2>1, <3>1 DEF OpenIsMappedInv
    <3> QED BY <2>1, <3>1, <3>2 DEF HasMydbc
  <2>3. IdleInv' /\ NoOpeningInv'
    BY <1>0, <2>1 DEF IdleInv, MapIsAlive, FoundInv, NoOpeningInv
  <2> QED BY <1>0, <2>1, <2>2, <2>3 DEF DestroyInv, OpenIsMappedInv, DisposedInv
<1>13. ASSUME NEW r \in Requests, AnswerClose(r) PROVE DestroyInv'
  BY <1>0, <1>13 DEF AnswerClose, GoTo, bridgeVars, TypeOK, DestroyInv, IdleInv, MapIsAlive,
     FoundInv, NoOpeningInv, OpenIsMappedInv, DisposedInv
<1>14. CASE Destroy
  <2>1. ~Unanswered({"open"}) /\ \A r \in Requests : pc[r] # "answered"
    BY <1>14 DEF Destroy, OrderlyEnd
  <2>2. destroy = "idle" /\ destroy' = "check" /\ UNCHANGED <<kind, bridge, pc, dbrmap, connection, q>>
    BY <1>14 DEF Destroy, callVars, bridgeVars, runnerVars
  <2>3. NoOpeningInv'
    BY <2>1, <2>2 DEF NoOpeningInv, Unanswered, OnceInv, FreshInv, BridgeInv, TypeOK
  <2> QED BY <1>0, <2>2, <2>3 DEF DestroyInv, IdleInv, OpenIsMappedInv, DisposedInv
<1>15. CASE OnDestroy
  <2>1. CASE DestroyCheck
    BY <1>0, <2>1 DEF DestroyCheck, callVars, bridgeVars, runnerVars, TypeOK, DestroyInv,
       IdleInv, NoOpeningInv, OpenIsMappedInv, DisposedInv
  <2>2. CASE DestroyClose
    <3>1. CASE dbrmap = None
      BY <1>0, <2>2, <3>1 DEF DestroyClose, callVars, bridgeVars, DestroyInv, IdleInv,
         NoOpeningInv, OpenIsMappedInv, DisposedInv
    <3>2. CASE dbrmap # None
      <4>1. /\ destroy = "next" /\ destroy' = "stop" /\ Dispose
            /\ UNCHANGED <<kind, bridge, found, dbrmap, pc, q>>
        BY <2>2, <3>2 DEF DestroyClose, callVars, bridgeVars
      <4>2. \A s \in Requests : connection'[s] # "open"
        <5> SUFFICES ASSUME NEW s \in Requests, connection'[s] = "open" PROVE FALSE
          OBVIOUS
        <5>1. connection[s] = "open" /\ ~(s = dbrmap /\ HasMydbc(s))
          BY <4>1 DEF Dispose
        <5> QED BY <1>0, <4>1, <5>1 DEF OpenIsMappedInv, NoOpeningInv, HasMydbc
      <4> QED BY <1>0, <4>1, <4>2 DEF DestroyInv, IdleInv, NoOpeningInv, OpenIsMappedInv,
            DisposedInv
    <3> QED BY <3>1, <3>2
  <2>3. CASE DestroyStop
    BY <1>0, <2>3 DEF DestroyStop, callVars, bridgeVars, DestroyInv, IdleInv,
       NoOpeningInv, OpenIsMappedInv, DisposedInv
  <2>4. CASE DestroyRemove
    BY <1>0, <2>4 DEF DestroyRemove, callVars, bridgeVars, runnerVars, DestroyInv, IdleInv,
       NoOpeningInv, OpenIsMappedInv, DisposedInv
  <2> QED BY <1>15, <2>1, <2>2, <2>3, <2>4 DEF OnDestroy
<1>16. CASE UNCHANGED vars
  BY <1>0, <1>16 DEF vars, callVars, bridgeVars, runnerVars, DestroyInv, IdleInv, MapIsAlive,
     FoundInv, NoOpeningInv, OpenIsMappedInv, DisposedInv
<1> QED
  BY <1>1, <1>2, <1>3, <1>4, <1>5, <1>6, <1>7, <1>8, <1>9, <1>10, <1>11, <1>12,
     <1>13, <1>14, <1>15, <1>16 DEF Next, Run, Act

\* When onDestroy() has worked through the map no connection is left open, with
\* one bridge thread, if no open was under way when it began and nothing was
\* asked for after that; runners may close and remove themselves meanwhile.
THEOREM NothingLeftOpen == ASSUME OrderlyEnd PROVE Spec => []DestroyClosesAll
<1>1. Init => TypeOK /\ HoldsRequest /\ OnceInv /\ DestroyInv
  <2>1. Init => TypeOK /\ HoldsRequest /\ OnceInv
    BY DBRunnerAssumption DEF Init, TypeOK, HoldsRequest, Places, OnceInv, AnsweredAtMostOnce,
       FreshInv, BridgeInv, QueuedInv, HeldInv, Busy
  <2>2. Init => DestroyInv
    BY DBRunnerAssumption DEF Init, DestroyInv, IdleInv, MapIsAlive, FoundInv, NoOpeningInv,
       OpenIsMappedInv, DisposedInv, Alive
  <2> QED BY <2>1, <2>2
<1>2. TypeOK /\ HoldsRequest /\ OnceInv /\ DestroyInv /\ [Next]_vars
        => (TypeOK /\ HoldsRequest /\ OnceInv /\ DestroyInv)'
  BY TypeInduction, OnceInduction, DestroyInduction
<1>3. DestroyInv => DestroyClosesAll
  BY DEF DestroyInv, DisposedInv, DestroyClosesAll
<1> QED BY <1>1, <1>2, <1>3, PTL DEF Spec

-----------------------------------------------------------------------------
(***************************************************************************)
(* The runners of a database implement DatabaseRequests: every step, seen  *)
(* through the mapping of DBRunnerRefinement, is a step of                 *)
(* DatabaseRequests or a stutter.                                          *)
(***************************************************************************)

\* One bridge thread, no onDestroy(), and an application that asks for an open
\* only when no other open is unanswered or has failed.  Batches, closes and
\* deletes need not wait for anything.
OpensOnce ==
  Undisturbed /\ {"openOpening", "retryOpen"} \cap Overlaps = {}

\* What a runner has taken is what it is carrying out.
QueryInv ==
  \A r \in Requests :
    /\ pc[r] = "execute" => kind[dbq[r]] = "batch"
    /\ pc[r] \in {"close", "remove", "answer"} => kind[dbq[r]] \in {"close", "delete"}

RequestInv == FailedInv /\ QueryInv

\* What the step from one state to the next rests on.
RequestsInv == TypeOK /\ HoldsRequest /\ RunnerInv /\ OnceInv /\ RequestInv

\* A step of DatabaseRequests, or none.
Simulated == [Database!Next]_(Database!vars)

LEMMA RequestInduction ==
  ASSUME TypeOK, HoldsRequest, RunnerInv, OnceInv, RequestInv, [Next]_vars
  PROVE  RequestInv'
<1> USE DBRunnerAssumption DEF Busy
<1>0. FailedInv /\ QueryInv /\ NoStopInv /\ FreshInv /\ HeldInv /\ BridgeInv /\ QueuedInv
  BY DEF RequestInv, RunnerInv, OnceInv
<1>1. ASSUME NEW b \in Bridges, NEW r \in Requests, NEW k \in Kinds, Call(b, r, k)
      PROVE RequestInv'
  <2>1. /\ kind' = [kind EXCEPT ![r] = k] /\ kind[r] = "none"
        /\ UNCHANGED <<answers, pc, dbq>>
    BY <1>1 DEF Call, runnerVars
  <2>2. \A s \in Requests : Busy(s) => dbq[s] # r /\ dbq[s] \in Requests
    BY <1>0, <2>1 DEF HeldInv, Waiting, HoldsRequest
  <2> QED BY <1>0, <2>1, <2>2 DEF RequestInv, FailedInv, QueryInv, TypeOK
<1>2. ASSUME NEW b \in Bridges, Act(b) PROVE RequestInv'
  <2>1. bridge[b] \in Requests /\ pc[bridge[b]] = "none" /\ answers[bridge[b]] = << >>
    BY <1>0, <1>2 DEF Act, StartDatabase, PutQuery, AnswerWithoutRunner, TypeOK, BridgeInv
  <2>2. /\ UNCHANGED <<kind, dbq>>
        /\ UNCHANGED pc \/ pc' = [pc EXCEPT ![bridge[b]] = "start"]
        /\ UNCHANGED answers \/ \E a : answers' = [answers EXCEPT ![bridge[b]] = Append(@, a)]
    BY <1>2 DEF Act, StartDatabase, PutQuery, AnswerWithoutRunner, Return, Reply
  <2> QED BY <1>0, <2>1, <2>2 DEF RequestInv, FailedInv, QueryInv, TypeOK
<1>3. ASSUME NEW r \in Requests, Run(r) PROVE RequestInv'
  <2>1. CASE Take(r)
    <3>1. Head(q[r]) \in Requests
      BY <1>0, <2>1 DEF Take, NoStopInv
    <3>2. kind[Head(q[r])] \in {"batch", "close", "delete"}
      <4>1. q[r] \in Seq(Requests) /\ q[r] # << >>
        BY <1>0, <2>1 DEF NoStopInv, Take
      <4>2. 1 \in 1..Len(q[r]) /\ Head(q[r]) = q[r][1]
        BY <4>1, EmptySeq
      <4>3. Waiting(Head(q[r]))
        BY <1>0, <3>1, <4>2 DEF QueuedInv
      <4> QED BY <3>1, <4>3 DEF Waiting, TypeOK, Kinds
    <3>3. /\ pc' = [pc EXCEPT ![r] = IF kind[Head(q[r])] = "batch" THEN "execute" ELSE "close"]
          /\ dbq' = [dbq EXCEPT ![r] = Head(q[r])] /\ UNCHANGED <<kind, answers>>
      BY <2>1, <3>1 DEF Take, GoTo, PlaceFor, callVars
    <3> QED BY <1>0, <3>2, <3>3 DEF RequestInv, FailedInv, QueryInv, TypeOK
  <2>2. CASE ~Take(r)
    <3>1. UNCHANGED <<kind, dbq>>
      BY <1>3, <2>2 DEF Run, OpenDatabase, AnswerOpen, AssignMydbc, OpenDatabaseFails,
         RemoveFailed, ExecuteBatch, CloseDatabaseNow, RemoveItself, AnswerClose, callVars
    <3>2. QueryInv'
      BY <1>0, <1>3, <2>2, <3>1 DEF Run, OpenDatabase, AnswerOpen, AssignMydbc,
         OpenDatabaseFails, RemoveFailed, ExecuteBatch, CloseDatabaseNow, RemoveItself,
         AnswerClose, GoTo, QueryInv, TypeOK
    <3>3. \/ UNCHANGED answers
          \/ \E a : answers' = [answers EXCEPT ![r] = Append(@, a)]
          \/ Busy(r) /\ \E a : answers' = [answers EXCEPT ![dbq[r]] = Append(@, a)]
      BY <1>3, <2>2 DEF Run, OpenDatabase, AnswerOpen, AssignMydbc, OpenDatabaseFails,
         RemoveFailed, ExecuteBatch, CloseDatabaseNow, RemoveItself, AnswerClose, Reply, callVars
    <3>4. ASSUME NEW s \in Requests, pc'[s] = "failed" PROVE answers'[s] = <<"error">>
      <4>1. CASE s = r
        <5>1. pc[r] \in {"start", "failed"} /\ (pc[r] = "start" => OpenDatabaseFails(r))
          BY <1>3, <2>2, <3>4, <4>1 DEF Run, OpenDatabase, AnswerOpen, AssignMydbc,
             OpenDatabaseFails, RemoveFailed, ExecuteBatch, CloseDatabaseNow, RemoveItself,
             AnswerClose, GoTo, TypeOK
        <5>2. CASE OpenDatabaseFails(r)
          <6>1. answers[r] = << >>
            BY <1>0, <5>2 DEF OpenDatabaseFails, FreshInv
          <6>2. answers'[r] = Append(<< >>, "error")
            BY <5>2, <6>1 DEF OpenDatabaseFails, Reply, TypeOK
          <6> QED BY <4>1, <6>2
        <5>3. CASE pc[r] = "failed"
          BY <1>3, <3>4, <4>1, <5>3 DEF Run, OpenDatabase, AnswerOpen, AssignMydbc, OpenDatabaseFails,
             Take, RemoveFailed, ExecuteBatch, CloseDatabaseNow, RemoveItself, AnswerClose, GoTo, TypeOK
        <5> QED BY <5>1, <5>2, <5>3
      <4>2. CASE s # r
        <5>1. pc[s] = "failed"
          BY <1>3, <2>2, <3>4, <4>2 DEF Run, OpenDatabase, AnswerOpen, AssignMydbc,
             OpenDatabaseFails, RemoveFailed, ExecuteBatch, CloseDatabaseNow, RemoveItself,
             AnswerClose, GoTo, TypeOK
        <5>2. answers[s] = <<"error">> /\ kind[s] = "open"
          BY <1>0, <5>1 DEF FailedInv, FreshInv
        <5>3. Busy(r) => dbq[r] # s
          BY <1>0, <5>2 DEF HeldInv, Waiting
        <5> QED BY <3>3, <4>2, <5>2, <5>3 DEF TypeOK
      <4> QED BY <4>1, <4>2
    <3> QED BY <3>2, <3>4 DEF RequestInv, FailedInv
  <2> QED BY <2>1, <2>2
<1>4. CASE Destroy \/ OnDestroy \/ UNCHANGED vars
  <2>1. UNCHANGED <<kind, answers, dbq, pc>>
    BY <1>4 DEF Destroy, OnDestroy, DestroyCheck, DestroyClose, DestroyStop, DestroyRemove,
       vars, callVars, runnerVars
  <2> QED BY <1>0, <2>1 DEF RequestInv, FailedInv, QueryInv
<1> QED BY <1>1, <1>2, <1>3, <1>4 DEF Next

LEMMA RequestsInvariant == ASSUME OpensOnce PROVE Spec => []RequestsInv
<1>1. Init => RequestsInv
  BY DBRunnerAssumption DEF Init, RequestsInv, TypeOK, HoldsRequest, Places,
     RunnerInv, MapIsAlive, ConnectionInv, Connecting, FoundInv, NoStopInv, OnceInv,
     AnsweredAtMostOnce, FreshInv, BridgeInv, QueuedInv, HeldInv, Busy,
     RequestInv, FailedInv, QueryInv
<1>2. RequestsInv /\ [Next]_vars => RequestsInv'
  BY TypeInduction, RunnerInduction, OnceInduction, RequestInduction DEF RequestsInv, OpensOnce
<1> QED BY <1>1, <1>2, PTL DEF Spec

-----------------------------------------------------------------------------
(* The steps of DatabaseRequests, in terms of the mapping. *)

LEMMA Stutters ==
  ASSUME UNCHANGED <<kind, Served, answers, Connected>> PROVE Simulated
  BY DEF Simulated, Database!vars

LEMMA Asks ==
  ASSUME NEW r \in Requests, kind[r] = "none", NEW k \in Kinds, kind' = [kind EXCEPT ![r] = k],
         \/ UNCHANGED <<Served, Connected>>
         \/ k \in {"open", "close", "delete"} /\ Served' = Served \cup {r} /\ Connected' = (k = "open"),
         UNCHANGED answers
  PROVE  Simulated
<1>1. Database!Ask(r)
  BY DEF Database!Ask, Database!TakeEffect, Kinds
<1> QED BY <1>1 DEF Simulated, Database!Next

LEMMA Serves ==
  ASSUME NEW r \in Requests, r \notin Served, answers[r] = << >>,
         kind[r] \in {"open", "close", "delete"}, Served' = Served \cup {r},
         Connected' = (kind[r] = "open"), UNCHANGED <<kind, answers>>
  PROVE  Simulated
<1>1. Database!Serve(r)
  BY DEF Database!Serve, Database!TakeEffect
<1> QED BY <1>1 DEF Simulated, Database!Next

LEMMA Answers ==
  ASSUME NEW r \in Requests, answers[r] = << >>, NEW a, answers' = [answers EXCEPT ![r] = <<a>>],
         UNCHANGED <<kind, Served, Connected>>,
         \/ r \in Served /\ (a = "success" \/ (a = "error" /\ kind[r] = "delete"))
         \/ kind[r] = "batch" /\ Connected /\ a = "success"
         \/ kind[r] \in {"open", "batch"} /\ r \notin Served /\ ~Connected /\ a = "error"
  PROVE  Simulated
<1>1. Database!Confirm(r) \/ Database!Execute(r) \/ Database!Refuse(r)
  BY DEF Database!Confirm, Database!Execute, Database!Refuse, Database!Tell
<1> QED BY <1>1 DEF Simulated, Database!Next

\* The answer to a request that has none.
LEMMA FirstReply ==
  ASSUME NEW r \in Requests, answers[r] = << >>, NEW a, Reply(r, a)
  PROVE  answers' = [answers EXCEPT ![r] = <<a>>]
<1>1. Append(<< >>, a) = <<a>>
  OBVIOUS
<1> QED BY <1>1 DEF Reply

-----------------------------------------------------------------------------
(* What has taken effect. *)

IsServed(r) == ServedOnBridge(r) \/ ServedByRunner(r) \/ (Told(r) /\ ~Refused(r))

LEMMA ServedSame ==
  ASSUME \A e \in Requests : IsServed(e)' <=> IsServed(e) PROVE UNCHANGED Served
  BY DEF Served, IsServed

LEMMA ServedMore ==
  ASSUME NEW r \in Requests, IsServed(r)', \A e \in Requests \ {r} : IsServed(e)' <=> IsServed(e)
  PROVE  Served' = Served \cup {r}
  BY DEF Served, IsServed

LEMMA InServed == \A r \in Requests : r \in Served <=> IsServed(r)
  BY DEF Served, IsServed

\* A request that is not asked for, or waits in a queue, has not taken effect.
LEMMA NotServed ==
  ASSUME RequestsInv, NEW r \in Requests
  PROVE  /\ kind[r] = "none" => ~IsServed(r)
         /\ Waiting(r) /\ (\A s \in Requests : pc[s] = "answer" => dbq[s] # r) => ~IsServed(r)
<1> USE DEF RequestsInv, OnceInv, IsServed, ServedOnBridge, ServedByRunner, Told
<1>1. ASSUME kind[r] = "none" PROVE ~IsServed(r)
  BY <1>1, DBRunnerAssumption DEF FreshInv, BridgeInv, HeldInv, Busy, Waiting
<1>2. ASSUME Waiting(r), \A s \in Requests : pc[s] = "answer" => dbq[s] # r PROVE ~IsServed(r)
  BY <1>2 DEF FreshInv, Waiting
<1> QED BY <1>1, <1>2

-----------------------------------------------------------------------------
(* Every step is a step of DatabaseRequests or a stutter. *)

LEMMA CallSimulated ==
  ASSUME OpensOnce, RequestsInv, NEW b \in Bridges, NEW r \in Requests, NEW k \in Kinds,
         Call(b, r, k)
  PROVE  Simulated
<1> USE DBRunnerAssumption DEF RequestsInv
<1>1. /\ kind[r] = "none" /\ kind' = [kind EXCEPT ![r] = k] /\ bridge[b] = None
      /\ bridge' = [bridge EXCEPT ![b] = r] /\ found' = [found EXCEPT ![b] = dbrmap]
      /\ UNCHANGED <<answers, dbrmap, pc, dbq>> /\ Allowed(k)
  BY DEF Call, runnerVars
<1>2. UNCHANGED Connected
  BY <1>1 DEF Connected
<1>3. ~IsServed(r) /\ pc[r] = "none" /\ answers[r] = << >>
  BY <1>1, NotServed DEF OnceInv, FreshInv
<1>4. ASSUME NEW e \in Requests \ {r} PROVE IsServed(e)' <=> IsServed(e)
  <2>1. \A a \in Bridges : a = b
    BY DEF OpensOnce, Undisturbed
  <2>2. ~ServedOnBridge(e) /\ ~ServedOnBridge(e)'
    BY <1>1, <1>4, <2>1 DEF ServedOnBridge, TypeOK
  <2>3. kind'[e] = kind[e]
    BY <1>1, <1>4 DEF TypeOK
  <2> QED BY <1>1, <2>2, <2>3 DEF IsServed, ServedByRunner, Told, Refused
<1>5. IsServed(r)' <=> IF k = "open" THEN dbrmap # None ELSE k # "batch" /\ dbrmap = None
  <2>1. ~ServedByRunner(r)' /\ ~Told(r)'
    <3>1. \A s \in Requests : pc[s] = "answer" => dbq[s] # r
      BY <1>1 DEF OnceInv, HeldInv, Busy, Waiting
    <3> QED BY <1>1, <1>3, <3>1 DEF ServedByRunner, Told
  <2>2. bridge'[b] = r /\ found'[b] = dbrmap /\ kind'[r] = k
    BY <1>1 DEF TypeOK
  <2>3. \A a \in Bridges : a = b
    BY DEF OpensOnce, Undisturbed
  <2>4. ServedOnBridge(r)' <=> IF k = "open" THEN dbrmap # None ELSE k # "batch" /\ dbrmap = None
    BY <2>2, <2>3 DEF ServedOnBridge
  <2> QED BY <2>1, <2>4 DEF IsServed
<1>6. CASE IF k = "open" THEN dbrmap # None ELSE k # "batch" /\ dbrmap = None
  <2>1. Served' = Served \cup {r}
    BY <1>4, <1>5, <1>6, ServedMore
  <2>2. k \in {"open", "close", "delete"}
    BY <1>6 DEF Kinds
  <2>3. Connected = (k = "open")
    <3>1. CASE k = "open"
      <4>1. dbrmap \in Requests /\ pc[dbrmap] \in Alive
        BY <1>6, <3>1 DEF TypeOK, RunnerInv, MapIsAlive, Alive
      <4>2. kind[dbrmap] = "open"
        BY <4>1 DEF OnceInv, FreshInv, Alive
      <4>3. answers[dbrmap] # << >> /\ answers[dbrmap] # <<"error">>
        BY <1>1, <3>1, <4>1, <4>2 DEF Allowed, Unanswered, OpensOnce
      <4>4. pc[dbrmap] \notin {"start", "failed"}
        BY <4>1, <4>3 DEF OnceInv, FreshInv, RequestInv, FailedInv
      <4> QED BY <1>6, <3>1, <4>4 DEF Connected
    <3>2. CASE k # "open"
      BY <1>6, <3>2 DEF Connected
    <3> QED BY <3>1, <3>2
  <2> QED BY <1>1, <1>2, <2>1, <2>2, <2>3, Asks
<1>7. CASE ~(IF k = "open" THEN dbrmap # None ELSE k # "batch" /\ dbrmap = None)
  <2>1. UNCHANGED Served
    BY <1>3, <1>4, <1>5, <1>7, ServedSame
  <2> QED BY <1>1, <1>2, <2>1, Asks
<1> QED BY <1>6, <1>7

LEMMA ActSimulated ==
  ASSUME OpensOnce, RequestsInv, NEW b \in Bridges, Act(b)
  PROVE  Simulated
<1> USE DBRunnerAssumption DEF RequestsInv
<1>1. PICK r \in Requests : r = bridge[b]
  BY DEF Act, StartDatabase, PutQuery, AnswerWithoutRunner, TypeOK
<1>2. /\ kind[r] # "none" /\ answers[r] = << >> /\ pc[r] = "none" /\ r # None
  BY <1>1 DEF OnceInv, BridgeInv
<1>3. /\ UNCHANGED <<kind, dbq>> /\ bridge' = [bridge EXCEPT ![b] = None]
  BY DEF Act, StartDatabase, PutQuery, AnswerWithoutRunner, Return
<1>4. \A a \in Bridges : a = b
  BY DEF OpensOnce, Undisturbed
<1>5. /\ \A e \in Requests : ~ServedOnBridge(e)'
      /\ \A e \in Requests \ {r} : ~ServedOnBridge(e)
      /\ ServedOnBridge(r) <=> IF kind[r] = "open" THEN found[b] # None
                               ELSE kind[r] # "batch" /\ found[b] = None
  BY <1>1, <1>3, <1>4 DEF ServedOnBridge, TypeOK
<1>6. ~ServedByRunner(r) /\ ~Told(r)
  <2>1. \A s \in Requests : pc[s] = "answer" => dbq[s] # r
    BY <1>1, <1>2 DEF OnceInv, HeldInv, Busy, Waiting
  <2> QED BY <1>2, <2>1 DEF ServedByRunner, Told
<1>7. found[b] = None => dbrmap = None
  BY <1>1, <1>2 DEF RunnerInv, FoundInv
<1>8. ASSUME NEW a, a \in {"success", "error"}, Reply(r, a), UNCHANGED <<dbrmap, pc>>,
             IF ServedOnBridge(r)
             THEN kind[r] # "batch" /\ (a = "success" \/ kind[r] = "delete")
             ELSE kind[r] = "batch" /\ dbrmap = None /\ a = "error"
      PROVE  Simulated
  <2>1. answers' = [answers EXCEPT ![r] = <<a>>]
    BY <1>2, <1>8, FirstReply
  <2>2. UNCHANGED Connected
    BY <1>8 DEF Connected
  <2>3. ASSUME NEW e \in Requests \ {r} PROVE IsServed(e)' <=> IsServed(e)
    <3>1. answers'[e] = answers[e]
      BY <2>1 DEF TypeOK
    <3> QED BY <1>3, <1>5, <1>8, <3>1 DEF IsServed, ServedByRunner, Told, Refused
  <2>4. IsServed(r) <=> ServedOnBridge(r)
    BY <1>6 DEF IsServed
  <2>5. IsServed(r)' <=> ServedOnBridge(r)
    <3>1. answers'[r] = <<a>> /\ ~ServedByRunner(r)'
      BY <1>3, <1>6, <1>8, <2>1 DEF TypeOK, ServedByRunner
    <3>2. Told(r)' <=> kind[r] # "batch"
      BY <1>3, <3>1 DEF Told
    <3>3. kind[r] # "batch" => ~Refused(r)'
      <4>1. kind[r] = "open" => a = "success"
        BY <1>8
      <4>2. <<"success">> # <<"error">>
        OBVIOUS
      <4> QED BY <1>3, <3>1, <4>1, <4>2 DEF Refused
    <3> QED BY <1>5, <1>8, <3>1, <3>2, <3>3 DEF IsServed
  <2>6. UNCHANGED Served
    BY <2>3, <2>4, <2>5, ServedSame
  <2>7. r \in Served <=> ServedOnBridge(r)
    BY <2>4, InServed
  <2>8. dbrmap = None => ~Connected
    BY DEF Connected
  <2> QED BY <1>2, <1>3, <1>8, <2>1, <2>2, <2>6, <2>7, <2>8, Answers
<1>9. ASSUME UNCHANGED <<answers, Connected>>, ~ServedOnBridge(r),
             UNCHANGED pc \/ pc' = [pc EXCEPT ![r] = "start"]
      PROVE  Simulated
  <2>1. ASSUME NEW e \in Requests PROVE IsServed(e)' <=> IsServed(e)
    <3>1. \A s \in Requests : /\ pc'[s] = "opened" <=> pc[s] = "opened"
                              /\ pc'[s] = "answer" <=> pc[s] = "answer"
      BY <1>2, <1>9 DEF TypeOK
    <3>2. ServedOnBridge(e)' <=> ServedOnBridge(e)
      BY <1>5, <1>9
    <3> QED BY <1>3, <1>9, <3>1, <3>2 DEF IsServed, ServedByRunner, Told, Refused
  <2>2. UNCHANGED Served
    BY <2>1, ServedSame
  <2> QED BY <1>3, <1>9, <2>2, Stutters
<1>10. CASE StartDatabase(b)
  <2>1. CASE found[b] # None
    BY <1>1, <1>5, <1>8, <1>10, <2>1 DEF StartDatabase
  <2>2. CASE found[b] = None
    <3>1. dbrmap' = r /\ pc' = [pc EXCEPT ![r] = "start"] /\ UNCHANGED answers /\ kind[r] = "open"
      BY <1>1, <1>10, <2>2 DEF StartDatabase
    <3>2. ~Connected /\ ~Connected'
      BY <1>7, <2>2, <3>1 DEF Connected, TypeOK
    <3> QED BY <1>5, <1>9, <2>2, <3>1, <3>2 DEF Connected
  <2> QED BY <2>1, <2>2
<1>11. CASE PutQuery(b)
  <2>1. UNCHANGED <<answers, dbrmap, pc>> /\ found[b] # None /\ kind[r] # "open"
    BY <1>1, <1>11 DEF PutQuery
  <2> QED BY <1>5, <1>9, <2>1 DEF Connected
<1>12. CASE AnswerWithoutRunner(b)
  <2>1. PICK a \in AnswersWithoutRunner(kind[r]) : Reply(r, a)
    BY <1>1, <1>12 DEF AnswerWithoutRunner
  <2>2. UNCHANGED <<dbrmap, pc>> /\ found[b] = None /\ kind[r] \in {"batch", "close", "delete"}
    BY <1>1, <1>2, <1>12 DEF AnswerWithoutRunner, TypeOK, Kinds
  <2>3. a \in {"success", "error"}
    BY <2>1 DEF AnswersWithoutRunner
  <2>4. kind[r] = "batch" => a = "error"
    BY <2>1 DEF AnswersWithoutRunner
  <2>5. kind[r] = "close" => a = "success"
    BY <2>1 DEF AnswersWithoutRunner
  <2> QED BY <1>5, <1>7, <1>8, <2>1, <2>2, <2>3, <2>4, <2>5
<1> QED BY <1>10, <1>11, <1>12 DEF Act

LEMMA RunSimulated ==
  ASSUME OpensOnce, RequestsInv, NEW r \in Requests, Run(r)
  PROVE  Simulated
<1> USE DBRunnerAssumption DEF RequestsInv
<1>1. UNCHANGED <<kind, bridge, found>>
  BY DEF Run, OpenDatabase, AnswerOpen, AssignMydbc, OpenDatabaseFails, RemoveFailed, Take,
     ExecuteBatch, CloseDatabaseNow, RemoveItself, AnswerClose, callVars, bridgeVars
<1>2. \A e \in Requests : ServedOnBridge(e)' <=> ServedOnBridge(e)
  BY <1>1 DEF ServedOnBridge
<1>3. dbrmap = r <=> pc[r] \in Alive
  BY DEF RunnerInv, MapIsAlive, Alive
<1>4. r # None
  OBVIOUS
\* A step that no request is served or answered by.
<1>5. ASSUME UNCHANGED <<answers, Connected>>,
             \A s \in Requests : /\ pc'[s] = "opened" <=> pc[s] = "opened"
                                 /\ pc'[s] = "answer" <=> pc[s] = "answer"
                                 /\ pc[s] = "answer" => dbq'[s] = dbq[s]
      PROVE  Simulated
  <2>1. ASSUME NEW e \in Requests PROVE IsServed(e)' <=> IsServed(e)
    BY <1>1, <1>2, <1>5 DEF IsServed, ServedByRunner, Told, Refused
  <2>2. UNCHANGED Served
    BY <2>1, ServedSame
  <2> QED BY <1>1, <1>5, <2>2, Stutters
<1>6. CASE AssignMydbc(r) \/ CloseDatabaseNow(r)
  <2>1. /\ UNCHANGED <<answers, dbrmap, dbq>> /\ pc[r] \in {"answered", "close"}
        /\ pc' = [pc EXCEPT ![r] = "take"] \/ pc' = [pc EXCEPT ![r] = "remove"]
    BY <1>6 DEF AssignMydbc, CloseDatabaseNow, GoTo, callVars
  <2>2. UNCHANGED Connected
    <3>1. dbrmap = r
      BY <1>3, <2>1 DEF Alive
    <3> QED BY <1>4, <2>1, <3>1 DEF Connected, TypeOK
  <2> QED BY <1>5, <2>1, <2>2 DEF TypeOK
<1>7. CASE RemoveFailed(r)
  <2>1. /\ UNCHANGED <<answers, dbq>> /\ pc[r] = "failed" /\ dbrmap' = None
        /\ pc' = [pc EXCEPT ![r] = "end"]
    BY <1>7 DEF RemoveFailed, GoTo, callVars
  <2>2. ~Connected /\ ~Connected'
    BY <1>3, <1>4, <2>1 DEF Connected, Alive
  <2>3. UNCHANGED Connected
    BY <2>2 DEF Connected
  <2> QED BY <1>5, <2>1, <2>3 DEF TypeOK
<1>8. CASE Take(r)
  <2>1. PICK x, y : /\ UNCHANGED <<answers, dbrmap>> /\ pc[r] = "take"
                    /\ pc' = [pc EXCEPT ![r] = x] /\ x \in {"end", "execute", "close"}
                    /\ dbq' = [dbq EXCEPT ![r] = y]
    <3>1. PlaceFor(Head(q[r])) \in {"end", "execute", "close"}
      BY DEF PlaceFor
    <3> QED BY <1>8, <3>1 DEF Take, GoTo, callVars
  <2>2. UNCHANGED Connected
    <3>1. dbrmap = r
      BY <1>3, <2>1 DEF Alive
    <3> QED BY <1>4, <2>1, <3>1 DEF Connected, TypeOK
  <2> QED BY <1>5, <2>1, <2>2 DEF TypeOK
<1>9. CASE OpenDatabase(r)
  <2>1. /\ UNCHANGED <<answers, dbrmap, dbq>> /\ pc[r] = "start" /\ dbrmap = r
        /\ pc' = [pc EXCEPT ![r] = "opened"]
    BY <1>3, <1>9 DEF OpenDatabase, GoTo, callVars, Alive
  <2>2. ~Connected /\ Connected' = TRUE
    BY <1>4, <2>1 DEF Connected, TypeOK
  <2>3. kind[r] = "open" /\ answers[r] = << >>
    BY <2>1 DEF OnceInv, FreshInv
  <2>4. ~IsServed(r)
    <3>1. \A s \in Requests : pc[s] = "answer" => dbq[s] # r
      BY <2>3 DEF OnceInv, HeldInv, Busy, Waiting
    <3>2. ~ServedOnBridge(r)
      BY <1>4, <2>1 DEF ServedOnBridge, OnceInv, BridgeInv
    <3> QED BY <2>1, <2>3, <3>1, <3>2 DEF IsServed, ServedByRunner, Told
  <2>5. IsServed(r)'
    BY <2>1 DEF IsServed, ServedByRunner, TypeOK
  <2>6. ASSUME NEW e \in Requests \ {r} PROVE IsServed(e)' <=> IsServed(e)
    <3>1. pc'[e] = pc[e] /\ \A s \in Requests : pc'[s] = "answer" <=> pc[s] = "answer"
      BY <2>1 DEF TypeOK
    <3> QED BY <1>1, <1>2, <2>1, <3>1 DEF IsServed, ServedByRunner, Told, Refused
  <2>7. Served' = Served \cup {r} /\ r \notin Served
    BY <2>4, <2>5, <2>6, ServedMore, InServed
  <2> QED BY <1>1, <2>1, <2>2, <2>3, <2>7, Serves
<1>10. CASE AnswerOpen(r) \/ OpenDatabaseFails(r)
  <2>1. PICK a \in {"success", "error"} :
          /\ Reply(r, a) /\ UNCHANGED <<dbrmap, dbq>>
          /\ IF a = "success" THEN pc[r] = "opened" /\ pc' = [pc EXCEPT ![r] = "answered"]
             ELSE pc[r] = "start" /\ pc' = [pc EXCEPT ![r] = "failed"]
    BY <1>10 DEF AnswerOpen, OpenDatabaseFails, GoTo, bridgeVars
  <2>2. dbrmap = r /\ kind[r] = "open" /\ answers[r] = << >>
    BY <1>3, <2>1 DEF Alive, OnceInv, FreshInv
  <2>3. answers' = [answers EXCEPT ![r] = <<a>>]
    BY <2>1, <2>2, FirstReply
  <2>4. /\ Connected' = (a = "success") /\ Connected = (a = "success")
    BY <1>4, <2>1, <2>2 DEF Connected, TypeOK
  <2>5. /\ ~ServedOnBridge(r)
        /\ \A s \in Requests : pc[s] = "answer" => dbq[s] # r
    <3>1. ~ServedOnBridge(r)
      BY <1>4, <2>1 DEF ServedOnBridge, OnceInv, BridgeInv
    <3>2. \A s \in Requests : pc[s] = "answer" => dbq[s] # r
      BY <2>2 DEF OnceInv, HeldInv, Busy, Waiting
    <3> QED BY <3>1, <3>2
  <2>6. \A s \in Requests : pc'[s] = "answer" <=> pc[s] = "answer"
    BY <2>1 DEF TypeOK
  <2>7. IsServed(r) <=> a = "success"
    BY <2>1, <2>2, <2>5 DEF IsServed, ServedByRunner, Told
  <2>8. IsServed(r)' <=> a = "success"
    <3>1. answers'[r] = <<a>> /\ pc'[r] # "opened" /\ ~ServedOnBridge(r)'
      BY <1>2, <2>1, <2>3, <2>5 DEF TypeOK
    <3>2. ~ServedByRunner(r)'
      BY <2>1, <2>5, <2>6, <3>1 DEF ServedByRunner
    <3>3. Told(r)' /\ (Refused(r)' <=> a = "error")
      BY <1>1, <2>2, <3>1 DEF Told, Refused
    <3> QED BY <3>1, <3>2, <3>3 DEF IsServed
  <2>9. ASSUME NEW e \in Requests \ {r} PROVE IsServed(e)' <=> IsServed(e)
    <3>1. pc'[e] = pc[e] /\ answers'[e] = answers[e]
      BY <2>1, <2>3 DEF TypeOK
    <3> QED BY <1>1, <1>2, <2>1, <2>6, <3>1 DEF IsServed, ServedByRunner, Told, Refused
  <2>10. UNCHANGED Served /\ (r \in Served <=> a = "success")
    BY <2>7, <2>8, <2>9, ServedSame, InServed
  <2> QED BY <1>1, <2>2, <2>3, <2>4, <2>10, Answers
\* A step that answers what the runner has taken.
<1>11. ASSUME NEW e \in Requests, NEW a \in {"success", "error"},
              Busy(r), e = dbq[r], Reply(e, a), UNCHANGED <<dbrmap, dbq, Connected>>,
              kind[e] \in {"batch", "close", "delete"},
              \/ pc[r] = "answer" /\ kind[e] # "batch" /\ (a = "success" \/ kind[e] = "delete")
              \/ pc[r] = "execute" /\ kind[e] = "batch" /\ a = "success" /\ Connected,
              pc' = [pc EXCEPT ![r] = "end"] \/ pc' = [pc EXCEPT ![r] = "take"]
       PROVE  Simulated
  <2>1. Waiting(e) /\ answers[e] = << >>
    BY <1>11 DEF OnceInv, HeldInv, Waiting
  <2>2. answers' = [answers EXCEPT ![e] = <<a>>]
    BY <1>11, <2>1, FirstReply
  <2>3. \A s \in Requests \ {r} : pc'[s] = pc[s] /\ (pc[s] = "answer" => dbq[s] # e)
    BY <1>11 DEF OnceInv, HeldInv, Busy, TypeOK
  <2>4. pc'[r] \notin {"opened", "answer"} /\ pc[r] # "opened"
    BY <1>11 DEF TypeOK
  <2>5. IsServed(e) <=> kind[e] # "batch"
    <3>1. CASE pc[r] = "answer"
      BY <1>11, <3>1 DEF IsServed, ServedByRunner
    <3>2. CASE pc[r] = "execute"
      <4>1. \A s \in Requests : pc[s] = "answer" => dbq[s] # e
        BY <2>3, <3>2
      <4> QED BY <1>11, <2>1, <3>2, <4>1, NotServed
    <3> QED BY <1>11, <3>1, <3>2
  <2>6. IsServed(e)' <=> kind[e] # "batch"
    <3>1. answers'[e] = <<a>>
      BY <2>2 DEF TypeOK
    <3>2. Told(e)' <=> kind[e] # "batch"
      BY <1>1, <3>1 DEF Told
    <3>3. ~Refused(e)'
      BY <1>1, <1>11 DEF Refused
    <3>4. kind[e] = "batch" => ~ServedByRunner(e)'
      <4>1. pc[e] # "opened" /\ pc'[e] # "opened"
        BY <1>11, <2>3, <2>4 DEF OnceInv, FreshInv
      <4> QED BY <1>11, <2>3, <2>4, <4>1 DEF ServedByRunner
    <3>5. ~ServedOnBridge(e)'
      BY <1>1, <2>1 DEF Waiting, ServedOnBridge
    <3> QED BY <3>2, <3>3, <3>4, <3>5 DEF IsServed
  <2>7. ASSUME NEW f \in Requests \ {e} PROVE IsServed(f)' <=> IsServed(f)
    <3>1. answers'[f] = answers[f]
      BY <2>2 DEF TypeOK
    <3>2. ServedByRunner(f)' <=> ServedByRunner(f)
      BY <1>11, <2>3, <2>4 DEF ServedByRunner
    <3> QED BY <1>1, <1>2, <3>1, <3>2 DEF IsServed, Told, Refused
  <2>8. UNCHANGED Served /\ (e \in Served <=> kind[e] # "batch")
    BY <2>5, <2>6, <2>7, ServedSame, InServed
  <2> QED BY <1>1, <1>11, <2>1, <2>2, <2>8, Answers
<1>12. CASE ExecuteBatch(r)
  <2>1. /\ pc[r] = "execute" /\ Reply(dbq[r], "success") /\ UNCHANGED <<dbrmap, dbq>>
        /\ pc' = [pc EXCEPT ![r] = "take"]
    BY <1>12 DEF ExecuteBatch, GoTo, bridgeVars
  <2>2. dbq[r] \in Requests /\ kind[dbq[r]] = "batch" /\ Busy(r)
    BY <2>1 DEF HoldsRequest, RequestInv, QueryInv, Busy
  <2>3. Connected = TRUE /\ Connected' = TRUE
    <3>1. dbrmap = r
      BY <1>3, <2>1 DEF Alive
    <3> QED BY <1>4, <2>1, <3>1 DEF Connected, TypeOK
  <2>4. PICK e \in Requests : e = dbq[r]
    BY <2>2
  <2> QED BY <1>11, <2>1, <2>2, <2>3, <2>4
<1>13. CASE AnswerClose(r)
  <2>1. /\ pc[r] = "answer" /\ UNCHANGED <<dbrmap, dbq>> /\ pc' = [pc EXCEPT ![r] = "end"]
        /\ \E a \in IF kind[dbq[r]] = "delete" THEN {"success", "error"} ELSE {"success"} :
             Reply(dbq[r], a)
    BY <1>13 DEF AnswerClose, GoTo, bridgeVars
  <2>2. dbq[r] \in Requests /\ kind[dbq[r]] \in {"close", "delete"} /\ Busy(r)
    BY <2>1 DEF HoldsRequest, RequestInv, QueryInv, Busy
  <2>3. UNCHANGED Connected
    <3>1. dbrmap # r
      BY <1>3, <2>1 DEF Alive
    <3> QED BY <2>1, <3>1 DEF Connected, TypeOK
  <2>4. PICK e \in Requests : e = dbq[r]
    BY <2>2
  <2>5. PICK a \in IF kind[e] = "delete" THEN {"success", "error"} ELSE {"success"} : Reply(e, a)
    BY <2>1, <2>4
  <2> QED BY <1>11, <2>1, <2>2, <2>3, <2>4, <2>5
<1>14. CASE RemoveItself(r)
  <2>1. /\ pc[r] = "remove" /\ dbrmap' = None /\ UNCHANGED <<answers, dbq>>
        /\ pc' = [pc EXCEPT ![r] = "answer"]
    BY <1>14 DEF RemoveItself, GoTo, callVars
  <2>2. PICK e \in Requests : e = dbq[r]
    BY <2>1 DEF HoldsRequest
  <2>3. kind[e] \in {"close", "delete"} /\ Waiting(e)
    BY <2>1, <2>2 DEF RequestInv, QueryInv, OnceInv, HeldInv, Busy
  <2>4. \A s \in Requests : pc[s] = "answer" => dbq[s] # e
    BY <2>1, <2>2 DEF OnceInv, HeldInv, Busy
  <2>5. ~IsServed(e)
    BY <2>3, <2>4, NotServed
  <2>6. IsServed(e)'
    BY <2>1, <2>2 DEF IsServed, ServedByRunner, TypeOK
  <2>7. ASSUME NEW f \in Requests \ {e} PROVE IsServed(f)' <=> IsServed(f)
    <3>1. /\ \A s \in Requests : pc'[s] = "opened" <=> pc[s] = "opened"
          /\ \A s \in Requests \ {r} : pc'[s] = "answer" <=> pc[s] = "answer"
      BY <2>1 DEF TypeOK
    <3>2. ServedByRunner(f)' <=> ServedByRunner(f)
      BY <2>1, <2>2, <3>1 DEF ServedByRunner
    <3> QED BY <1>1, <1>2, <2>1, <3>2 DEF IsServed, Told, Refused
  <2>8. Served' = Served \cup {e} /\ e \notin Served
    BY <2>5, <2>6, <2>7, ServedMore, InServed
  <2>9. Connected' = FALSE
    BY <2>1 DEF Connected
  <2> QED BY <1>1, <2>1, <2>3, <2>8, <2>9, Serves DEF Waiting
<1> QED BY <1>6, <1>7, <1>8, <1>9, <1>10, <1>12, <1>13, <1>14 DEF Run

LEMMA StepSimulated ==
  ASSUME OpensOnce
  PROVE  RequestsInv /\ [Next]_vars => Simulated
<1>0. SUFFICES ASSUME RequestsInv, [Next]_vars PROVE Simulated
  OBVIOUS
<1> USE <1>0
<1>1. ASSUME NEW b \in Bridges, NEW r \in Requests, NEW k \in Kinds, Call(b, r, k)
      PROVE Simulated
  BY <1>1, CallSimulated
<1>2. ASSUME NEW b \in Bridges, Act(b) PROVE Simulated
  BY <1>2, ActSimulated
<1>3. ASSUME NEW r \in Requests, Run(r) PROVE Simulated
  BY <1>3, RunSimulated
<1>4. ~Destroy /\ ~OnDestroy
  BY DEF RequestsInv, RunnerInv, NoStopInv, Destroy, OnDestroy, DestroyCheck, DestroyClose,
     DestroyStop, DestroyRemove, OpensOnce, Undisturbed
<1>5. CASE UNCHANGED vars
  <2>1. UNCHANGED <<kind, answers, bridge, found, dbrmap, pc, dbq>>
    BY <1>5 DEF vars, callVars, bridgeVars, runnerVars
  <2>2. UNCHANGED Connected
    BY <2>1 DEF Connected
  <2>3. \A e \in Requests : IsServed(e)' <=> IsServed(e)
    BY <2>1 DEF IsServed, ServedOnBridge, ServedByRunner, Told, Refused
  <2>4. UNCHANGED Served
    BY <2>3, ServedSame
  <2> QED BY <2>1, <2>2, <2>4, Stutters
<1> QED BY <1>1, <1>2, <1>3, <1>4, <1>5 DEF Next

LEMMA InitSimulated == Init => Database!Init
<1> SUFFICES ASSUME Init PROVE Database!Init
  OBVIOUS
<1>1. ~Connected
  BY DEF Init, Connected
<1>2. \A r \in Requests : ~IsServed(r)
  BY DBRunnerAssumption DEF Init, IsServed, ServedOnBridge, ServedByRunner, Told
<1>3. Served = {}
  BY <1>2 DEF Served, IsServed
<1>4. Connected = FALSE
  BY <1>1 DEF Connected
<1> QED BY <1>3, <1>4 DEF Init, Database!Init

\* The promise of DatabaseRequests for every set of requests: opens and closes
\* take effect at one moment between request and answer, batches are executed
\* on a connected database, and what is refused found none.
THEOREM RunnersServeRequests ==
  ASSUME OpensOnce
  PROVE  Spec => ImplementsDatabaseRequests
<1>1. Spec => []RequestsInv
  BY RequestsInvariant
<1>2. Init => Database!Init
  BY InitSimulated
<1>3. RequestsInv /\ [Next]_vars => [Database!Next]_(Database!vars)
  BY StepSimulated DEF Simulated
<1> QED BY <1>1, <1>2, <1>3, PTL DEF Spec, ImplementsDatabaseRequests, Database!Spec

=============================================================================
