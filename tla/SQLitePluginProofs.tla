------------------------- MODULE SQLitePluginProofs -------------------------
(***************************************************************************)
(* Proofs about SQLitePlugin, for any set of transactions and any bounds.  *)
(***************************************************************************)
EXTENDS SQLitePlugin, SequenceTheorems, TLAPS

-----------------------------------------------------------------------------
(* Sequences the engine builds. *)

\* User statements are statements.
LEMMA UsersType == ASSUME NEW n \in Nat PROVE Users(n) \in Seq(Statement) /\ Len(Users(n)) = n
  BY DEF Users, Statement

\* The preamble of a transaction is a non-empty sequence of statements.
LEMMA PreambleType ==
  ASSUME NEW k PROVE Preamble(k) \in Seq(Statement) /\ Preamble(k) # << >>
<1>1. <<"SELECT 1", "BEGIN">> \in Seq(Statement) /\ <<"SELECT 1", "BEGIN">> # << >>
  BY DEF Statement
<1>2. <<"BEGIN">> \in Seq(Statement) /\ <<"BEGIN">> # << >>
  BY DEF Statement
<1>3. <<"SELECT 1">> \in Seq(Statement) /\ <<"SELECT 1">> # << >>
  BY DEF Statement
<1> QED BY <1>1, <1>2, <1>3 DEF Preamble

\* Removing the first element of a sequence keeps its type.
LEMMA TailType == ASSUME NEW S, NEW s \in Seq(S), s # << >>
                  PROVE  Tail(s) \in Seq(S) /\ Head(s) \in S
  OBVIOUS

-----------------------------------------------------------------------------
(* Types. *)

\* Fields that a step leaves alone keep their types.
LEMMA UnchangedTypes ==
  ASSUME TypeOK
  PROVE  /\ UNCHANGED jsVars => JsTypeOK'
         /\ UNCHANGED txVars => TxTypeOK'
         /\ UNCHANGED sentVars => SentTypeOK'
         /\ UNCHANGED callVars => CallTypeOK'
         /\ UNCHANGED conn => conn' \in BOOLEAN
         /\ UNCHANGED sqlVars => SqlTypeOK'
<1>1. UNCHANGED jsVars => JsTypeOK'
  BY DEF TypeOK, JsTypeOK, jsVars
<1>2. UNCHANGED txVars => TxTypeOK'
  BY DEF TypeOK, TxTypeOK, txVars
<1>3. UNCHANGED sentVars => SentTypeOK'
  BY DEF TypeOK, SentTypeOK, sentVars
<1>4. UNCHANGED callVars => CallTypeOK'
  BY DEF TypeOK, CallTypeOK, callVars
<1>5. UNCHANGED sqlVars => SqlTypeOK'
  BY DEF TypeOK, SqlTypeOK, sqlVars
<1> QED BY <1>1, <1>2, <1>3, <1>4, <1>5 DEF TypeOK

\* Sending statements keeps the types of the three fields it sets.
LEMMA SendBatchType ==
  ASSUME NEW t \in Tx, NEW stmts \in Seq(Statement), TypeOK, SendBatch(t, stmts)
  PROVE  /\ batch' \in [Tx -> Seq(Statement)]
         /\ results' \in [Tx -> Seq({"ok", "error"})]
         /\ executes' \in [Tx -> Seq(Statement)]
  BY DEF TypeOK, TxTypeOK, SentTypeOK, SendBatch

LEMMA ClearBatchType ==
  ASSUME NEW t \in Tx, TypeOK, ClearBatch(t)
  PROVE  /\ batch' \in [Tx -> Seq(Statement)]
         /\ results' \in [Tx -> Seq({"ok", "error"})]
  BY DEF TypeOK, SentTypeOK, ClearBatch

\* One more report keeps the type of reports.
LEMMA ReportType ==
  ASSUME NEW t \in Tx, NEW o \in {"success", "error"}, TypeOK,
         reports' = [reports EXCEPT ![t] = Append(@, o)]
  PROVE  reports' \in [Tx -> Seq({"success", "error"})]
  BY DEF TypeOK, TxTypeOK

LEMMA ReleaseType ==
  ASSUME NEW t \in Tx, NEW o \in {"success", "error"}, TypeOK, Release(t, o)
  PROVE  /\ status' \in [Tx -> Statuses]
         /\ inProgress' \in BOOLEAN
         /\ ticks' \in Nat
         /\ reports' \in [Tx -> Seq({"success", "error"})]
<1>1. Report(t, o) \in Seq({"success", "error"})
  BY DEF Report, TypeOK, TxTypeOK
<1>2. reports' \in [Tx -> Seq({"success", "error"})]
  BY <1>1 DEF Release, TypeOK, TxTypeOK
<1>3. status' \in [Tx -> Statuses]
  BY DEF TypeOK, TxTypeOK, Release, Statuses
<1>4. ticks \in Nat
  BY DEF TypeOK, JsTypeOK
<1>5. ticks' \in Nat
  BY <1>4 DEF Release
<1>6. inProgress' \in BOOLEAN
  BY DEF Release
<1> QED BY <1>2, <1>3, <1>5, <1>6

\* The statements of the engine that are put into executes.
LEMMA ExecutesType ==
  ASSUME NEW t \in Tx, TypeOK
  PROVE  /\ executes[t] \in Seq(Statement)
         /\ \A s \in Statement : Append(executes[t], s) \in Seq(Statement)
         /\ \A n \in Nat : executes[t] \o Users(n) \in Seq(Statement)
         /\ <<"COMMIT">> \in Seq(Statement)
<1>1. executes[t] \in Seq(Statement)
  BY DEF TypeOK, TxTypeOK
<1>2. ASSUME NEW n \in Nat PROVE executes[t] \o Users(n) \in Seq(Statement)
  BY <1>1, UsersType, ConcatProperties
<1>3. <<"COMMIT">> \in Seq(Statement)
  BY DEF Statement
<1> QED BY <1>1, <1>2, <1>3, AppendProperties

\* Every step of Next keeps TypeOK.
LEMMA TypeOKStep == TypeOK /\ [Next]_vars => TypeOK'
<1>0. SUFFICES ASSUME TypeOK, [Next]_vars PROVE TypeOK'
  OBVIOUS
<1>1. CASE Open
  <2>1. JsTypeOK'
    BY <1>0, <1>1 DEF Open, TypeOK, JsTypeOK
  <2>2. CallTypeOK'
    BY <1>0, <1>1 DEF Open, TypeOK, CallTypeOK
  <2> QED BY <1>0, <1>1, <2>1, <2>2, UnchangedTypes DEF Open, TypeOK
<1>2. CASE OpenSuccess
  <2>1. JsTypeOK'
    BY <1>0, <1>2 DEF OpenSuccess, TypeOK, JsTypeOK
  <2>2. CallTypeOK'
    BY <1>0, <1>2, TailType DEF OpenSuccess, TypeOK, CallTypeOK
  <2> QED BY <1>0, <1>2, <2>1, <2>2, UnchangedTypes DEF OpenSuccess, TypeOK
<1>3. CASE OpenError
  <2>1. JsTypeOK'
    BY <1>0, <1>3 DEF OpenError, TypeOK, JsTypeOK
  <2>2. CallTypeOK'
    BY <1>0, <1>3, TailType DEF OpenError, TypeOK, CallTypeOK
  <2>3. reports' \in [Tx -> Seq({"success", "error"})]
    BY <1>0, <1>3 DEF OpenError, TypeOK, TxTypeOK
  <2>4. status' \in [Tx -> Statuses]
    BY <1>0, <1>3 DEF OpenError, TypeOK, TxTypeOK, Statuses
  <2>5. TxTypeOK'
    BY <1>0, <1>3, <2>3, <2>4 DEF OpenError, TypeOK, TxTypeOK
  <2> QED BY <1>0, <1>3, <2>1, <2>2, <2>5, UnchangedTypes DEF OpenError, TypeOK
<1>4. CASE Close
  <2>1. JsTypeOK'
    BY <1>0, <1>4 DEF Close, TypeOK, JsTypeOK
  <2>2. CallTypeOK'
    BY <1>0, <1>4 DEF Close, TypeOK, CallTypeOK
  <2> QED BY <1>0, <1>4, <2>1, <2>2, UnchangedTypes DEF Close, TypeOK
<1>5. CASE DeleteDatabase
  <2>1. JsTypeOK'
    BY <1>0, <1>5 DEF DeleteDatabase, TypeOK, JsTypeOK
  <2>2. CallTypeOK'
    BY <1>0, <1>5 DEF DeleteDatabase, TypeOK, CallTypeOK
  <2> QED BY <1>0, <1>5, <2>1, <2>2, UnchangedTypes DEF DeleteDatabase, TypeOK
<1>6. CASE IdleTick
  <2>1. JsTypeOK'
    BY <1>0, <1>6 DEF IdleTick, TypeOK, JsTypeOK
  <2> QED BY <1>0, <1>6, <2>1, UnchangedTypes DEF IdleTick, TypeOK
<1>7. CASE StartTransaction
  <2> DEFINE t == Head(queue)
  <2>1. t \in Tx /\ queue' \in Seq(Tx)
    BY <1>0, <1>7, TailType DEF StartTransaction, CanStart, TypeOK, JsTypeOK
  <2>2. JsTypeOK'
    BY <1>0, <1>7, <2>1 DEF StartTransaction, TypeOK, JsTypeOK
  <2>3. PICK n \in FirstStatements(t) :
          /\ status' = [status EXCEPT ![t] = "running"]
          /\ statements' = [statements EXCEPT ![t] = @ + n]
          /\ SendBatch(t, executes[t] \o Users(n))
    BY <1>7 DEF StartTransaction
  <2>4. n \in Nat
    BY <1>0, <2>1, <2>3, ConstantsAssumption DEF FirstStatements, TypeOK, TxTypeOK
  <2>5. /\ batch' \in [Tx -> Seq(Statement)]
        /\ results' \in [Tx -> Seq({"ok", "error"})]
        /\ executes' \in [Tx -> Seq(Statement)]
    BY <1>0, <2>1, <2>3, <2>4, ExecutesType, SendBatchType
  <2>6. TxTypeOK'
    <3>1. status' \in [Tx -> Statuses]
      BY <1>0, <2>1, <2>3 DEF TypeOK, TxTypeOK, Statuses
    <3>2. statements' \in [Tx -> Nat]
      BY <1>0, <2>1, <2>3, <2>4 DEF TypeOK, TxTypeOK
    <3>3. UNCHANGED <<kind, canPause, isPaused, reports>>
      BY <1>7 DEF StartTransaction
    <3> QED BY <1>0, <2>5, <3>1, <3>2, <3>3 DEF TypeOK, TxTypeOK
  <2>7. SentTypeOK'
    BY <1>0, <1>7, <2>5 DEF StartTransaction, TypeOK, SentTypeOK
  <2> QED BY <1>0, <1>7, <2>2, <2>6, <2>7, UnchangedTypes DEF StartTransaction, TypeOK
<1>8. CASE StartThrows
  <2> DEFINE t == Head(queue)
  <2>1. t \in Tx /\ queue' \in Seq(Tx)
    BY <1>0, <1>8, TailType DEF StartThrows, CanStart, TypeOK, JsTypeOK
  <2>2. JsTypeOK'
    <3>1. ticks' \in Nat
      BY <1>0, <1>8 DEF StartThrows, TypeOK, JsTypeOK
    <3>2. inProgress' \in BOOLEAN /\ UNCHANGED openDBs
      BY <1>8 DEF StartThrows
    <3> QED BY <1>0, <2>1, <3>1, <3>2 DEF TypeOK, JsTypeOK
  <2>3. reports' \in [Tx -> Seq({"success", "error"})]
    BY <1>0, <1>8, <2>1, ReportType DEF StartThrows
  <2>4. TxTypeOK'
    BY <1>0, <1>8, <2>1, <2>3 DEF StartThrows, TypeOK, TxTypeOK, Statuses
  <2> QED BY <1>0, <1>8, <2>2, <2>4, UnchangedTypes DEF StartThrows, TypeOK
<1>9. CASE NativeOpen
  <2>1. openReplies' \in Seq({"ok", "err"})
    <3>1. openReplies \in Seq({"ok", "err"})
      BY <1>0 DEF TypeOK, CallTypeOK
    <3>2. \A f \in {"ok", "err"} : Append(openReplies, f) \in Seq({"ok", "err"})
      BY <3>1
    <3> QED BY <1>9, <3>1, <3>2, ConstantsAssumption DEF NativeOpen
  <2>2. CallTypeOK'
    BY <1>0, <1>9, <2>1 DEF NativeOpen, TypeOK, CallTypeOK
  <2>3. conn' \in BOOLEAN
    BY <1>0, <1>9 DEF NativeOpen, TypeOK
  <2> QED BY <1>0, <1>9, <2>2, <2>3, UnchangedTypes DEF NativeOpen, TypeOK
<1>10. CASE NativeClose
  <2>1. CallTypeOK'
    BY <1>0, <1>10 DEF NativeClose, TypeOK, CallTypeOK
  <2>2. SqlTypeOK'
    BY <1>0, <1>10 DEF NativeClose, Undo, TypeOK, SqlTypeOK
  <2> QED BY <1>0, <1>10, <2>1, <2>2, UnchangedTypes DEF NativeClose, TypeOK
<1>11. ASSUME NEW t \in Tx, NEW k \in Kinds, AddTransaction(t, k) PROVE TypeOK'
  <2>1. k \in AllKinds /\ Preamble(k) \in Seq(Statement)
    BY ConstantsAssumption, PreambleType
  <2>2. JsTypeOK'
    BY <1>0, <1>11, AppendProperties DEF AddTransaction, TypeOK, JsTypeOK
  <2>3. TxTypeOK'
    BY <1>0, <1>11, <2>1 DEF AddTransaction, TypeOK, TxTypeOK, Statuses
  <2> QED BY <1>0, <1>11, <2>2, <2>3, UnchangedTypes DEF AddTransaction, TypeOK
<1>12. ASSUME NEW t \in Tx, NEW k \in Kinds, RefuseTransaction(t, k) PROVE TypeOK'
  <2>1. k \in AllKinds
    BY ConstantsAssumption
  <2>2. reports' \in [Tx -> Seq({"success", "error"})]
    BY <1>0, <1>12, ReportType DEF RefuseTransaction
  <2>3. TxTypeOK'
    BY <1>0, <1>12, <2>1, <2>2 DEF RefuseTransaction, TypeOK, TxTypeOK, Statuses
  <2> QED BY <1>0, <1>12, <2>3, UnchangedTypes DEF RefuseTransaction, TypeOK
<1>13. ASSUME NEW t \in Tx, ExecuteSql(t) PROVE TypeOK'
  <2>1. Append(executes[t], "user") \in Seq(Statement)
    BY <1>0, ExecutesType DEF Statement
  <2>2. /\ batch' \in [Tx -> Seq(Statement)]
        /\ results' \in [Tx -> Seq({"ok", "error"})]
        /\ executes' \in [Tx -> Seq(Statement)]
    <3>1. CASE isPaused[t]
      BY <1>0, <1>13, <2>1, <3>1, SendBatchType DEF ExecuteSql
    <3>2. CASE ~isPaused[t]
      BY <1>0, <1>13, <2>1, <3>2 DEF ExecuteSql, TypeOK, TxTypeOK, SentTypeOK
    <3> QED BY <3>1, <3>2
  <2>3. TxTypeOK'
    <3>1. statements' \in [Tx -> Nat] /\ isPaused' \in [Tx -> BOOLEAN]
      BY <1>0, <1>13 DEF ExecuteSql, TypeOK, TxTypeOK
    <3>2. UNCHANGED <<kind, status, canPause, reports>>
      BY <1>13 DEF ExecuteSql
    <3> QED BY <1>0, <2>2, <3>1, <3>2 DEF TypeOK, TxTypeOK
  <2>4. SentTypeOK'
    BY <1>0, <1>13, <2>2 DEF ExecuteSql, TypeOK, SentTypeOK
  <2> QED BY <1>0, <1>13, <2>3, <2>4, UnchangedTypes DEF ExecuteSql, TypeOK
<1>14. ASSUME NEW t \in Tx, End(t) PROVE TypeOK'
  <2>1. /\ batch' \in [Tx -> Seq(Statement)]
        /\ results' \in [Tx -> Seq({"ok", "error"})]
        /\ executes' \in [Tx -> Seq(Statement)]
        /\ status' \in [Tx -> Statuses]
    <3>1. CASE isPaused[t] /\ status[t] = "running"
      <4>1. status' \in [Tx -> Statuses]
        BY <1>0, <1>14, <3>1 DEF End, TypeOK, TxTypeOK, Statuses
      <4> QED BY <1>0, <1>14, <3>1, <4>1, ExecutesType, SendBatchType DEF End
    <3>2. CASE ~(isPaused[t] /\ status[t] = "running")
      BY <1>0, <1>14, <3>2 DEF End, TypeOK, TxTypeOK, SentTypeOK
    <3> QED BY <3>1, <3>2
  <2>2. TxTypeOK'
    BY <1>0, <1>14, <2>1 DEF End, TypeOK, TxTypeOK
  <2>3. SentTypeOK'
    BY <1>0, <1>14, <2>1 DEF End, TypeOK, SentTypeOK
  <2> QED BY <1>0, <1>14, <2>2, <2>3, UnchangedTypes DEF End, TypeOK
<1>15. ASSUME NEW t \in Tx, AbortCall(t) PROVE TypeOK'
  <2>1. Append(executes[t], "INVALID STATEMENT") \in Seq(Statement)
    BY <1>0, ExecutesType DEF Statement
  <2>2. /\ batch' \in [Tx -> Seq(Statement)]
        /\ results' \in [Tx -> Seq({"ok", "error"})]
        /\ executes' \in [Tx -> Seq(Statement)]
    <3>1. CASE isPaused[t]
      BY <1>0, <1>15, <2>1, <3>1, SendBatchType DEF AbortCall
    <3>2. CASE ~isPaused[t]
      BY <1>0, <1>15, <2>1, <3>2 DEF AbortCall, TypeOK, TxTypeOK, SentTypeOK
    <3> QED BY <3>1, <3>2
  <2>3. TxTypeOK'
    BY <1>0, <1>15, <2>2 DEF AbortCall, TypeOK, TxTypeOK
  <2>4. SentTypeOK'
    BY <1>0, <1>15, <2>2 DEF AbortCall, TypeOK, SentTypeOK
  <2> QED BY <1>0, <1>15, <2>3, <2>4, UnchangedTypes DEF AbortCall, TypeOK
<1>16. ASSUME NEW t \in Tx, DeliverResults(t) PROVE TypeOK'
  <2>1. PICK throws \in Throws(t), n \in MoreStatements(t) :
          Continue(t, throws, executes[t] \o Users(n), n)
    BY <1>16 DEF DeliverResults
  <2> DEFINE ex == executes[t] \o Users(n)
  <2>2. n \in Nat
    BY <1>0, <2>1, ConstantsAssumption DEF MoreStatements, TypeOK, TxTypeOK
  <2>3. ex \in Seq(Statement) /\ Append(ex, "ROLLBACK") \in Seq(Statement)
    BY <1>0, <2>2, ExecutesType, AppendProperties DEF Statement
  <2> DEFINE Good ==
        /\ batch' \in [Tx -> Seq(Statement)]
        /\ results' \in [Tx -> Seq({"ok", "error"})]
        /\ executes' \in [Tx -> Seq(Statement)]
        /\ status' \in [Tx -> Statuses]
        /\ inProgress' \in BOOLEAN
        /\ ticks' \in Nat
        /\ reports' \in [Tx -> Seq({"success", "error"})]
        /\ isPaused' \in [Tx -> BOOLEAN]
  <2>4. /\ status \in [Tx -> Statuses] /\ inProgress \in BOOLEAN /\ ticks \in Nat
        /\ reports \in [Tx -> Seq({"success", "error"})]
        /\ isPaused \in [Tx -> BOOLEAN] /\ executes \in [Tx -> Seq(Statement)]
    BY <1>0 DEF TypeOK, TxTypeOK, JsTypeOK
  <2>5. ASSUME Locked(kind[t]), NEW st \in Seq(Statement),
               status' = [status EXCEPT ![t] = "ending"], SendBatch(t, st),
               UNCHANGED <<inProgress, ticks, reports, isPaused>>
        PROVE  Good
    <3>1. status' \in [Tx -> Statuses]
      BY <2>4, <2>5 DEF Statuses
    <3> QED BY <1>0, <2>4, <2>5, <3>1, SendBatchType
  <2>6. ASSUME NEW o \in {"success", "error"}, Release(t, o), ClearBatch(t),
               executes' \in [Tx -> Seq(Statement)], UNCHANGED isPaused
        PROVE  Good
    BY <1>0, <2>4, <2>6, ReleaseType, ClearBatchType
  <2>7. \/ Abort(t, ex) /\ UNCHANGED isPaused
        \/ SendBatch(t, ex) /\ UNCHANGED <<status, inProgress, ticks, reports, isPaused>>
        \/ /\ isPaused' = [isPaused EXCEPT ![t] = TRUE] /\ ClearBatch(t)
           /\ UNCHANGED <<status, inProgress, ticks, reports, executes>>
        \/ Finish(t) /\ UNCHANGED isPaused
    BY <2>1 DEF Continue
  <2>8. Good
    <3>1. ASSUME Abort(t, ex), UNCHANGED isPaused PROVE Good
      <4>1. CASE Locked(kind[t])
        BY <2>3, <2>5, <3>1, <4>1 DEF Abort
      <4>2. CASE ~Locked(kind[t])
        <5>1. executes' \in [Tx -> Seq(Statement)]
          BY <2>3, <2>4, <3>1, <4>2 DEF Abort
        <5> QED BY <2>6, <3>1, <4>2, <5>1 DEF Abort
      <4> QED BY <4>1, <4>2
    <3>2. ASSUME Finish(t), UNCHANGED isPaused PROVE Good
      <4>1. CASE Locked(kind[t])
        BY <1>0, <2>5, <3>2, <4>1, ExecutesType DEF Finish
      <4>2. CASE ~Locked(kind[t])
        BY <2>4, <2>6, <3>2, <4>2 DEF Finish
      <4> QED BY <4>1, <4>2
    <3>3. ASSUME SendBatch(t, ex), UNCHANGED <<status, inProgress, ticks, reports, isPaused>>
          PROVE  Good
      BY <1>0, <2>3, <2>4, <3>3, SendBatchType
    <3>4. ASSUME isPaused' = [isPaused EXCEPT ![t] = TRUE], ClearBatch(t),
                 UNCHANGED <<status, inProgress, ticks, reports, executes>>
          PROVE  Good
      BY <1>0, <2>4, <3>4, ClearBatchType
    <3> QED BY <2>7, <3>1, <3>2, <3>3, <3>4
  <2>9. statements' \in [Tx -> Nat]
    BY <1>0, <2>1, <2>2 DEF Continue, TypeOK, TxTypeOK
  <2>10. JsTypeOK'
    BY <1>0, <1>16, <2>8 DEF DeliverResults, TypeOK, JsTypeOK
  <2>11. TxTypeOK'
    BY <1>0, <1>16, <2>8, <2>9 DEF DeliverResults, TypeOK, TxTypeOK
  <2>12. SentTypeOK'
    BY <1>0, <1>16, <2>8 DEF DeliverResults, TypeOK, SentTypeOK
  <2> QED BY <1>0, <1>16, <2>10, <2>11, <2>12, UnchangedTypes DEF DeliverResults, TypeOK
<1>17. ASSUME NEW t \in Tx, DeliverEnd(t) PROVE TypeOK'
  <2>1. /\ status' \in [Tx -> Statuses] /\ inProgress' \in BOOLEAN /\ ticks' \in Nat
        /\ reports' \in [Tx -> Seq({"success", "error"})]
    BY <1>0, <1>17, ReleaseType DEF DeliverEnd, EndOutcome
  <2>2. /\ batch' \in [Tx -> Seq(Statement)]
        /\ results' \in [Tx -> Seq({"ok", "error"})]
        /\ executes' \in [Tx -> Seq(Statement)]
    <3>1. executes \in [Tx -> Seq(Statement)] /\ executes[t] \in Seq(Statement)
      BY <1>0 DEF TypeOK, TxTypeOK
    <3>2. \/ ClearBatch(t) /\ UNCHANGED executes
          \/ SendBatch(t, executes[t])
      BY <1>17 DEF DeliverEnd
    <3> QED BY <1>0, <3>1, <3>2, SendBatchType, ClearBatchType
  <2>3. isPaused' \in [Tx -> BOOLEAN]
    BY <1>0, <1>17 DEF DeliverEnd, TypeOK, TxTypeOK
  <2>4. JsTypeOK'
    BY <1>0, <1>17, <2>1 DEF DeliverEnd, TypeOK, JsTypeOK
  <2>5. TxTypeOK'
    BY <1>0, <1>17, <2>1, <2>2, <2>3 DEF DeliverEnd, TypeOK, TxTypeOK
  <2>6. SentTypeOK'
    BY <1>0, <1>17, <2>2 DEF DeliverEnd, TypeOK, SentTypeOK
  <2> QED BY <1>0, <1>17, <2>4, <2>5, <2>6, UnchangedTypes DEF DeliverEnd, TypeOK
<1>18. ASSUME NEW t \in Tx, DeliverLate(t) PROVE TypeOK'
  <2>1. SentTypeOK'
    BY <1>0, <1>18, ClearBatchType DEF DeliverLate, TypeOK, SentTypeOK
  <2> QED BY <1>0, <1>18, <2>1, UnchangedTypes DEF DeliverLate, TypeOK
<1>19. ASSUME NEW t \in Tx, NativeDrop(t) PROVE TypeOK'
  <2>1. SentTypeOK'
    BY <1>0, <1>19 DEF NativeDrop, TypeOK, SentTypeOK
  <2> QED BY <1>0, <1>19, <2>1, UnchangedTypes DEF NativeDrop, TypeOK
<1>20. ASSUME NEW t \in Tx, NativeExecute(t) PROVE TypeOK'
  <2>1. PICK r \in {"ok", "error"} :
          /\ Execute(t, batch[t][Len(results[t]) + 1], r)
          /\ results' = [results EXCEPT ![t] = Append(@, r)]
    BY <1>20 DEF NativeExecute
  <2>2. SqlTypeOK'
    BY <1>0, <2>1 DEF Execute, Undo, sqlVars, TypeOK, SqlTypeOK
  <2>3. results' \in [Tx -> Seq({"ok", "error"})]
    BY <1>0, <2>1 DEF TypeOK, SentTypeOK
  <2>4. SentTypeOK'
    BY <1>0, <1>20, <2>3 DEF NativeExecute, TypeOK, SentTypeOK
  <2> QED BY <1>0, <1>20, <2>2, <2>4, UnchangedTypes DEF NativeExecute, TypeOK
<1>21. CASE UNCHANGED vars
  BY <1>0, <1>21, UnchangedTypes DEF vars, TypeOK
<1> QED
  BY <1>0, <1>1, <1>2, <1>3, <1>4, <1>5, <1>6, <1>7, <1>8, <1>9, <1>10, <1>11, <1>12,
     <1>13, <1>14, <1>15, <1>16, <1>17, <1>18, <1>19, <1>20, <1>21
  DEF Next, Tick, Deliver

\* The variables keep their types.
THEOREM TypeCorrect == Spec => []TypeOK
<1>1. Init => TypeOK
  <2> SUFFICES ASSUME Init PROVE TypeOK
    OBVIOUS
  <2>1. JsTypeOK
    BY EmptySeq DEF Init, JsTypeOK
  <2>2. TxTypeOK
    BY DEF Init, TxTypeOK, Statuses
  <2>3. SentTypeOK
    BY DEF Init, SentTypeOK
  <2>4. CallTypeOK
    BY DEF Init, CallTypeOK
  <2>5. SqlTypeOK /\ conn \in BOOLEAN
    BY DEF Init, SqlTypeOK
  <2> QED BY <2>1, <2>2, <2>3, <2>4, <2>5 DEF TypeOK
<1> QED BY <1>1, TypeOKStep, PTL DEF Spec

-----------------------------------------------------------------------------
(* No lost wake-up. *)

\* QueueIsScheduled is inductive: every step that makes the database open, the
\* lock free or the queue non-empty schedules a callback.
LEMMA QueueIsScheduledStep == TypeOK /\ QueueIsScheduled /\ [Next]_vars => QueueIsScheduled'
<1>0. SUFFICES ASSUME TypeOK, QueueIsScheduled, [Next]_vars PROVE QueueIsScheduled'
  OBVIOUS
<1>a. ticks \in Nat
  BY <1>0 DEF TypeOK, JsTypeOK
<1>b. ASSUME UNCHANGED jsVars PROVE QueueIsScheduled'
  BY <1>0, <1>b DEF QueueIsScheduled, CanStart, jsVars
<1>c. ASSUME NEW t \in Tx, NEW o, Release(t, o) PROVE QueueIsScheduled'
  <2>1. ticks' = ticks + 1
    BY <1>c DEF Release
  <2> QED BY <1>a, <2>1 DEF QueueIsScheduled
<1>1. CASE Open
  BY <1>1 DEF Open, QueueIsScheduled, CanStart
<1>2. CASE OpenSuccess
  BY <1>a, <1>2 DEF OpenSuccess, QueueIsScheduled, CanStart
<1>3. CASE OpenError
  BY <1>3 DEF OpenError, QueueIsScheduled, CanStart
<1>4. CASE Close
  BY <1>4 DEF Close, QueueIsScheduled, CanStart
<1>5. CASE DeleteDatabase
  BY <1>5 DEF DeleteDatabase, QueueIsScheduled, CanStart
<1>6. CASE IdleTick
  BY <1>6 DEF IdleTick, QueueIsScheduled, CanStart
<1>7. CASE StartTransaction
  BY <1>7 DEF StartTransaction, QueueIsScheduled, CanStart
<1>8. CASE StartThrows
  BY <1>a, <1>8 DEF StartThrows, QueueIsScheduled
<1>9. CASE NativeOpen
  BY <1>9, <1>b DEF NativeOpen
<1>10. CASE NativeClose
  BY <1>10, <1>b DEF NativeClose
<1>11. ASSUME NEW t \in Tx, NEW k \in Kinds, AddTransaction(t, k) PROVE QueueIsScheduled'
  BY <1>a, <1>11 DEF AddTransaction, QueueIsScheduled, CanStart
<1>12. ASSUME NEW t \in Tx, NEW k \in Kinds, RefuseTransaction(t, k) PROVE QueueIsScheduled'
  BY <1>12, <1>b DEF RefuseTransaction
<1>13. ASSUME NEW t \in Tx, ExecuteSql(t) PROVE QueueIsScheduled'
  BY <1>13, <1>b DEF ExecuteSql
<1>14. ASSUME NEW t \in Tx, End(t) PROVE QueueIsScheduled'
  BY <1>14, <1>b DEF End
<1>15. ASSUME NEW t \in Tx, AbortCall(t) PROVE QueueIsScheduled'
  BY <1>15, <1>b DEF AbortCall
<1>16. ASSUME NEW t \in Tx, DeliverResults(t) PROVE QueueIsScheduled'
  <2>1. \/ Release(t, "error") \/ Release(t, "success") \/ UNCHANGED <<inProgress, ticks>>
    BY <1>16 DEF DeliverResults, Continue, Abort, Finish
  <2>2. UNCHANGED <<openDBs, queue>>
    BY <1>16 DEF DeliverResults
  <2> QED BY <1>b, <1>c, <2>1, <2>2 DEF jsVars
<1>17. ASSUME NEW t \in Tx, DeliverEnd(t) PROVE QueueIsScheduled'
  BY <1>c, <1>17 DEF DeliverEnd
<1>18. ASSUME NEW t \in Tx, DeliverLate(t) PROVE QueueIsScheduled'
  BY <1>18, <1>b DEF DeliverLate
<1>19. ASSUME NEW t \in Tx, NativeDrop(t) PROVE QueueIsScheduled'
  BY <1>19, <1>b DEF NativeDrop
<1>20. ASSUME NEW t \in Tx, NativeExecute(t) PROVE QueueIsScheduled'
  BY <1>20, <1>b DEF NativeExecute
<1>21. CASE UNCHANGED vars
  BY <1>21, <1>b DEF vars
<1> QED
  BY <1>0, <1>1, <1>2, <1>3, <1>4, <1>5, <1>6, <1>7, <1>8, <1>9, <1>10, <1>11, <1>12,
     <1>13, <1>14, <1>15, <1>16, <1>17, <1>18, <1>19, <1>20, <1>21
  DEF Next, Tick, Deliver

\* Whatever the application and the native side do, a transaction that could
\* be started has a callback scheduled that will find it.
THEOREM NoLostWakeUp == Spec => []QueueIsScheduled
<1>1. Init => QueueIsScheduled
  BY DEF Init, QueueIsScheduled, CanStart
<1> QED BY <1>1, QueueIsScheduledStep, TypeCorrect, PTL DEF Spec

-----------------------------------------------------------------------------
(* The queue and the state of the transactions in it. *)

\* The queue holds transactions that wait, each of them once.
QueueInv ==
  /\ \A i \in 1..Len(queue) : status[queue[i]] = "queued"
  /\ \A i, j \in 1..Len(queue) : queue[i] = queue[j] => i = j

LEMMA QueueKept ==
  ASSUME TypeOK, QueueInv, UNCHANGED queue,
         NEW t \in Tx, status[t] # "queued", NEW x, status' = [status EXCEPT ![t] = x]
  PROVE  QueueInv'
<1>1. \A i \in 1..Len(queue) : queue[i] \in Tx
  BY DEF TypeOK, JsTypeOK
<1>2. status \in [Tx -> Statuses]
  BY DEF TypeOK, TxTypeOK
<1> QED BY <1>1, <1>2 DEF QueueInv

LEMMA QueueStep == TypeOK /\ QueueInv /\ [Next]_vars => QueueInv'
<1>0. SUFFICES ASSUME TypeOK, QueueInv, [Next]_vars PROVE QueueInv'
  OBVIOUS
<1>a. queue \in Seq(Tx) /\ status \in [Tx -> Statuses]
  BY <1>0 DEF TypeOK, TxTypeOK, JsTypeOK
<1>b. ASSUME UNCHANGED <<queue, status>> PROVE QueueInv'
  BY <1>0, <1>b DEF QueueInv
\* Taking the first one out, with any new status for it.
<1>c. ASSUME queue # << >>, queue' = Tail(queue), NEW x,
             status' = [status EXCEPT ![Head(queue)] = x]
      PROVE  QueueInv'
  <2>1. /\ Len(Tail(queue)) = Len(queue) - 1 /\ Len(queue) \in Nat
        /\ \A i \in 1..(Len(queue) - 1) : Tail(queue)[i] = queue[i + 1]
        /\ Head(queue) = queue[1] /\ 1 \in 1..Len(queue)
    BY <1>a, <1>c, HeadTailProperties
  <2>2. \A i \in 1..Len(Tail(queue)) :
          /\ i + 1 \in 1..Len(queue) /\ i + 1 # 1
          /\ queue[i + 1] # Head(queue) /\ queue[i + 1] \in Tx
    BY <1>0, <1>a, <2>1 DEF QueueInv
  <2>3. \A i \in 1..Len(Tail(queue)) : status'[Tail(queue)[i]] = "queued"
    BY <1>0, <1>a, <1>c, <2>1, <2>2 DEF QueueInv
  <2>4. \A i, j \in 1..Len(Tail(queue)) : Tail(queue)[i] = Tail(queue)[j] => i = j
    BY <1>0, <2>1, <2>2 DEF QueueInv
  <2> QED BY <1>c, <2>3, <2>4 DEF QueueInv
<1>1. CASE Open
  BY <1>1, <1>b DEF Open, txVars
<1>2. CASE OpenSuccess
  BY <1>2, <1>b DEF OpenSuccess, txVars
<1>3. CASE OpenError
  BY <1>3 DEF OpenError, QueueInv
<1>4. CASE Close
  BY <1>4, <1>b DEF Close, txVars
<1>5. CASE DeleteDatabase
  BY <1>5, <1>b DEF DeleteDatabase, txVars
<1>6. CASE IdleTick
  BY <1>6, <1>b DEF IdleTick, txVars
<1>7. CASE StartTransaction
  BY <1>7, <1>c DEF StartTransaction, CanStart
<1>8. CASE StartThrows
  BY <1>8, <1>c DEF StartThrows, CanStart
<1>9. CASE NativeOpen
  BY <1>9, <1>b DEF NativeOpen, jsVars, txVars
<1>10. CASE NativeClose
  BY <1>10, <1>b DEF NativeClose, jsVars, txVars
<1>11. ASSUME NEW t \in Tx, NEW k \in Kinds, AddTransaction(t, k) PROVE QueueInv'
  <2>1. queue' = Append(queue, t) /\ status' = [status EXCEPT ![t] = "queued"] /\ status[t] = "new"
    BY <1>11 DEF AddTransaction
  <2>2. /\ Len(queue') = Len(queue) + 1 /\ Len(queue) \in Nat
        /\ \A i \in 1..Len(queue) : queue'[i] = queue[i]
        /\ queue'[Len(queue) + 1] = t
    BY <1>a, <2>1, AppendProperties
  <2>3. \A i \in 1..Len(queue) : queue[i] # t /\ queue[i] \in Tx
    BY <1>0, <1>a, <2>1 DEF QueueInv
  <2>4. \A i \in 1..Len(queue') : status'[queue'[i]] = "queued"
    BY <1>0, <1>a, <2>1, <2>2, <2>3 DEF QueueInv
  <2>5. \A i, j \in 1..Len(queue') : queue'[i] = queue'[j] => i = j
    BY <1>0, <2>2, <2>3 DEF QueueInv
  <2> QED BY <2>4, <2>5 DEF QueueInv
<1>12. ASSUME NEW t \in Tx, NEW k \in Kinds, RefuseTransaction(t, k) PROVE QueueInv'
  BY <1>0, <1>12, QueueKept DEF RefuseTransaction, jsVars
<1>13. ASSUME NEW t \in Tx, ExecuteSql(t) PROVE QueueInv'
  BY <1>13, <1>b DEF ExecuteSql, jsVars
<1>14. ASSUME NEW t \in Tx, End(t) PROVE QueueInv'
  BY <1>0, <1>14, <1>b, QueueKept DEF End, jsVars
<1>15. ASSUME NEW t \in Tx, AbortCall(t) PROVE QueueInv'
  BY <1>15, <1>b DEF AbortCall, jsVars
<1>16. ASSUME NEW t \in Tx, DeliverResults(t) PROVE QueueInv'
  <2>1. status[t] = "running" /\ UNCHANGED queue
    BY <1>16 DEF DeliverResults
  <2>2. \/ UNCHANGED status
        \/ \E x \in {"ending", "done"} : status' = [status EXCEPT ![t] = x]
    BY <1>16 DEF DeliverResults, Continue, Abort, Finish, Release
  <2> QED BY <1>0, <1>b, <2>1, <2>2, QueueKept
<1>17. ASSUME NEW t \in Tx, DeliverEnd(t) PROVE QueueInv'
  BY <1>0, <1>17, QueueKept DEF DeliverEnd, Release
<1>18. ASSUME NEW t \in Tx, DeliverLate(t) PROVE QueueInv'
  BY <1>18, <1>b DEF DeliverLate, jsVars, txVars
<1>19. ASSUME NEW t \in Tx, NativeDrop(t) PROVE QueueInv'
  BY <1>19, <1>b DEF NativeDrop, jsVars, txVars
<1>20. ASSUME NEW t \in Tx, NativeExecute(t) PROVE QueueInv'
  BY <1>20, <1>b DEF NativeExecute, jsVars, txVars
<1>21. CASE UNCHANGED vars
  BY <1>21, <1>b DEF vars, jsVars, txVars
<1> QED
  BY <1>0, <1>1, <1>2, <1>3, <1>4, <1>5, <1>6, <1>7, <1>8, <1>9, <1>10, <1>11, <1>12,
     <1>13, <1>14, <1>15, <1>16, <1>17, <1>18, <1>19, <1>20, <1>21
  DEF Next, Tick, Deliver

\* The queue holds transactions that wait, each of them once.
THEOREM QueueCorrect == Spec => []QueueInv
<1>1. Init => QueueInv
  BY DEF Init, QueueInv
<1> QED BY <1>1, QueueStep, TypeCorrect, PTL DEF Spec

-----------------------------------------------------------------------------
(* One report for each transaction. *)

\* Only beginTransaction() makes a transaction that has no callbacks yet.
CallbackInv ==
  \A t \in Tx :
    /\ canPause[t] => kind[t] = "beginTransaction"
    /\ status[t] = "new" => kind[t] = "none"

\* A transaction that has not ended has been told nothing.
NothingToldYet == \A t \in Tx : ~Over(t) => reports[t] = << >>

LEMMA CallbackStep == TypeOK /\ CallbackInv /\ [Next]_vars => CallbackInv'
<1>0. SUFFICES ASSUME TypeOK, CallbackInv, [Next]_vars PROVE CallbackInv'
  OBVIOUS
<1>t. /\ status \in [Tx -> Statuses] /\ canPause \in [Tx -> BOOLEAN]
      /\ kind \in [Tx -> AllKinds \cup {"none"}]
  BY <1>0 DEF TypeOK, TxTypeOK
\* No transaction becomes new, none becomes able to pause.
<1>a. ASSUME UNCHANGED kind,
             \A u \in Tx : /\ canPause'[u] => canPause[u]
                           /\ status'[u] = "new" => status[u] = "new"
      PROVE  CallbackInv'
  BY <1>0, <1>a DEF CallbackInv
<1>b. ASSUME UNCHANGED <<kind, canPause, status>> PROVE CallbackInv'
  BY <1>a, <1>b
<1>1. CASE Open \/ OpenSuccess \/ Close \/ DeleteDatabase \/ IdleTick \/ NativeOpen \/ NativeClose
  BY <1>1, <1>b
  DEF Open, OpenSuccess, Close, DeleteDatabase, IdleTick, NativeOpen, NativeClose, txVars
<1>2. CASE OpenError
  <2>1. UNCHANGED <<kind, canPause>> /\ \A u \in Tx : status'[u] \in {"dropped", status[u]}
    BY <1>2 DEF OpenError
  <2> QED BY <1>a, <2>1
<1>3. CASE StartTransaction \/ StartThrows
  <2>1. /\ UNCHANGED <<kind, canPause>>
        /\ \E x \in {"running", "done"} : status' = [status EXCEPT ![Head(queue)] = x]
    BY <1>3 DEF StartTransaction, StartThrows
  <2>2. \A u \in Tx : status'[u] = "new" => status[u] = "new"
    BY <1>t, <2>1
  <2> QED BY <1>a, <2>1, <2>2
<1>4. ASSUME NEW t \in Tx, NEW k \in Kinds, AddTransaction(t, k) PROVE CallbackInv'
  <2>1. /\ kind' = [kind EXCEPT ![t] = k] /\ status' = [status EXCEPT ![t] = "queued"]
        /\ canPause' = [canPause EXCEPT ![t] = (k = "beginTransaction")]
    BY <1>4 DEF AddTransaction
  <2> QED BY <1>0, <1>t, <2>1 DEF CallbackInv
<1>5. ASSUME NEW t \in Tx, NEW k \in Kinds, RefuseTransaction(t, k) PROVE CallbackInv'
  <2>1. /\ kind' = [kind EXCEPT ![t] = k] /\ status' = [status EXCEPT ![t] = "done"]
        /\ status[t] = "new" /\ UNCHANGED canPause
    BY <1>5 DEF RefuseTransaction
  <2>2. ~canPause[t]
    BY <1>0, <2>1 DEF CallbackInv
  <2> QED BY <1>0, <1>t, <2>1, <2>2 DEF CallbackInv
<1>6. ASSUME NEW t \in Tx, ExecuteSql(t) \/ End(t) \/ AbortCall(t) PROVE CallbackInv'
  <2>1. /\ UNCHANGED kind
        /\ UNCHANGED canPause \/ canPause' = [canPause EXCEPT ![t] = FALSE]
        /\ UNCHANGED status \/ status' = [status EXCEPT ![t] = "ending"]
    BY <1>6 DEF ExecuteSql, End, AbortCall
  <2>2. \A u \in Tx : (canPause'[u] => canPause[u]) /\ (status'[u] = "new" => status[u] = "new")
    BY <1>t, <2>1
  <2> QED BY <1>a, <2>1, <2>2
<1>7. ASSUME NEW t \in Tx, Deliver(t) PROVE CallbackInv'
  <2>1. /\ UNCHANGED <<kind, canPause>>
        /\ UNCHANGED status \/ \E x \in {"ending", "done"} : status' = [status EXCEPT ![t] = x]
    BY <1>7 DEF Deliver, DeliverResults, DeliverEnd, DeliverLate, Continue, Abort, Finish,
                Release, txVars
  <2>2. \A u \in Tx : status'[u] = "new" => status[u] = "new"
    BY <1>t, <2>1
  <2> QED BY <1>a, <2>1, <2>2
<1>8. ASSUME NEW t \in Tx, NativeDrop(t) \/ NativeExecute(t) PROVE CallbackInv'
  BY <1>8, <1>b DEF NativeDrop, NativeExecute, txVars
<1>9. CASE UNCHANGED vars
  BY <1>9, <1>b DEF vars, txVars
<1> QED BY <1>0, <1>1, <1>2, <1>3, <1>4, <1>5, <1>6, <1>7, <1>8, <1>9 DEF Next, Tick

\* Where nothing is told, nothing ends.
LEMMA NothingTold ==
  ASSUME NothingToldYet, NEW u \in Tx, reports'[u] = reports[u],
         status'[u] = status[u] \/ (~Over(u) /\ ~Over(u)')
  PROVE  TellsOnce(u)
  BY DEF NothingToldYet, TellsOnce, Over

\* A transaction that ends is reported once if it can be.
LEMMA EndTold ==
  ASSUME TypeOK, NothingToldYet, NEW t \in Tx, ~Over(t),
         status' = [status EXCEPT ![t] = "done"],
         NEW r \in {"success", "error"},
         reports' = [reports EXCEPT ![t] = IF Unheard(t) THEN @ ELSE Append(@, r)]
  PROVE  \A u \in Tx : TellsOnce(u)
<1>1. status \in [Tx -> Statuses] /\ reports \in [Tx -> Seq({"success", "error"})]
  BY DEF TypeOK, TxTypeOK
<1>2. ASSUME NEW u \in Tx, u # t PROVE TellsOnce(u)
  BY <1>1, <1>2, NothingTold
<1>3. /\ status'[t] = "done" /\ reports[t] = << >>
      /\ reports'[t] = IF Unheard(t) THEN reports[t] ELSE Append(reports[t], r)
  BY <1>1 DEF NothingToldYet
<1>4. Len(reports'[t]) = IF Unheard(t) THEN 0 ELSE 1
  BY <1>3
<1>5. TellsOnce(t)
  BY <1>3, <1>4 DEF TellsOnce, Over
<1> QED BY <1>2, <1>5

\* $abort and $finish report to whoever gave a callback.
LEMMA ReleaseTold ==
  ASSUME TypeOK, NothingToldYet, NEW t \in Tx, status[t] \in {"running", "ending"},
         NEW o \in {"success", "error"}, Release(t, o)
  PROVE  \A u \in Tx : TellsOnce(u)
<1>1. PICK r \in {"success", "error"} :
        Report(t, o) = IF Unheard(t) THEN reports[t] ELSE Append(reports[t], r)
  BY DEF Report, Unheard, HasCallback
<1>2. ~Over(t) /\ reports' = [reports EXCEPT ![t] = IF Unheard(t) THEN @ ELSE Append(@, r)]
  BY <1>1 DEF Over, Release
<1> QED BY <1>2, EndTold DEF Release

LEMMA TellsOnceStep ==
  TypeOK /\ QueueInv /\ CallbackInv /\ NothingToldYet /\ [Next]_vars =>
    \A t \in Tx : TellsOnce(t)
<1>0. SUFFICES ASSUME TypeOK, QueueInv, CallbackInv, NothingToldYet, [Next]_vars
               PROVE  \A u \in Tx : TellsOnce(u)
  OBVIOUS
<1>t. status \in [Tx -> Statuses] /\ reports \in [Tx -> Seq({"success", "error"})]
  BY <1>0 DEF TypeOK, TxTypeOK
<1>a. ASSUME UNCHANGED <<status, reports>> PROVE \A u \in Tx : TellsOnce(u)
  BY <1>0, <1>a, NothingTold
<1>b. queue # << >> => Head(queue) \in Tx /\ status[Head(queue)] = "queued"
  BY <1>0 DEF TypeOK, JsTypeOK, QueueInv
<1>c. ASSUME NEW t \in Tx, status[t] \notin {"done", "dropped"},
             NEW x \in {"queued", "running", "ending"},
             status' = [status EXCEPT ![t] = x], UNCHANGED reports
      PROVE  \A u \in Tx : TellsOnce(u)
  <2>1. ASSUME NEW u \in Tx PROVE status'[u] = status[u] \/ (~Over(u) /\ ~Over(u)')
    BY <1>c, <1>t DEF Over
  <2> QED BY <1>0, <1>c, <2>1, NothingTold
<1>1. CASE Open \/ OpenSuccess \/ Close \/ DeleteDatabase \/ IdleTick \/ NativeOpen \/ NativeClose
  BY <1>1, <1>a
  DEF Open, OpenSuccess, Close, DeleteDatabase, IdleTick, NativeOpen, NativeClose, txVars
<1>2. CASE OpenError
  <2>1. SUFFICES ASSUME NEW u \in Tx PROVE TellsOnce(u)
    OBVIOUS
  <2>2. CASE u \in Range(queue)
    <3>1. status[u] = "queued"
      BY <1>0, <2>2 DEF TypeOK, JsTypeOK, QueueInv, Range
    <3>2. /\ status'[u] = "dropped" /\ reports[u] = << >>
          /\ reports'[u] = IF HasCallback(u) THEN Append(reports[u], "error") ELSE reports[u]
      BY <1>0, <1>2, <2>2, <3>1 DEF OpenError, NothingToldYet, Over
    <3>3. Unheard(u) <=> ~HasCallback(u)
      BY <3>1 DEF Unheard, HasCallback
    <3>4. Len(reports'[u]) = IF Unheard(u) THEN 0 ELSE 1
      BY <3>2, <3>3
    <3> QED BY <3>1, <3>2, <3>4 DEF TellsOnce, Over
  <2>3. CASE u \notin Range(queue)
    BY <1>0, <1>2, <2>3, NothingTold DEF OpenError
  <2> QED BY <2>2, <2>3
<1>3. CASE StartTransaction
  BY <1>0, <1>3, <1>b, <1>c DEF StartTransaction, CanStart
<1>4. CASE StartThrows
  <2>1. PICK t \in Tx : t = Head(queue) /\ status[t] = "queued"
    BY <1>4, <1>b DEF StartThrows, CanStart
  <2>2. /\ kind[t] \in {"transaction", "readTransaction"}
        /\ status' = [status EXCEPT ![t] = "done"]
        /\ reports' = [reports EXCEPT ![t] = Append(@, "error")]
    BY <1>4, <2>1 DEF StartThrows
  <2>3. ~Over(t) /\ ~Unheard(t)
    BY <1>0, <2>1, <2>2 DEF Over, Unheard, CallbackInv
  <2> QED BY <1>0, <2>2, <2>3, EndTold
<1>5. ASSUME NEW t \in Tx, NEW k \in Kinds, AddTransaction(t, k) PROVE \A u \in Tx : TellsOnce(u)
  BY <1>5, <1>c DEF AddTransaction
<1>6. ASSUME NEW t \in Tx, NEW k \in Kinds, RefuseTransaction(t, k)
      PROVE  \A u \in Tx : TellsOnce(u)
  <2>1. ~Over(t) /\ ~Unheard(t)
    BY <1>0, <1>6 DEF RefuseTransaction, Over, Unheard, CallbackInv
  <2> QED BY <1>0, <1>6, <2>1, EndTold DEF RefuseTransaction
<1>7. ASSUME NEW t \in Tx, ExecuteSql(t) \/ AbortCall(t) PROVE \A u \in Tx : TellsOnce(u)
  BY <1>7, <1>a DEF ExecuteSql, AbortCall
<1>8. ASSUME NEW t \in Tx, End(t) PROVE \A u \in Tx : TellsOnce(u)
  <2>1. CASE isPaused[t] /\ status[t] = "running"
    BY <1>8, <1>c, <2>1 DEF End
  <2>2. CASE ~(isPaused[t] /\ status[t] = "running")
    BY <1>8, <1>a, <2>2 DEF End
  <2> QED BY <2>1, <2>2
<1>9. ASSUME NEW t \in Tx, DeliverResults(t) PROVE \A u \in Tx : TellsOnce(u)
  <2>1. status[t] = "running"
    BY <1>9 DEF DeliverResults
  <2>2. \/ UNCHANGED <<status, reports>>
        \/ status' = [status EXCEPT ![t] = "ending"] /\ UNCHANGED reports
        \/ Release(t, "error") \/ Release(t, "success")
    BY <1>9 DEF DeliverResults, Continue, Abort, Finish
  <2>3. CASE UNCHANGED <<status, reports>>
    BY <1>a, <2>3
  <2>4. CASE status' = [status EXCEPT ![t] = "ending"] /\ UNCHANGED reports
    BY <1>c, <2>1, <2>4
  <2>5. CASE Release(t, "error") \/ Release(t, "success")
    BY <1>0, <2>1, <2>5, ReleaseTold
  <2> QED BY <2>2, <2>3, <2>4, <2>5
<1>10. ASSUME NEW t \in Tx, DeliverEnd(t) PROVE \A u \in Tx : TellsOnce(u)
  <2>1. status[t] = "ending" /\ Release(t, EndOutcome(t))
    BY <1>10 DEF DeliverEnd
  <2>2. EndOutcome(t) \in {"success", "error"}
    BY DEF EndOutcome
  <2> QED BY <1>0, <2>1, <2>2, ReleaseTold
<1>11. ASSUME NEW t \in Tx, DeliverLate(t) \/ NativeDrop(t) \/ NativeExecute(t)
       PROVE  \A u \in Tx : TellsOnce(u)
  BY <1>11, <1>a DEF DeliverLate, NativeDrop, NativeExecute, txVars
<1>12. CASE UNCHANGED vars
  BY <1>12, <1>a DEF vars, txVars
<1> QED
  BY <1>0, <1>1, <1>2, <1>3, <1>4, <1>5, <1>6, <1>7, <1>8, <1>9, <1>10, <1>11, <1>12
  DEF Next, Tick, Deliver

\* What is told is told at the end, so nothing is told before it.
LEMMA NothingToldStep ==
  ASSUME TypeOK', NothingToldYet, \A t \in Tx : TellsOnce(t)
  PROVE  NothingToldYet'
<1>1. SUFFICES ASSUME NEW t \in Tx, ~Over(t)' PROVE reports'[t] = << >>
  BY DEF NothingToldYet
<1>2. ~Over(t) /\ Len(reports'[t]) = 0
  BY <1>1 DEF TellsOnce, Over
<1>3. reports'[t] \in Seq({"success", "error"})
  BY DEF TypeOK, TxTypeOK
<1> QED BY <1>2, <1>3, EmptySeq

LEMMA ReportInvariants == Spec => [](CallbackInv /\ NothingToldYet)
<1>1. Init => CallbackInv /\ NothingToldYet
  BY DEF Init, CallbackInv, NothingToldYet
<1>2. /\ TypeOK /\ TypeOK' /\ QueueInv /\ CallbackInv /\ NothingToldYet /\ [Next]_vars
      => CallbackInv' /\ NothingToldYet'
  BY CallbackStep, TellsOnceStep, NothingToldStep
<1> QED BY <1>1, <1>2, QueueCorrect, TypeCorrect, PTL DEF Spec

\* The application is told the end of every transaction that has a callback,
\* exactly once and when it ends, however opening fails and whenever the
\* application closes or deletes the database; one that ended in silence stays
\* silent.
THEOREM ToldOnce == Spec => ReportedOnce
<1>1. TypeOK /\ QueueInv /\ CallbackInv /\ NothingToldYet /\ [Next]_vars =>
        [\A t \in Tx : TellsOnce(t)]_vars
  BY TellsOnceStep
<1> QED BY <1>1, ReportInvariants, QueueCorrect, TypeCorrect, PTL DEF Spec, ReportedOnce

-----------------------------------------------------------------------------
(* What a transaction waits for. *)

\* Before a transaction is started nothing of it is with the native side and
\* its preamble is unsent, so its first batch is not empty; while it has the
\* lock its batch is out, or it is paused with nothing to send.
WaitInv ==
  \A t \in Tx :
    /\ status[t] \in {"new", "queued", "dropped"} => ~isPaused[t] /\ batch[t] = << >>
    /\ status[t] = "queued" => executes[t] # << >>
    /\ status[t] = "running" => (isPaused[t] <=> batch[t] = << >>)
    /\ status[t] = "ending" => ~isPaused[t] /\ batch[t] # << >>
    /\ isPaused[t] => executes[t] = << >>

\* WaitInv of a step that changes one transaction.
LEMMA WaitOne ==
  ASSUME TypeOK, WaitInv, NEW t \in Tx,
         \A u \in Tx \ {t} : /\ status'[u] = status[u] /\ isPaused'[u] = isPaused[u]
                             /\ batch'[u] = batch[u] /\ executes'[u] = executes[u],
         status'[t] \in {"new", "queued", "dropped"} => ~isPaused'[t] /\ batch'[t] = << >>,
         status'[t] = "queued" => executes'[t] # << >>,
         status'[t] = "running" => (isPaused'[t] <=> batch'[t] = << >>),
         status'[t] = "ending" => ~isPaused'[t] /\ batch'[t] # << >>,
         isPaused'[t] => executes'[t] = << >>
  PROVE  WaitInv'
  BY DEF WaitInv

\* What SendBatch and ClearBatch leave behind.
LEMMA SendBatchValue ==
  ASSUME TypeOK, NEW t \in Tx, NEW stmts, SendBatch(t, stmts)
  PROVE  /\ batch'[t] = stmts /\ executes'[t] = << >>
         /\ \A u \in Tx \ {t} : batch'[u] = batch[u] /\ executes'[u] = executes[u]
  BY DEF SendBatch, TypeOK, TxTypeOK, SentTypeOK

LEMMA ClearBatchValue ==
  ASSUME TypeOK, NEW t \in Tx, ClearBatch(t)
  PROVE  batch'[t] = << >> /\ \A u \in Tx \ {t} : batch'[u] = batch[u]
  BY DEF ClearBatch, TypeOK, SentTypeOK

\* A transaction that sends something does not wait for the application.
LEMMA WaitSend ==
  ASSUME TypeOK, WaitInv, NEW t \in Tx, NEW stmts, stmts # << >>, SendBatch(t, stmts),
         NEW x \in {"running", "ending", "done"}, status' = [status EXCEPT ![t] = x],
         isPaused' = [isPaused EXCEPT ![t] = FALSE]
  PROVE  WaitInv'
<1>1. batch'[t] = stmts /\ \A u \in Tx \ {t} : batch'[u] = batch[u] /\ executes'[u] = executes[u]
  BY SendBatchValue
<1>2. status'[t] = x /\ \A u \in Tx \ {t} : status'[u] = status[u]
  BY DEF TypeOK, TxTypeOK
<1>3. isPaused'[t] = FALSE /\ \A u \in Tx \ {t} : isPaused'[u] = isPaused[u]
  BY DEF TypeOK, TxTypeOK
<1> QED BY <1>1, <1>2, <1>3, WaitOne

LEMMA WaitStep == TypeOK /\ QueueInv /\ WaitInv /\ [Next]_vars => WaitInv'
<1>0. SUFFICES ASSUME TypeOK, QueueInv, WaitInv, [Next]_vars PROVE WaitInv'
  OBVIOUS
<1>a. ASSUME UNCHANGED <<status, isPaused, batch, executes>> PROVE WaitInv'
  BY <1>0, <1>a DEF WaitInv
<1>b. /\ status \in [Tx -> Statuses] /\ isPaused \in [Tx -> BOOLEAN]
      /\ batch \in [Tx -> Seq(Statement)] /\ executes \in [Tx -> Seq(Statement)]
  BY <1>0 DEF TypeOK, TxTypeOK, SentTypeOK
<1>c. queue # << >> => Head(queue) \in Tx /\ status[Head(queue)] = "queued"
  BY <1>0 DEF TypeOK, JsTypeOK, QueueInv
<1>d. ASSUME NEW t \in Tx, NEW s \in Statement
      PROVE  Append(executes[t], s) # << >>
  BY <1>b, AppendProperties, EmptySeq
<1>e. ASSUME NEW t \in Tx, NEW n \in Nat
      PROVE  executes[t] \o Users(n) = << >> => executes[t] = << >>
  <2>1. /\ executes[t] \in Seq(Statement) /\ Users(n) \in Seq(Statement)
        /\ Len(executes[t]) \in Nat /\ Len(Users(n)) \in Nat
        /\ Len(executes[t] \o Users(n)) = Len(executes[t]) + Len(Users(n))
    BY <1>b, UsersType, ConcatProperties
  <2>2. ASSUME executes[t] \o Users(n) = << >> PROVE Len(executes[t]) = 0
    BY <2>1, <2>2
  <2> QED BY <2>1, <2>2, EmptySeq
<1>1. CASE Open
  BY <1>1, <1>a DEF Open, txVars, sentVars
<1>2. CASE OpenSuccess
  BY <1>2, <1>a DEF OpenSuccess, txVars, sentVars
<1>3. CASE OpenError
  <2>1. \A t \in Tx : status'[t] = status[t] \/ (status[t] = "queued" /\ status'[t] = "dropped")
    BY <1>0, <1>b, <1>3 DEF OpenError, TypeOK, JsTypeOK, QueueInv, Range
  <2> QED BY <1>0, <1>3, <2>1 DEF OpenError, WaitInv, sentVars
<1>4. CASE Close
  BY <1>4, <1>a DEF Close, txVars, sentVars
<1>5. CASE DeleteDatabase
  BY <1>5, <1>a DEF DeleteDatabase, txVars, sentVars
<1>6. CASE IdleTick
  BY <1>6, <1>a DEF IdleTick, txVars, sentVars
<1>7. CASE StartTransaction
  <2> DEFINE t == Head(queue)
  <2>1. t \in Tx /\ status[t] = "queued" /\ ~isPaused[t] /\ executes[t] # << >>
    BY <1>0, <1>7, <1>c DEF StartTransaction, CanStart, WaitInv
  <2>2. PICK n \in FirstStatements(t) :
          status' = [status EXCEPT ![t] = "running"] /\ SendBatch(t, executes[t] \o Users(n))
    BY <1>7 DEF StartTransaction
  <2>3. n \in Nat
    BY <1>0, <2>1, <2>2, ConstantsAssumption DEF FirstStatements, TypeOK, TxTypeOK
  <2>4. executes[t] \o Users(n) # << >>
    BY <1>e, <2>1, <2>3
  <2>5. isPaused' = [isPaused EXCEPT ![t] = FALSE]
    BY <1>7, <1>b, <2>1 DEF StartTransaction
  <2> QED BY <1>0, <2>1, <2>2, <2>4, <2>5, WaitSend
<1>8. CASE StartThrows
  <2>1. Head(queue) \in Tx /\ status[Head(queue)] = "queued"
    BY <1>8, <1>c DEF StartThrows, CanStart
  <2>2. /\ status' = [status EXCEPT ![Head(queue)] = "done"]
        /\ UNCHANGED <<isPaused, batch, executes>>
    BY <1>8 DEF StartThrows, sentVars
  <2> QED BY <1>0, <1>b, <2>1, <2>2 DEF WaitInv
<1>9. CASE NativeOpen
  BY <1>9, <1>a DEF NativeOpen, txVars, sentVars
<1>10. CASE NativeClose
  BY <1>10, <1>a DEF NativeClose, txVars, sentVars
<1>11. ASSUME NEW t \in Tx, NEW k \in Kinds, AddTransaction(t, k) PROVE WaitInv'
  <2>1. /\ status[t] = "new" /\ status' = [status EXCEPT ![t] = "queued"]
        /\ executes' = [executes EXCEPT ![t] = Preamble(k)] /\ UNCHANGED <<isPaused, batch>>
    BY <1>11 DEF AddTransaction, sentVars
  <2> QED BY <1>0, <1>b, <2>1, PreambleType DEF WaitInv
<1>12. ASSUME NEW t \in Tx, NEW k \in Kinds, RefuseTransaction(t, k) PROVE WaitInv'
  <2>1. /\ status[t] = "new" /\ status' = [status EXCEPT ![t] = "done"]
        /\ UNCHANGED <<executes, isPaused, batch>>
    BY <1>12 DEF RefuseTransaction, sentVars
  <2> QED BY <1>0, <1>b, <2>1 DEF WaitInv
<1>13. ASSUME NEW t \in Tx, ExecuteSql(t) PROVE WaitInv'
  <2> DEFINE ex == Append(executes[t], "user")
  <2>1. ex # << >>
    BY <1>d DEF Statement
  <2>2. /\ status' = status /\ status[t] \in {"running", "queued"}
        /\ isPaused' = [isPaused EXCEPT ![t] = FALSE]
    BY <1>13 DEF ExecuteSql
  <2>3. CASE isPaused[t]
    <3>1. SendBatch(t, ex) /\ status[t] = "running"
      BY <1>0, <1>13, <2>2, <2>3 DEF ExecuteSql, WaitInv
    <3>2. status' = [status EXCEPT ![t] = "running"]
      BY <1>b, <2>2, <3>1
    <3> QED BY <1>0, <2>1, <2>2, <3>1, <3>2, WaitSend
  <2>4. CASE ~isPaused[t]
    <3>1. executes' = [executes EXCEPT ![t] = ex] /\ UNCHANGED batch
      BY <1>13, <2>4 DEF ExecuteSql
    <3> HIDE DEF ex
    <3> QED BY <1>0, <1>b, <2>1, <2>2, <2>4, <3>1 DEF WaitInv
  <2> QED BY <2>3, <2>4
<1>14. ASSUME NEW t \in Tx, End(t) PROVE WaitInv'
  <2>1. isPaused' = [isPaused EXCEPT ![t] = FALSE]
    BY <1>14 DEF End
  <2>2. CASE isPaused[t] /\ status[t] = "running"
    <3>1. status' = [status EXCEPT ![t] = "ending"] /\ SendBatch(t, <<"COMMIT">>)
      BY <1>14, <2>2 DEF End
    <3>2. <<"COMMIT">> # << >>
      OBVIOUS
    <3> QED BY <1>0, <2>1, <3>1, <3>2, WaitSend
  <2>3. CASE ~(isPaused[t] /\ status[t] = "running")
    <3>1. UNCHANGED <<status, batch, executes>>
      BY <1>14, <2>3 DEF End
    <3> QED BY <1>0, <1>b, <2>1, <2>3, <3>1 DEF WaitInv
  <2> QED BY <2>2, <2>3
<1>15. ASSUME NEW t \in Tx, AbortCall(t) PROVE WaitInv'
  <2> DEFINE ex == Append(executes[t], "INVALID STATEMENT")
  <2>1. ex # << >>
    BY <1>d DEF Statement
  <2>2. status' = status /\ isPaused' = [isPaused EXCEPT ![t] = FALSE]
    BY <1>15 DEF AbortCall
  <2>3. CASE isPaused[t]
    <3>1. SendBatch(t, ex) /\ status[t] \in {"running", "done"}
      BY <1>0, <1>b, <1>15, <2>3 DEF AbortCall, WaitInv, Statuses
    <3>2. status' = [status EXCEPT ![t] = status[t]]
      BY <1>b, <2>2
    <3> QED BY <1>0, <2>1, <2>2, <3>1, <3>2, WaitSend
  <2>4. CASE ~isPaused[t]
    <3>1. executes' = [executes EXCEPT ![t] = ex] /\ UNCHANGED batch
      BY <1>15, <2>4 DEF AbortCall
    <3> HIDE DEF ex
    <3> QED BY <1>0, <1>b, <2>1, <2>2, <2>4, <3>1 DEF WaitInv
  <2> QED BY <2>3, <2>4
<1>16. ASSUME NEW t \in Tx, DeliverResults(t) PROVE WaitInv'
  <2>1. status[t] = "running" /\ ~isPaused[t]
    BY <1>0, <1>16 DEF DeliverResults, Answered, WaitInv
  <2>2. PICK throws \in Throws(t), n \in MoreStatements(t) :
          Continue(t, throws, executes[t] \o Users(n), n)
    BY <1>16 DEF DeliverResults
  <2>3. n \in Nat
    BY <1>0, <2>2, ConstantsAssumption DEF MoreStatements, TypeOK, TxTypeOK
  <2> DEFINE ex == executes[t] \o Users(n)
  <2>4. ex = << >> => executes[t] = << >>
    BY <1>e, <2>3
  <2>5. Append(ex, "ROLLBACK") # << >>
    <3>1. ex \in Seq(Statement) /\ "ROLLBACK" \in Statement
      BY <1>0, <2>3, ExecutesType DEF Statement
    <3> QED BY <3>1, AppendProperties, EmptySeq
  <2>6. \/ Abort(t, ex) /\ UNCHANGED isPaused
        \/ ex # << >> /\ SendBatch(t, ex) /\ UNCHANGED <<status, isPaused>>
        \/ /\ isPaused' = [isPaused EXCEPT ![t] = TRUE] /\ ClearBatch(t)
           /\ ex = << >> /\ UNCHANGED <<status, executes>>
        \/ Finish(t) /\ UNCHANGED isPaused
    BY <2>2 DEF Continue
  <2> HIDE DEF ex
  <2>7. ASSUME NEW stmts, SendBatch(t, stmts), stmts # << >>, UNCHANGED isPaused,
               status' = status \/ status' = [status EXCEPT ![t] = "ending"]
        PROVE  WaitInv'
    <3>1. isPaused' = [isPaused EXCEPT ![t] = FALSE]
      BY <1>b, <2>1, <2>7
    <3>2. \E x \in {"running", "ending"} : status' = [status EXCEPT ![t] = x]
      BY <1>b, <2>1, <2>7
    <3> QED BY <1>0, <2>7, <3>1, <3>2, WaitSend
  <2>8. ASSUME NEW x, executes' = [executes EXCEPT ![t] = x], ClearBatch(t),
               UNCHANGED isPaused, status' = [status EXCEPT ![t] = "done"]
        PROVE  WaitInv'
    BY <1>0, <1>b, <2>1, <2>8, ClearBatchValue, WaitOne
  <2>9. CASE Abort(t, ex) /\ UNCHANGED isPaused
    BY <2>5, <2>7, <2>8, <2>9 DEF Abort, Release
  <2>10. CASE ex # << >> /\ SendBatch(t, ex) /\ UNCHANGED <<status, isPaused>>
    BY <2>7, <2>10
  <2>11. CASE /\ isPaused' = [isPaused EXCEPT ![t] = TRUE] /\ ClearBatch(t)
              /\ ex = << >> /\ UNCHANGED <<status, executes>>
    BY <1>0, <1>b, <2>1, <2>4, <2>11, ClearBatchValue, WaitOne
  <2>12. CASE Finish(t) /\ UNCHANGED isPaused
    <3>1. CASE Locked(kind[t])
      BY <2>7, <2>12, <3>1 DEF Finish
    <3>2. CASE ~Locked(kind[t])
      <4>1. executes' = [executes EXCEPT ![t] = executes[t]]
        BY <1>b, <2>12, <3>2 DEF Finish
      <4> QED BY <2>8, <2>12, <3>2, <4>1 DEF Finish, Release
    <3> QED BY <3>1, <3>2
  <2> QED BY <2>6, <2>9, <2>10, <2>11, <2>12
<1>17. ASSUME NEW t \in Tx, DeliverEnd(t) PROVE WaitInv'
  <2>1. ~isPaused[t] /\ status' = [status EXCEPT ![t] = "done"]
    BY <1>0, <1>17 DEF DeliverEnd, WaitInv, Release
  <2>2. \/ ClearBatch(t) /\ UNCHANGED <<executes, isPaused>>
        \/ SendBatch(t, executes[t]) /\ UNCHANGED isPaused
        \/ /\ ClearBatch(t) /\ executes[t] = << >> /\ UNCHANGED executes
           /\ isPaused' = [isPaused EXCEPT ![t] = TRUE]
    BY <1>17 DEF DeliverEnd
  <2>3. CASE ClearBatch(t) /\ UNCHANGED <<executes, isPaused>>
    BY <1>0, <1>b, <2>1, <2>3, ClearBatchValue, WaitOne
  <2>4. CASE SendBatch(t, executes[t]) /\ UNCHANGED isPaused
    BY <1>0, <1>b, <2>1, <2>4, SendBatchValue, WaitOne
  <2>5. CASE /\ ClearBatch(t) /\ executes[t] = << >> /\ UNCHANGED executes
             /\ isPaused' = [isPaused EXCEPT ![t] = TRUE]
    BY <1>0, <1>b, <2>1, <2>5, ClearBatchValue, WaitOne
  <2> QED BY <2>2, <2>3, <2>4, <2>5
<1>18. ASSUME NEW t \in Tx, DeliverLate(t) PROVE WaitInv'
  <2>1. status[t] = "done" /\ ClearBatch(t) /\ UNCHANGED <<status, isPaused, executes>>
    BY <1>18 DEF DeliverLate, txVars
  <2> QED BY <1>0, <2>1, ClearBatchValue DEF WaitInv
<1>19. ASSUME NEW t \in Tx, NativeDrop(t) PROVE WaitInv'
  BY <1>19, <1>a DEF NativeDrop, txVars
<1>20. ASSUME NEW t \in Tx, NativeExecute(t) PROVE WaitInv'
  BY <1>20, <1>a DEF NativeExecute, txVars
<1>21. CASE UNCHANGED vars
  BY <1>21, <1>a DEF vars, txVars, sentVars
<1> QED
  BY <1>0, <1>1, <1>2, <1>3, <1>4, <1>5, <1>6, <1>7, <1>8, <1>9, <1>10, <1>11, <1>12,
     <1>13, <1>14, <1>15, <1>16, <1>17, <1>18, <1>19, <1>20, <1>21
  DEF Next, Tick, Deliver

\* Whoever has the lock waits for its batch or, paused, for the application:
\* there is no other way to keep the lock, whatever is called and answered.
THEOREM HolderWaits == Spec => []HolderIsWaiting
<1>1. Init => WaitInv
  BY DEF Init, WaitInv
<1>2. WaitInv => HolderIsWaiting
  BY DEF WaitInv, HolderIsWaiting, Holding
<1> QED BY <1>1, <1>2, WaitStep, QueueCorrect, TypeCorrect, PTL DEF Spec

-----------------------------------------------------------------------------
(* The lock. *)

\* When abortAllPendingTransactions can find no transaction in progress: the
\* native side never reports a failure to open to this context, or the
\* application waits for each open and close, and deletes no database.
NoAbortInProgress ==
  "err" \notin OpenFailures \/ (AppWaits /\ MaxDeletes = 0)

\* A transaction is in progress only while the database is open, and at most
\* one open is under way, with its request or its answer.
OneOpen ==
  /\ openDBs # "OPEN" => ~inProgress
  /\ opens # 0 => opens = 1 /\ openReplies = << >> /\ openDBs = "INIT"
  /\ openReplies # << >> => Len(openReplies) = 1 /\ opens = 0 /\ openDBs = "INIT"

NoOpenError == \A i \in 1..Len(openReplies) : openReplies[i] # "err"

\* The two ways to satisfy NoAbortInProgress.
OpenInv ==
  /\ "err" \notin OpenFailures => NoOpenError
  /\ AppWaits /\ MaxDeletes = 0 => OneOpen

LEMMA NoOpenErrorStep ==
  ASSUME "err" \notin OpenFailures
  PROVE  TypeOK /\ NoOpenError /\ [Next]_vars => NoOpenError'
<1>0. SUFFICES ASSUME TypeOK, NoOpenError, [Next]_vars PROVE NoOpenError'
  OBVIOUS
<1>1. openReplies \in Seq({"ok", "err"})
  BY <1>0 DEF TypeOK, CallTypeOK
<1>2. CASE UNCHANGED openReplies
  BY <1>0, <1>2 DEF NoOpenError
<1>3. CASE openReplies # << >> /\ openReplies' = Tail(openReplies)
  <2>1. /\ Len(Tail(openReplies)) = Len(openReplies) - 1 /\ Len(openReplies) \in Nat
        /\ \A i \in 1..(Len(openReplies) - 1) : Tail(openReplies)[i] = openReplies[i + 1]
    BY <1>1, <1>3, HeadTailProperties
  <2>2. \A i \in 1..(Len(openReplies) - 1) : i + 1 \in 1..Len(openReplies)
    BY <2>1
  <2> QED BY <1>0, <1>3, <2>1, <2>2 DEF NoOpenError
<1>4. CASE NativeOpen
  <2>1. CASE UNCHANGED openReplies
    BY <1>2, <2>1
  <2>2. CASE \E f \in {"ok", "none"} : openReplies' = Append(openReplies, f)
    <3>1. PICK f \in {"ok", "none"} : openReplies' = Append(openReplies, f)
      BY <2>2
    <3>2. /\ Len(openReplies') = Len(openReplies) + 1 /\ Len(openReplies) \in Nat
          /\ \A i \in 1..Len(openReplies) : openReplies'[i] = openReplies[i]
          /\ openReplies'[Len(openReplies) + 1] = f
      BY <1>1, <3>1
    <3> QED BY <1>0, <3>2 DEF NoOpenError
  <2>3. \A f \in OpenFailures : f \in {"ok", "none"}
    BY ConstantsAssumption
  <2> QED BY <1>4, <2>1, <2>2, <2>3 DEF NativeOpen
<1>5. CASE OpenSuccess \/ OpenError
  BY <1>3, <1>5 DEF OpenSuccess, OpenError
<1> QED
  BY <1>0, <1>2, <1>4, <1>5
  DEF Next, Tick, Deliver, vars, callVars, Open, Close, DeleteDatabase, IdleTick,
      StartTransaction, StartThrows, NativeClose, AddTransaction, RefuseTransaction,
      ExecuteSql, End, AbortCall, DeliverResults, DeliverEnd, DeliverLate,
      NativeDrop, NativeExecute

\* Only a start takes the lock, and only when the database is open.
LEMMA OneOpenStep ==
  ASSUME AppWaits, MaxDeletes = 0
  PROVE  TypeOK /\ OneOpen /\ [Next]_vars => OneOpen'
<1>0. SUFFICES ASSUME TypeOK, OneOpen, [Next]_vars PROVE OneOpen'
  OBVIOUS
<1>a. /\ opens \in Nat /\ deleteCalls \in Nat /\ inProgress \in BOOLEAN
      /\ openReplies \in Seq({"ok", "err"})
  BY <1>0 DEF TypeOK, CallTypeOK, JsTypeOK
<1>b. ASSUME UNCHANGED <<openDBs, opens, openReplies>>,
             inProgress' => inProgress \/ openDBs = "OPEN"
      PROVE  OneOpen'
  BY <1>0, <1>b DEF OneOpen
<1>1. CASE Open
  BY <1>0, <1>a, <1>1 DEF Open, OneOpen, NothingUnanswered
<1>2. CASE OpenSuccess \/ OpenError
  <2>1. openReplies' = << >>
    <3>1. Len(openReplies) = 1 /\ openReplies' = Tail(openReplies)
      BY <1>0, <1>2 DEF OpenSuccess, OpenError, OneOpen
    <3>2. Len(Tail(openReplies)) = 0 /\ Tail(openReplies) \in Seq({"ok", "err"})
      BY <1>a, <3>1, HeadTailProperties
    <3> QED BY <3>1, <3>2, EmptySeq
  <2>2. opens = 0 /\ ~inProgress
    BY <1>0, <1>2 DEF OpenSuccess, OpenError, OneOpen
  <2>3. opens' = 0
    BY <1>2, <2>2 DEF OpenSuccess, OpenError
  <2>4. ~inProgress'
    BY <1>2, <2>2 DEF OpenSuccess, OpenError
  <2> QED BY <2>1, <2>3, <2>4 DEF OneOpen
<1>3. CASE Close
  BY <1>0, <1>3 DEF Close, OneOpen, NothingUnanswered
<1>4. CASE DeleteDatabase
  BY <1>a, <1>4 DEF DeleteDatabase
<1>5. CASE NativeOpen
  <2>1. opens' = 0 /\ openDBs' = "INIT" /\ openReplies = << >> /\ UNCHANGED inProgress
    BY <1>0, <1>a, <1>5 DEF NativeOpen, OneOpen, jsVars
  <2>2. openReplies' = << >> \/ Len(openReplies') = 1
    BY <1>5, <2>1 DEF NativeOpen
  <2>3. ~inProgress
    BY <1>0, <1>5, <1>a, <2>1 DEF NativeOpen, OneOpen
  <2> QED BY <2>1, <2>2, <2>3 DEF OneOpen
<1>6. CASE StartTransaction
  BY <1>6, <1>b DEF StartTransaction, CanStart, callVars
<1>7. CASE IdleTick \/ StartThrows
  BY <1>7, <1>b DEF IdleTick, StartThrows, callVars
<1>8. ASSUME NEW t \in Tx, DeliverResults(t) PROVE OneOpen'
  BY <1>8, <1>b DEF DeliverResults, Continue, Abort, Finish, Release, callVars
<1>9. ASSUME NEW t \in Tx, DeliverEnd(t) PROVE OneOpen'
  BY <1>9, <1>b DEF DeliverEnd, Release, callVars
<1>10. CASE UNCHANGED <<openDBs, inProgress, opens, openReplies>>
  BY <1>10, <1>b
<1> QED
  BY <1>0, <1>1, <1>2, <1>3, <1>4, <1>5, <1>6, <1>7, <1>8, <1>9, <1>10
  DEF Next, Tick, Deliver, vars, jsVars, callVars, NativeClose, AddTransaction,
      RefuseTransaction, ExecuteSql, End, AbortCall, DeliverLate, NativeDrop, NativeExecute

LEMMA OpenInvInvariant == Spec => []OpenInv
<1>1. Init => OpenInv
  BY DEF Init, OpenInv, NoOpenError, OneOpen
<1>2. TypeOK /\ OpenInv /\ [Next]_vars => OpenInv'
  BY NoOpenErrorStep, OneOpenStep DEF OpenInv
<1> QED BY <1>1, <1>2, TypeCorrect, PTL DEF Spec

\* Who holds the lock after a step that changes the status of one transaction.
LEMMA HoldingOne ==
  ASSUME TypeOK, NEW t \in Tx, NEW x, status' = [status EXCEPT ![t] = x]
  PROVE  /\ Holding(t)' <=> x \in {"running", "ending"}
         /\ \A u \in Tx \ {t} : Holding(u)' <=> Holding(u)
  BY DEF TypeOK, TxTypeOK, Holding

\* The transaction takes or keeps the lock.
LEMMA SerializedTake ==
  ASSUME TypeOK, Serialized, NEW t \in Tx, NEW x \in {"running", "ending"},
         status' = [status EXCEPT ![t] = x], ~inProgress \/ Holding(t), inProgress'
  PROVE  Serialized'
<1>1. Holding(t)' /\ \A u \in Tx \ {t} : Holding(u)' <=> Holding(u)
  BY HoldingOne
<1>2. \A u \in Tx \ {t} : ~Holding(u)
  BY DEF Serialized, OneAtATime
<1> QED BY <1>1, <1>2 DEF Serialized, OneAtATime

\* The transaction gives up the lock, or ends without having had it.
LEMMA SerializedGive ==
  ASSUME TypeOK, Serialized, NEW t \in Tx, NEW x, x \notin {"running", "ending"},
         status' = [status EXCEPT ![t] = x], ~inProgress \/ Holding(t), ~inProgress'
  PROVE  Serialized'
<1>1. ~Holding(t)' /\ \A u \in Tx \ {t} : Holding(u)' <=> Holding(u)
  BY HoldingOne
<1>2. \A u \in Tx \ {t} : ~Holding(u)
  BY DEF Serialized, OneAtATime
<1> QED BY <1>1, <1>2 DEF Serialized, OneAtATime

\* A transaction that does not have the lock.
LEMMA SerializedOther ==
  ASSUME TypeOK, Serialized, NEW t \in Tx, NEW x, x \notin {"running", "ending"},
         status' = [status EXCEPT ![t] = x], ~Holding(t), UNCHANGED inProgress
  PROVE  Serialized'
<1>1. \A u \in Tx : Holding(u)' <=> Holding(u)
  BY HoldingOne
<1> QED BY <1>1 DEF Serialized, OneAtATime

LEMMA SerializedStep ==
  ASSUME NoAbortInProgress
  PROVE  TypeOK /\ QueueInv /\ OpenInv /\ Serialized /\ [Next]_vars => Serialized'
<1>0. SUFFICES ASSUME TypeOK, QueueInv, OpenInv, Serialized, [Next]_vars PROVE Serialized'
  OBVIOUS
<1>a. ASSUME UNCHANGED <<inProgress, status>> PROVE Serialized'
  BY <1>0, <1>a DEF Serialized, OneAtATime, Holding
<1>b. queue # << >> => Head(queue) \in Tx /\ status[Head(queue)] = "queued"
  BY <1>0 DEF TypeOK, JsTypeOK, QueueInv
<1>1. CASE Open
  BY <1>1, <1>a DEF Open, txVars
<1>2. CASE OpenSuccess
  BY <1>2, <1>a DEF OpenSuccess, txVars
<1>3. CASE OpenError
  <2>1. ~inProgress
    <3>1. CASE "err" \notin OpenFailures
      <4>1. Len(openReplies) \in Nat /\ 1 \in 1..Len(openReplies) /\ openReplies[1] = "err"
        BY <1>0, <1>3 DEF OpenError, TypeOK, CallTypeOK
      <4> QED BY <1>0, <3>1, <4>1 DEF OpenInv, NoOpenError
    <3>2. CASE AppWaits /\ MaxDeletes = 0
      BY <1>0, <1>3, <3>2 DEF OpenError, OpenInv, OneOpen
    <3> QED BY <3>1, <3>2 DEF NoAbortInProgress
  <2>2. \A t \in Tx : ~Holding(t)
    BY <1>0, <2>1 DEF Serialized
  <2>3. \A t \in Tx : ~Holding(t)'
    BY <1>3, <2>2 DEF OpenError, Holding
  <2>4. ~inProgress'
    BY <1>3, <2>1 DEF OpenError
  <2> QED BY <2>3, <2>4 DEF Serialized, OneAtATime
<1>4. CASE Close
  BY <1>4, <1>a DEF Close, txVars
<1>5. CASE DeleteDatabase
  BY <1>5, <1>a DEF DeleteDatabase, txVars
<1>6. CASE IdleTick
  BY <1>6, <1>a DEF IdleTick, txVars
<1>7. CASE StartTransaction
  <2>1. /\ ~inProgress /\ inProgress' = TRUE /\ Head(queue) \in Tx
        /\ status' = [status EXCEPT ![Head(queue)] = "running"]
    BY <1>7, <1>b DEF StartTransaction, CanStart
  <2> QED BY <1>0, <2>1, SerializedTake
<1>8. CASE StartThrows
  <2>1. /\ ~inProgress /\ inProgress' = FALSE /\ Head(queue) \in Tx
        /\ status' = [status EXCEPT ![Head(queue)] = "done"]
    BY <1>8, <1>b DEF StartThrows, CanStart
  <2> QED BY <1>0, <2>1, SerializedGive
<1>9. CASE NativeOpen
  BY <1>9, <1>a DEF NativeOpen, jsVars, txVars
<1>10. CASE NativeClose
  BY <1>10, <1>a DEF NativeClose, jsVars, txVars
<1>11. ASSUME NEW t \in Tx, NEW k \in Kinds, AddTransaction(t, k) PROVE Serialized'
  <2>1. /\ ~Holding(t) /\ status' = [status EXCEPT ![t] = "queued"]
        /\ inProgress' = inProgress
    BY <1>11 DEF AddTransaction, Holding
  <2> QED BY <1>0, <2>1, SerializedOther
<1>12. ASSUME NEW t \in Tx, NEW k \in Kinds, RefuseTransaction(t, k) PROVE Serialized'
  <2>1. /\ ~Holding(t) /\ status' = [status EXCEPT ![t] = "done"]
        /\ inProgress' = inProgress
    BY <1>12 DEF RefuseTransaction, Holding, jsVars
  <2> QED BY <1>0, <2>1, SerializedOther
<1>13. ASSUME NEW t \in Tx, ExecuteSql(t) PROVE Serialized'
  BY <1>13, <1>a DEF ExecuteSql, jsVars
<1>14. ASSUME NEW t \in Tx, End(t) PROVE Serialized'
  <2>1. UNCHANGED inProgress
    BY <1>14 DEF End, jsVars
  <2>2. CASE isPaused[t] /\ status[t] = "running"
    <3>1. status' = [status EXCEPT ![t] = "ending"] /\ Holding(t)
      BY <1>14, <2>2 DEF End, Holding
    <3>2. inProgress = TRUE
      BY <1>0, <3>1 DEF Serialized, TypeOK, JsTypeOK
    <3> QED BY <1>0, <2>1, <3>1, <3>2, SerializedTake
  <2>3. CASE ~(isPaused[t] /\ status[t] = "running")
    BY <1>14, <1>a, <2>1, <2>3 DEF End
  <2> QED BY <2>2, <2>3
<1>15. ASSUME NEW t \in Tx, AbortCall(t) PROVE Serialized'
  BY <1>15, <1>a DEF AbortCall, jsVars
<1>16. ASSUME NEW t \in Tx, DeliverResults(t) PROVE Serialized'
  <2>1. Holding(t)
    BY <1>16 DEF DeliverResults, Holding
  <2>2. inProgress = TRUE
    BY <1>0, <2>1 DEF Serialized, TypeOK, JsTypeOK
  <2>3. \/ UNCHANGED <<inProgress, status>>
        \/ status' = [status EXCEPT ![t] = "ending"] /\ inProgress' = inProgress
        \/ status' = [status EXCEPT ![t] = "done"] /\ inProgress' = FALSE
    BY <1>16 DEF DeliverResults, Continue, Abort, Finish, Release
  <2>4. CASE status' = [status EXCEPT ![t] = "ending"] /\ inProgress' = inProgress
    BY <1>0, <2>1, <2>2, <2>4, SerializedTake
  <2>5. CASE status' = [status EXCEPT ![t] = "done"] /\ inProgress' = FALSE
    BY <1>0, <2>1, <2>5, SerializedGive
  <2> QED BY <1>a, <2>3, <2>4, <2>5
<1>17. ASSUME NEW t \in Tx, DeliverEnd(t) PROVE Serialized'
  <2>1. Holding(t) /\ status' = [status EXCEPT ![t] = "done"] /\ inProgress' = FALSE
    BY <1>17 DEF DeliverEnd, Holding, Release
  <2> QED BY <1>0, <2>1, SerializedGive
<1>18. ASSUME NEW t \in Tx, DeliverLate(t) PROVE Serialized'
  BY <1>18, <1>a DEF DeliverLate, jsVars, txVars
<1>19. ASSUME NEW t \in Tx, NativeDrop(t) PROVE Serialized'
  BY <1>19, <1>a DEF NativeDrop, jsVars, txVars
<1>20. ASSUME NEW t \in Tx, NativeExecute(t) PROVE Serialized'
  BY <1>20, <1>a DEF NativeExecute, jsVars, txVars
<1>21. CASE UNCHANGED vars
  BY <1>21, <1>a DEF vars, jsVars, txVars
<1> QED
  BY <1>0, <1>1, <1>2, <1>3, <1>4, <1>5, <1>6, <1>7, <1>8, <1>9, <1>10, <1>11, <1>12,
     <1>13, <1>14, <1>15, <1>16, <1>17, <1>18, <1>19, <1>20, <1>21
  DEF Next, Tick, Deliver

\* The transactions of a database are executed one at a time and inProgress
\* says exactly when one is being executed, provided that
\* abortAllPendingTransactions cannot come while one is in progress.
THEOREM TransactionsSerialized ==
  ASSUME NoAbortInProgress
  PROVE  Spec => []Serialized
<1>1. Init => Serialized
  BY DEF Init, Serialized, OneAtATime, Holding
<1>2. TypeOK /\ QueueInv /\ OpenInv /\ Serialized /\ [Next]_vars => Serialized'
  BY SerializedStep
<1> QED BY <1>1, <1>2, OpenInvInvariant, QueueCorrect, TypeCorrect, PTL DEF Spec

=============================================================================
