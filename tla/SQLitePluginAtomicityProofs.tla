--------------------- MODULE SQLitePluginAtomicityProofs ---------------------
(***************************************************************************)
(* Atomicity of the transactions of SQLitePlugin: what the application is  *)
(* told about one is what became of its writes, for any set of             *)
(* transactions and any bounds.                                            *)
(*                                                                         *)
(* The argument follows the statements from executes through the batches   *)
(* to the connection: ScriptInv says in which order a transaction can send *)
(* BEGIN, its own statements and COMMIT or ROLLBACK, and SqlInv relates    *)
(* how far the connection has come in that script to the SQL transaction   *)
(* that is open on it and to what has been committed or undone.            *)
(***************************************************************************)
EXTENDS SQLitePluginRefinement, SQLitePluginProofs

\* What keeps SQLite's own transaction in step with the transaction object:
\* the application waits for open and close and deletes no database, a COMMIT
\* that fails undoes the transaction, and no other statement ends it.
OnlyTheEndEnds ==
  /\ AppWaits /\ MaxDeletes = 0
  /\ "keep" \notin CommitFailures
  /\ ~AutoRollback

-----------------------------------------------------------------------------
(* The statements of a transaction, in the order they are sent. *)

Invalid == {"INVALID STATEMENT"}          \* of abort()
Inner   == {"user"} \cup Invalid          \* between BEGIN and the end
Plain   == {"SELECT 1"} \cup Inner        \* without a transaction of SQLite

\* BEGIN, behind the statement that beginTransaction() puts before it.
WellBegun(s) ==
  \E i \in 1..Len(s) :
    /\ s[i] = "BEGIN"
    /\ \A j \in 1..Len(s) : (j < i => s[j] = "SELECT 1") /\ (j > i => s[j] \in Inner)

\* COMMIT or ROLLBACK, behind the statements that were still in executes.
WellEnded(s) ==
  /\ s # << >>
  /\ s[Len(s)] \in {"COMMIT", "ROLLBACK"}
  /\ \A j \in 1..(Len(s) - 1) : s[j] \in Inner

\* An atomic transaction.
AtomicScript(t) ==
  /\ status[t] = "queued"  => WellBegun(executes[t])
  /\ status[t] = "running" => /\ executes[t] \in Seq(Inner)
                              /\ WellBegun(batch[t]) \/ batch[t] \in Seq(Inner)
  /\ status[t] = "ending"  => /\ executes[t] \in Seq(Invalid)
                              /\ WellEnded(batch[t])
  /\ status[t] = "done"    => /\ batch[t] \in Seq(Invalid)
                              /\ kind[t] = "beginTransaction" => executes[t] \in Seq(Invalid)

\* Any other.
PlainScript(t) ==
  /\ status[t] \in {"queued", "running"} => executes[t] \in Seq(Plain) /\ batch[t] \in Seq(Plain)
  /\ status[t] = "done" => batch[t] = << >>
  /\ status[t] # "ending"

\* What a transaction has sent and can still send.
Script(t) ==
  /\ canPause[t] \/ isPaused[t] => kind[t] = "beginTransaction"
  /\ Len(results[t]) <= Len(batch[t])
  /\ status[t] = "new" => ~canPause[t] /\ kind[t] = "none" /\ executes[t] = << >>
  /\ IF Locked(kind[t]) THEN AtomicScript(t) ELSE PlainScript(t)

ScriptInv == \A t \in Tx : Script(t)

-----------------------------------------------------------------------------
(* The connection. *)

\* An atomic transaction that has the lock ...
Active(t) == Holding(t) /\ Locked(kind[t])

\* ... whose BEGIN is still to be executed, or whose end has been.
Unbegun(t) == \E i \in (Len(results[t]) + 1)..Len(batch[t]) : batch[t][i] = "BEGIN"
Ended(t) == status[t] = "ending" /\ Len(results[t]) = Len(batch[t])

\* Between the two.
Begun(t) == Active(t) /\ ~Unbegun(t) /\ ~Ended(t)

\* What the application may have been told when the outcome is o: a failure
\* may be silent.
Telling(o) == IF o = "success" THEN {<<o>>} ELSE {<<o>>, << >>}

\* Its end has this outcome, told to the application or on its way.
Settled(t, o) ==
  \/ Active(t) /\ Ended(t) /\ EndOutcome(t) = o
  \/ status[t] = "done" /\ reports[t] \in Telling(o)

\* The SQL transaction is that of the transaction object that has begun one;
\* writes are undecided just as long, and then went the way that is told.
SqlInv ==
  /\ sqlOpen <=> \E t \in Tx : Begun(t)
  /\ \A t \in dirty : Begun(t)
  /\ \A t \in durable : status[t] # "new" /\ (Locked(kind[t]) => Settled(t, "success"))
  /\ \A t \in lost : Locked(kind[t]) /\ Settled(t, "error")

\* A transaction that ends before the application has ended or aborted it is
\* rolled back.
SilentInv ==
  \A t \in Tx :
    status[t] = "ending" /\ canPause[t] => batch[t][Len(batch[t])] # "COMMIT"

\* A close request is processed while the database is closed.
CloseInv == closes # 0 => openDBs = "none"

-----------------------------------------------------------------------------
(* Sequences of statements. *)

\* The sets of statements, the smaller in the larger.
LEMMA StatementSets == Invalid \subseteq Inner /\ Inner \subseteq Plain /\ Plain \subseteq Statement
  BY DEF Invalid, Inner, Plain, Statement

LEMMA WiderSeq == ASSUME NEW S, NEW T, S \subseteq T, NEW s \in Seq(S) PROVE s \in Seq(T)
  OBVIOUS

\* User statements behind a sequence that may hold them.
LEMMA UsersBehind ==
  ASSUME NEW S, "user" \in S, NEW s \in Seq(S), NEW n \in Nat
  PROVE  s \o Users(n) \in Seq(S)
<1>1. Users(n) \in Seq(S)
  BY DEF Users
<1> QED BY <1>1, ConcatProperties

\* Nothing begins where there is no BEGIN.
LEMMA InnerHasNoBegin ==
  ASSUME NEW s \in Seq(Inner), NEW i \in 1..Len(s) PROVE s[i] # "BEGIN"
<1>1. s[i] \in Inner
  OBVIOUS
<1> QED BY <1>1 DEF Inner, Invalid

\* More inner statements keep the transaction well begun.
LEMMA BegunAppend ==
  ASSUME NEW s \in Seq(Statement), WellBegun(s), NEW x \in Inner
  PROVE  WellBegun(Append(s, x))
<1>1. PICK i \in 1..Len(s) : /\ s[i] = "BEGIN"
                             /\ \A j \in 1..Len(s) : /\ j < i => s[j] = "SELECT 1"
                                                     /\ j > i => s[j] \in Inner
  BY DEF WellBegun
<1> DEFINE a == Append(s, x)
<1>2. /\ Len(s) \in Nat /\ Len(a) = Len(s) + 1 /\ a[Len(s) + 1] = x
      /\ \A j \in 1..Len(s) : a[j] = s[j]
  BY AppendProperties
<1> HIDE DEF a
<1>3. i \in 1..Len(a) /\ a[i] = s[i] /\ i < Len(s) + 1
  BY <1>2
<1>4. ASSUME NEW j \in 1..Len(a)
      PROVE  (j < i => a[j] = "SELECT 1") /\ (j > i => a[j] \in Inner)
  <2>1. j \in 1..Len(s) \/ (j = Len(s) + 1 /\ ~(j < i))
    BY <1>2
  <2>2. CASE j \in 1..Len(s)
    <3>1. a[j] = s[j]
      BY <1>2, <2>2
    <3> QED BY <1>1, <2>2, <3>1
  <2>3. CASE j = Len(s) + 1 /\ ~(j < i)
    BY <1>2, <2>3
  <2> QED BY <2>1, <2>2, <2>3
<1>6. WellBegun(a)
  BY <1>1, <1>3, <1>4 DEF WellBegun
<1> QED BY <1>6 DEF a

LEMMA BegunUsers ==
  ASSUME NEW s \in Seq(Statement), WellBegun(s), NEW n \in Nat
  PROVE  WellBegun(s \o Users(n))
<1>1. PICK i \in 1..Len(s) : /\ s[i] = "BEGIN"
                             /\ \A j \in 1..Len(s) : /\ j < i => s[j] = "SELECT 1"
                                                     /\ j > i => s[j] \in Inner
  BY DEF WellBegun
<1>2. /\ Users(n) \in Seq(Statement) /\ Len(Users(n)) = n
      /\ \A j \in 1..n : Users(n)[j] = "user"
  BY UsersType DEF Users
<1> DEFINE a == s \o Users(n)
<1>3. /\ Len(s) \in Nat /\ Len(a) = Len(s) + n
      /\ \A j \in 1..Len(a) : a[j] = IF j <= Len(s) THEN s[j] ELSE Users(n)[j - Len(s)]
  <2>1. Len(s) \in Nat /\ Len(Users(n)) = n /\ Users(n) \in Seq(Statement)
    BY <1>2
  <2> QED BY <2>1, ConcatProperties
<1> HIDE DEF a
<1>4. i \in 1..Len(a) /\ a[i] = s[i]
  BY <1>3
<1>5. ASSUME NEW j \in 1..Len(a)
      PROVE  (j < i => a[j] = "SELECT 1") /\ (j > i => a[j] \in Inner)
  <2>1. CASE j <= Len(s)
    <3>1. j \in 1..Len(s) /\ a[j] = s[j]
      BY <1>3, <2>1
    <3> QED BY <1>1, <3>1
  <2>2. CASE ~(j <= Len(s))
    <3>1. j - Len(s) \in 1..n /\ a[j] = Users(n)[j - Len(s)] /\ ~(j < i)
      BY <1>3, <2>2
    <3> QED BY <1>2, <3>1 DEF Inner
  <2> QED BY <2>1, <2>2
<1>7. WellBegun(a)
  BY <1>1, <1>4, <1>5 DEF WellBegun
<1> QED BY <1>7 DEF a

\* The preamble of an atomic transaction begins it.
LEMMA PreambleBegins ==
  ASSUME NEW k PROVE /\ Locked(k) => WellBegun(Preamble(k))
                     /\ ~Locked(k) => Preamble(k) \in Seq(Plain)
<1>1. WellBegun(<<"SELECT 1", "BEGIN">>)
  <2> DEFINE s == <<"SELECT 1", "BEGIN">>
  <2>1. s[1] = "SELECT 1" /\ s[2] = "BEGIN"
    OBVIOUS
  <2>2. Len(s) = 2
    OBVIOUS
  <2> HIDE DEF s
  <2>3. 2 \in 1..Len(s) /\ \A j \in 1..Len(s) : ~(j > 2) /\ (j < 2 => j = 1)
    BY <2>2
  <2>4. WellBegun(s)
    BY <2>1, <2>3 DEF WellBegun
  <2> QED BY <2>4 DEF s
<1>2. WellBegun(<<"BEGIN">>)
  <2> DEFINE s == <<"BEGIN">>
  <2>1. Len(s) = 1 /\ s[1] = "BEGIN"
    OBVIOUS
  <2> HIDE DEF s
  <2>2. 1 \in 1..Len(s)
    BY <2>1
  <2>3. \A j \in 1..Len(s) : (j < 1 => s[j] = "SELECT 1") /\ (j > 1 => s[j] \in Inner)
    BY <2>1
  <2>4. WellBegun(s)
    BY <2>1, <2>2, <2>3 DEF WellBegun
  <2> QED BY <2>4 DEF s
<1>3. <<"SELECT 1">> \in Seq(Plain)
  BY DEF Plain
<1> QED BY <1>1, <1>2, <1>3 DEF Preamble, Locked

\* Inner statements with the end behind them.
LEMMA EndBehind ==
  ASSUME NEW s \in Seq(Inner), NEW e \in {"COMMIT", "ROLLBACK"}
  PROVE  WellEnded(Append(s, e))
<1> DEFINE a == Append(s, e)
<1>1. /\ Len(s) \in Nat /\ Len(a) = Len(s) + 1 /\ a[Len(s) + 1] = e
      /\ \A j \in 1..Len(s) : a[j] = s[j]
  BY AppendProperties
<1>2. a # << >>
  BY <1>1
<1> HIDE DEF a
<1>3. \A j \in 1..(Len(a) - 1) : a[j] \in Inner
  BY <1>1
<1>4. WellEnded(a)
  BY <1>1, <1>2, <1>3 DEF WellEnded
<1> QED BY <1>4 DEF a

LEMMA CommitAlone == WellEnded(<<"COMMIT">>)
  BY DEF WellEnded

-----------------------------------------------------------------------------
(* Steps of one transaction. *)

\* Nothing of any other transaction changes.
Elsewhere(t) ==
  \A u \in Tx \ {t} :
    /\ kind'[u] = kind[u] /\ status'[u] = status[u]
    /\ canPause'[u] = canPause[u] /\ isPaused'[u] = isPaused[u]
    /\ executes'[u] = executes[u] /\ reports'[u] = reports[u]
    /\ batch'[u] = batch[u] /\ results'[u] = results[u]

\* What startNextTransaction does to the first in the queue is a step of it.
LEMMA ElsewhereStart ==
  ASSUME TypeOK, NEW t \in Tx, t = Head(queue), StartTransaction \/ StartThrows
  PROVE  Elsewhere(t)
  BY DEF StartTransaction, StartThrows, SendBatch, Elsewhere, TypeOK, TxTypeOK, SentTypeOK,
         sentVars

LEMMA ElsewhereOutside ==
  ASSUME TypeOK, NEW t \in Tx,
         \/ \E k \in Kinds : AddTransaction(t, k) \/ RefuseTransaction(t, k)
         \/ ExecuteSql(t) \/ End(t) \/ AbortCall(t)
  PROVE  Elsewhere(t)
<1> USE DEF Elsewhere, TypeOK, TxTypeOK, SentTypeOK, sentVars
<1>1. ASSUME NEW k \in Kinds, AddTransaction(t, k) PROVE Elsewhere(t)
  BY <1>1 DEF AddTransaction
<1>2. ASSUME NEW k \in Kinds, RefuseTransaction(t, k) PROVE Elsewhere(t)
  BY <1>2 DEF RefuseTransaction
<1>3. CASE ExecuteSql(t)
  BY <1>3 DEF ExecuteSql, SendBatch
<1>4. CASE End(t)
  BY <1>4 DEF End, SendBatch
<1>5. CASE AbortCall(t)
  BY <1>5 DEF AbortCall, SendBatch
<1> QED BY <1>1, <1>2, <1>3, <1>4, <1>5

\* A transaction that has nothing with the native side any more, or something
\* new; and one that is done.
LEMMA ElsewhereParts ==
  ASSUME TypeOK, NEW t \in Tx
  PROVE  /\ \A stmts : SendBatch(t, stmts) =>
              \A u \in Tx \ {t} : /\ batch'[u] = batch[u] /\ results'[u] = results[u]
                                  /\ executes'[u] = executes[u]
         /\ ClearBatch(t) =>
              \A u \in Tx \ {t} : batch'[u] = batch[u] /\ results'[u] = results[u]
         /\ \A o : Release(t, o) =>
              \A u \in Tx \ {t} : status'[u] = status[u] /\ reports'[u] = reports[u]
<1> USE DEF TypeOK, TxTypeOK, SentTypeOK
<1>1. ASSUME NEW stmts, SendBatch(t, stmts), NEW u \in Tx \ {t}
      PROVE  /\ batch'[u] = batch[u] /\ results'[u] = results[u]
             /\ executes'[u] = executes[u]
  BY <1>1 DEF SendBatch
<1>2. ASSUME ClearBatch(t), NEW u \in Tx \ {t}
      PROVE  batch'[u] = batch[u] /\ results'[u] = results[u]
  BY <1>2 DEF ClearBatch
<1>3. ASSUME NEW o, Release(t, o), NEW u \in Tx \ {t}
      PROVE  status'[u] = status[u] /\ reports'[u] = reports[u]
  <2>1. status'[u] = status[u]
    BY <1>3 DEF Release
  <2>2. \E x : reports' = [reports EXCEPT ![t] = x]
    BY <1>3 DEF Release
  <2> QED BY <2>1, <2>2
<1> QED BY <1>1, <1>2, <1>3

LEMMA ElsewhereDeliver ==
  ASSUME TypeOK, NEW t \in Tx, Deliver(t)
  PROVE  Elsewhere(t)
<1>a. /\ status \in [Tx -> Statuses] /\ isPaused \in [Tx -> BOOLEAN]
      /\ executes \in [Tx -> Seq(Statement)]
  BY DEF TypeOK, TxTypeOK
<1>1. CASE DeliverResults(t)
  <2>1. PICK throws \in Throws(t), n \in MoreStatements(t) :
          Continue(t, throws, executes[t] \o Users(n), n)
    BY <1>1 DEF DeliverResults
  <2> DEFINE ex == executes[t] \o Users(n)
  <2>2. UNCHANGED <<kind, canPause>>
    BY <1>1 DEF DeliverResults
  <2>3. \A u \in Tx \ {t} : isPaused'[u] = isPaused[u]
    BY <1>a, <2>1 DEF Continue
  <2>4. \/ \E stmts : /\ SendBatch(t, stmts) /\ UNCHANGED reports
                      /\ UNCHANGED status \/ status' = [status EXCEPT ![t] = "ending"]
        \/ \E o, x : Release(t, o) /\ ClearBatch(t) /\ executes' = [executes EXCEPT ![t] = x]
        \/ ClearBatch(t) /\ UNCHANGED <<status, reports, executes>>
    <3> HIDE DEF ex
    <3>1. \/ Abort(t, ex) \/ Finish(t)
          \/ SendBatch(t, ex) /\ UNCHANGED <<status, reports>>
          \/ ClearBatch(t) /\ UNCHANGED <<status, reports, executes>>
      BY <2>1 DEF Continue, ex
    <3>2. CASE Abort(t, ex)
      BY <3>2 DEF Abort
    <3>3. CASE Finish(t)
      <4>1. executes = [executes EXCEPT ![t] = executes[t]]
        BY <1>a
      <4> QED BY <3>3, <4>1 DEF Finish
    <3> QED BY <3>1, <3>2, <3>3
  <2>5. \A u \in Tx \ {t} : status'[u] = status[u] /\ reports'[u] = reports[u]
    BY <1>a, <2>4, ElsewhereParts
  <2>6. \A u \in Tx \ {t} : /\ batch'[u] = batch[u] /\ results'[u] = results[u]
                            /\ executes'[u] = executes[u]
    BY <1>a, <2>4, ElsewhereParts
  <2> QED BY <2>2, <2>3, <2>5, <2>6 DEF Elsewhere
<1>2. CASE DeliverEnd(t)
  <2>1. UNCHANGED <<kind, canPause>> /\ Release(t, EndOutcome(t))
    BY <1>2 DEF DeliverEnd
  <2>2. \A u \in Tx \ {t} : isPaused'[u] = isPaused[u]
    BY <1>a, <1>2 DEF DeliverEnd
  <2>3. SendBatch(t, executes[t]) \/ (ClearBatch(t) /\ UNCHANGED executes)
    BY <1>2 DEF DeliverEnd
  <2> QED BY <2>1, <2>2, <2>3, ElsewhereParts DEF Elsewhere
<1>3. CASE DeliverLate(t)
  BY <1>3, ElsewhereParts DEF DeliverLate, txVars, Elsewhere
<1> QED BY <1>1, <1>2, <1>3 DEF Deliver

LEMMA ElsewhereNative ==
  ASSUME TypeOK, NEW t \in Tx, NativeDrop(t) \/ NativeExecute(t)
  PROVE  Elsewhere(t)
<1>1. UNCHANGED txVars /\ UNCHANGED batch
  BY DEF NativeDrop, NativeExecute
<1>2. \E x : results' = [results EXCEPT ![t] = x]
  <2>1. results = [results EXCEPT ![t] = results[t]]
    BY DEF TypeOK, SentTypeOK
  <2> QED BY <2>1 DEF NativeDrop, NativeExecute
<1> QED BY <1>1, <1>2 DEF Elsewhere, txVars, TypeOK, SentTypeOK

-----------------------------------------------------------------------------
(* The script is kept. *)

LEMMA ScriptOne ==
  ASSUME ScriptInv, NEW t \in Tx, Elsewhere(t), Script(t)'
  PROVE  ScriptInv'
<1>1. ASSUME NEW u \in Tx \ {t} PROVE Script(u)'
  BY <1>1 DEF ScriptInv, Script, AtomicScript, PlainScript, Elsewhere
<1> QED BY <1>1 DEF ScriptInv

\* The transaction sends statements.
LEMMA ScriptSend ==
  ASSUME TypeOK, NEW t \in Tx, Script(t), NEW stmts \in Seq(Statement), SendBatch(t, stmts),
         UNCHANGED kind, status'[t] \in {"running", "ending", "done"},
         canPause'[t] => canPause[t], isPaused'[t] => isPaused[t],
         IF Locked(kind[t])
         THEN /\ status'[t] = "running" => WellBegun(stmts) \/ stmts \in Seq(Inner)
              /\ status'[t] = "ending"  => WellEnded(stmts)
              /\ status'[t] = "done"    => stmts \in Seq(Invalid)
         ELSE status'[t] = "running" /\ stmts \in Seq(Plain)
  PROVE  Script(t)'
<1>1. batch'[t] = stmts /\ executes'[t] = << >> /\ results'[t] = << >>
  BY DEF SendBatch, TypeOK, TxTypeOK, SentTypeOK
<1>2. Len(results'[t]) <= Len(batch'[t])
  BY <1>1
<1>3. \A S : << >> \in Seq(S)
  OBVIOUS
<1>4. CASE Locked(kind[t])
  BY <1>1, <1>2, <1>3, <1>4 DEF Script, AtomicScript
<1>5. CASE ~Locked(kind[t])
  BY <1>1, <1>2, <1>3, <1>5 DEF Script, PlainScript
<1> QED BY <1>4, <1>5

LEMMA ScriptAdd ==
  ASSUME TypeOK, WaitInv, ScriptInv, NEW t \in Tx, NEW k, AddTransaction(t, k)
  PROVE  Script(t)'
<1>1. /\ status[t] = "new" /\ status'[t] = "queued" /\ kind'[t] = k
      /\ canPause'[t] = (k = "beginTransaction") /\ executes'[t] = Preamble(k)
      /\ isPaused'[t] = isPaused[t] /\ batch'[t] = batch[t] /\ results'[t] = results[t]
  BY DEF AddTransaction, TypeOK, TxTypeOK, sentVars
<1>2. ~isPaused[t] /\ batch[t] = << >> /\ Len(results[t]) <= Len(batch[t])
  BY <1>1 DEF WaitInv, ScriptInv, Script
<1>3. << >> \in Seq(Plain)
  OBVIOUS
<1>4. IF Locked(k) THEN WellBegun(executes'[t]) ELSE executes'[t] \in Seq(Plain)
  BY <1>1, PreambleBegins
<1> QED BY <1>1, <1>2, <1>3, <1>4 DEF Script, AtomicScript, PlainScript

LEMMA ScriptRefuse ==
  ASSUME TypeOK, WaitInv, ScriptInv, NEW t \in Tx, NEW k, RefuseTransaction(t, k)
  PROVE  Script(t)'
<1>1. /\ status[t] = "new" /\ status'[t] = "done" /\ kind'[t] = k
      /\ canPause'[t] = canPause[t] /\ executes'[t] = executes[t]
      /\ isPaused'[t] = isPaused[t] /\ batch'[t] = batch[t] /\ results'[t] = results[t]
  BY DEF RefuseTransaction, TypeOK, TxTypeOK, sentVars
<1>2. /\ ~isPaused[t] /\ batch[t] = << >> /\ Len(results[t]) <= Len(batch[t])
      /\ ~canPause[t] /\ executes[t] = << >>
  BY <1>1 DEF WaitInv, ScriptInv, Script
<1>3. << >> \in Seq(Invalid)
  OBVIOUS
<1> QED BY <1>1, <1>2, <1>3 DEF Script, AtomicScript, PlainScript

LEMMA ScriptStart ==
  ASSUME TypeOK, QueueInv, ScriptInv, NEW t \in Tx, t = Head(queue), StartTransaction
  PROVE  Script(t)'
<1>1. status[t] = "queued"
  BY DEF StartTransaction, CanStart, TypeOK, JsTypeOK, QueueInv
<1>2. PICK n \in FirstStatements(t) :
        status' = [status EXCEPT ![t] = "running"] /\ SendBatch(t, executes[t] \o Users(n))
  BY DEF StartTransaction
<1>3. n \in Nat
  BY <1>1, <1>2, ConstantsAssumption DEF FirstStatements, TypeOK, TxTypeOK
<1> DEFINE ex == executes[t] \o Users(n)
<1>4. executes[t] \in Seq(Statement) /\ ex \in Seq(Statement)
  BY <1>1, <1>3, ExecutesType
<1>5. status'[t] = "running"
  BY <1>1, <1>2 DEF TypeOK, TxTypeOK
<1>6. UNCHANGED <<kind, canPause, isPaused>>
  BY DEF StartTransaction
<1>7. Script(t)
  BY <1>1 DEF ScriptInv
<1>8. IF Locked(kind[t]) THEN WellBegun(ex) ELSE ex \in Seq(Plain)
  <2>1. CASE Locked(kind[t])
    BY <1>1, <1>3, <1>4, <1>7, <2>1, BegunUsers DEF Script, AtomicScript
  <2>2. CASE ~Locked(kind[t])
    <3>1. executes[t] \in Seq(Plain) /\ "user" \in Plain
      BY <1>1, <1>7, <2>2 DEF Script, PlainScript, Plain, Inner
    <3> QED BY <1>3, <2>2, <3>1, UsersBehind
  <2> QED BY <2>1, <2>2
<1>9. SendBatch(t, ex)
  BY <1>2
<1> HIDE DEF ex
<1> QED BY <1>4, <1>5, <1>6, <1>7, <1>8, <1>9, ScriptSend

LEMMA ScriptThrows ==
  ASSUME TypeOK, QueueInv, WaitInv, ScriptInv, NEW t \in Tx, t = Head(queue), StartThrows
  PROVE  Script(t)'
<1>1. status[t] = "queued" /\ kind[t] \in {"transaction", "readTransaction"}
  BY DEF StartThrows, CanStart, TypeOK, JsTypeOK, QueueInv
<1>2. /\ status'[t] = "done" /\ UNCHANGED <<kind, canPause, isPaused, executes, batch, results>>
  BY <1>1 DEF StartThrows, TypeOK, TxTypeOK, sentVars
<1>3. batch[t] = << >> /\ Script(t)
  BY <1>1 DEF WaitInv, ScriptInv
<1>4. << >> \in Seq(Invalid)
  OBVIOUS
<1> QED BY <1>1, <1>2, <1>3, <1>4 DEF Script, AtomicScript, PlainScript

\* A statement that is put into executes, of a transaction that is not ending.
LEMMA ScriptAppend ==
  ASSUME TypeOK, NEW t \in Tx, Script(t), NEW x \in Inner,
         x = "user" => status[t] \in {"queued", "running"},
         x = "INVALID STATEMENT" => kind[t] = "beginTransaction"
  PROVE  LET ex == Append(executes[t], x) IN
         /\ ex \in Seq(Statement)
         /\ IF Locked(kind[t])
            THEN /\ status[t] = "queued"  => WellBegun(ex)
                 /\ status[t] = "running" => ex \in Seq(Inner)
                 /\ status[t] \in {"ending", "done"} => ex \in Seq(Invalid)
            ELSE status[t] \in {"queued", "running"} /\ ex \in Seq(Plain)
<1>1. executes[t] \in Seq(Statement) /\ x \in Statement
  BY StatementSets DEF TypeOK, TxTypeOK
<1>2. x = "user" \/ x = "INVALID STATEMENT"
  BY DEF Inner, Invalid
<1>3. Append(executes[t], x) \in Seq(Statement)
  BY <1>1, AppendProperties
<1>4. CASE Locked(kind[t])
  <2>1. status[t] = "queued" => WellBegun(Append(executes[t], x))
    BY <1>1, <1>4, BegunAppend DEF Script, AtomicScript
  <2>2. status[t] = "running" => Append(executes[t], x) \in Seq(Inner)
    BY <1>4, AppendProperties DEF Script, AtomicScript
  <2>3. ASSUME status[t] \in {"ending", "done"}
        PROVE  Append(executes[t], x) \in Seq(Invalid)
    <3>1. x \in Invalid /\ kind[t] = "beginTransaction"
      BY <1>2, <2>3 DEF Invalid
    <3>2. executes[t] \in Seq(Invalid)
      BY <1>4, <2>3, <3>1 DEF Script, AtomicScript
    <3> QED BY <3>1, <3>2, AppendProperties
  <2> QED BY <1>3, <1>4, <2>1, <2>2, <2>3
<1>5. CASE ~Locked(kind[t])
  <2>1. status[t] \in {"queued", "running"}
    BY <1>2, <1>5 DEF Locked
  <2>2. executes[t] \in Seq(Plain) /\ x \in Plain
    BY <1>5, <2>1, StatementSets DEF Script, PlainScript
  <2> QED BY <1>3, <1>5, <2>1, <2>2, AppendProperties
<1> QED BY <1>4, <1>5

LEMMA ScriptExecuteSql ==
  ASSUME TypeOK, WaitInv, ScriptInv, NEW t \in Tx, ExecuteSql(t)
  PROVE  Script(t)'
<1> DEFINE ex == Append(executes[t], "user")
<1>1. status[t] \in {"queued", "running"} /\ Script(t) /\ "user" \in Inner
  BY DEF ExecuteSql, ScriptInv, Inner
<1>2. /\ ex \in Seq(Statement)
      /\ IF Locked(kind[t])
         THEN (status[t] = "queued" => WellBegun(ex)) /\ (status[t] = "running" => ex \in Seq(Inner))
         ELSE ex \in Seq(Plain)
  BY <1>1, ScriptAppend
<1>3. UNCHANGED <<kind, status, canPause>> /\ ~isPaused'[t]
  BY DEF ExecuteSql, TypeOK, TxTypeOK
<1>4. CASE isPaused[t]
  <2>1. SendBatch(t, ex) /\ status[t] = "running"
    BY <1>1, <1>4 DEF ExecuteSql, WaitInv
  <2> HIDE DEF ex
  <2> QED BY <1>1, <1>2, <1>3, <2>1, ScriptSend
<1>5. CASE ~isPaused[t]
  <2>1. executes'[t] = ex /\ UNCHANGED <<batch, results>>
    BY <1>5 DEF ExecuteSql, TypeOK, TxTypeOK
  <2> HIDE DEF ex
  <2> QED BY <1>1, <1>2, <1>3, <2>1 DEF Script, AtomicScript, PlainScript
<1> QED BY <1>4, <1>5

LEMMA ScriptEnd ==
  ASSUME TypeOK, ScriptInv, NEW t \in Tx, End(t)
  PROVE  Script(t)'
<1>1. /\ Script(t) /\ kind[t] = "beginTransaction" /\ UNCHANGED kind
      /\ ~canPause'[t] /\ ~isPaused'[t]
  BY DEF End, ScriptInv, Script, TypeOK, TxTypeOK
<1>2. Locked(kind[t])
  BY <1>1 DEF Locked
<1>3. CASE isPaused[t] /\ status[t] = "running"
  <2>1. status'[t] = "ending" /\ SendBatch(t, <<"COMMIT">>)
    BY <1>3 DEF End, TypeOK, TxTypeOK
  <2>2. <<"COMMIT">> \in Seq(Statement) /\ WellEnded(<<"COMMIT">>)
    BY ExecutesType, CommitAlone
  <2> QED BY <1>1, <1>2, <2>1, <2>2, ScriptSend
<1>4. CASE ~(isPaused[t] /\ status[t] = "running")
  <2>1. UNCHANGED <<status, batch, results, executes>>
    BY <1>4 DEF End
  <2> QED BY <1>1, <1>2, <2>1 DEF Script, AtomicScript
<1> QED BY <1>3, <1>4

LEMMA ScriptAbortCall ==
  ASSUME TypeOK, WaitInv, ScriptInv, NEW t \in Tx, AbortCall(t)
  PROVE  Script(t)'
<1> DEFINE ex == Append(executes[t], "INVALID STATEMENT")
<1>1. /\ Script(t) /\ kind[t] = "beginTransaction" /\ UNCHANGED <<kind, status>>
      /\ ~canPause'[t] /\ ~isPaused'[t] /\ status[t] # "new"
  BY DEF AbortCall, ScriptInv, Script, TypeOK, TxTypeOK
<1>2. Locked(kind[t]) /\ "INVALID STATEMENT" \in Inner /\ "INVALID STATEMENT" # "user"
  BY <1>1 DEF Locked, Inner, Invalid
<1>3. /\ ex \in Seq(Statement)
      /\ status[t] = "queued"  => WellBegun(ex)
      /\ status[t] = "running" => ex \in Seq(Inner)
      /\ status[t] \in {"ending", "done"} => ex \in Seq(Invalid)
  BY <1>1, <1>2, ScriptAppend
<1>4. CASE isPaused[t]
  <2>1. SendBatch(t, ex) /\ status[t] \in {"running", "done"}
    BY <1>4 DEF AbortCall, WaitInv, TypeOK, TxTypeOK, Statuses
  <2> HIDE DEF ex
  <2> QED BY <1>1, <1>2, <1>3, <2>1, ScriptSend
<1>5. CASE ~isPaused[t]
  <2>1. executes'[t] = ex /\ UNCHANGED <<batch, results>>
    BY <1>5 DEF AbortCall, TypeOK, TxTypeOK
  <2> HIDE DEF ex
  <2> QED BY <1>1, <1>2, <1>3, <2>1 DEF Script, AtomicScript
<1> QED BY <1>4, <1>5

LEMMA ScriptDeliverResults ==
  ASSUME TypeOK, ScriptInv, NEW t \in Tx, DeliverResults(t)
  PROVE  Script(t)'
<1>1. /\ Script(t) /\ status[t] = "running" /\ UNCHANGED <<kind, canPause>>
  BY DEF DeliverResults, ScriptInv
<1>2. PICK throws \in Throws(t), n \in MoreStatements(t) :
        Continue(t, throws, executes[t] \o Users(n), n)
  BY DEF DeliverResults
<1> DEFINE ex == executes[t] \o Users(n)
<1>3. n \in Nat
  BY <1>2, ConstantsAssumption DEF MoreStatements, TypeOK, TxTypeOK
<1>4. ex \in Seq(Statement) /\ IF Locked(kind[t]) THEN ex \in Seq(Inner) ELSE ex \in Seq(Plain)
  <2>1. ex \in Seq(Statement)
    BY <1>3, ExecutesType
  <2>2. "user" \in Inner /\ "user" \in Plain
    BY DEF Inner, Plain
  <2>3. IF Locked(kind[t]) THEN executes[t] \in Seq(Inner) ELSE executes[t] \in Seq(Plain)
    BY <1>1 DEF Script, AtomicScript, PlainScript
  <2> QED BY <1>3, <2>1, <2>2, <2>3, UsersBehind
<1>5. Continue(t, throws, ex, n)
  BY <1>2
<1> HIDE DEF ex
<1>6. status \in [Tx -> Statuses] /\ isPaused \in [Tx -> BOOLEAN] /\ executes \in [Tx -> Seq(Statement)]
  BY DEF TypeOK, TxTypeOK
<1>7. ASSUME ~Locked(kind[t]), NEW o, Release(t, o), ClearBatch(t), UNCHANGED isPaused
      PROVE  Script(t)'
  <2>1. status'[t] = "done"
    BY <1>6, <1>7 DEF Release
  <2>2. batch'[t] = << >> /\ results'[t] = << >>
    BY <1>7 DEF ClearBatch, TypeOK, SentTypeOK
  <2> QED BY <1>1, <1>7, <2>1, <2>2 DEF Script, PlainScript
<1>8. ASSUME Locked(kind[t]), NEW stmts \in Seq(Statement), WellEnded(stmts), SendBatch(t, stmts),
             status' = [status EXCEPT ![t] = "ending"], UNCHANGED isPaused
      PROVE  Script(t)'
  <2>1. status'[t] = "ending"
    BY <1>6, <1>8
  <2> QED BY <1>1, <1>8, <2>1, ScriptSend
<1>9. CASE Abort(t, ex) /\ UNCHANGED isPaused
  <2>1. CASE Locked(kind[t])
    <3>1. Append(ex, "ROLLBACK") \in Seq(Statement)
      BY <1>4, AppendProperties DEF Statement
    <3>2. WellEnded(Append(ex, "ROLLBACK"))
      BY <1>4, <2>1, EndBehind
    <3> QED BY <1>8, <1>9, <2>1, <3>1, <3>2 DEF Abort
  <2>2. CASE ~Locked(kind[t])
    BY <1>7, <1>9, <2>2 DEF Abort
  <2> QED BY <2>1, <2>2
<1>10. CASE SendBatch(t, ex) /\ UNCHANGED <<status, isPaused>>
  BY <1>1, <1>4, <1>10, ScriptSend
<1>11. CASE /\ canPause[t] /\ isPaused' = [isPaused EXCEPT ![t] = TRUE] /\ ClearBatch(t)
            /\ UNCHANGED <<status, executes>>
  <2>1. kind[t] = "beginTransaction" /\ Locked(kind[t])
    BY <1>1, <1>11 DEF Script, Locked
  <2>2. batch'[t] = << >> /\ results'[t] = << >>
    BY <1>11 DEF ClearBatch, TypeOK, SentTypeOK
  <2>3. << >> \in Seq(Inner)
    OBVIOUS
  <2> QED BY <1>1, <1>11, <2>1, <2>2, <2>3 DEF Script, AtomicScript
<1>12. CASE Finish(t) /\ UNCHANGED isPaused
  <2>1. CASE Locked(kind[t])
    <3>1. <<"COMMIT">> \in Seq(Statement)
      BY ExecutesType
    <3> QED BY <1>8, <1>12, <2>1, <3>1, CommitAlone DEF Finish
  <2>2. CASE ~Locked(kind[t])
    BY <1>7, <1>12, <2>2 DEF Finish
  <2> QED BY <2>1, <2>2
<1> QED BY <1>5, <1>9, <1>10, <1>11, <1>12 DEF Continue

LEMMA ScriptDeliverEnd ==
  ASSUME TypeOK, ScriptInv, NEW t \in Tx, DeliverEnd(t)
  PROVE  Script(t)'
<1>1. /\ Script(t) /\ status[t] = "ending" /\ UNCHANGED <<kind, canPause>>
      /\ status'[t] = "done"
  BY DEF DeliverEnd, ScriptInv, Release, TypeOK, TxTypeOK
<1>2. Locked(kind[t]) /\ executes[t] \in Seq(Invalid)
  BY <1>1 DEF Script, AtomicScript, PlainScript
<1>3. CASE SendBatch(t, executes[t]) /\ UNCHANGED isPaused
  BY <1>1, <1>2, <1>3, ExecutesType, ScriptSend
<1>4. CASE /\ ClearBatch(t) /\ UNCHANGED executes
           /\ UNCHANGED isPaused \/ canPause[t]
  <2>1. batch'[t] = << >> /\ results'[t] = << >>
    BY <1>4 DEF ClearBatch, TypeOK, SentTypeOK
  <2>2. << >> \in Seq(Invalid)
    OBVIOUS
  <2>3. canPause'[t] \/ isPaused'[t] => kind[t] = "beginTransaction"
    BY <1>1, <1>4 DEF Script
  <2> QED BY <1>1, <1>2, <1>4, <2>1, <2>2, <2>3 DEF Script, AtomicScript
<1> QED BY <1>3, <1>4 DEF DeliverEnd

LEMMA ScriptNative ==
  ASSUME TypeOK, ScriptInv, NEW t \in Tx, DeliverLate(t) \/ NativeDrop(t) \/ NativeExecute(t)
  PROVE  Script(t)'
<1>1. Script(t) /\ UNCHANGED txVars
  BY DEF DeliverLate, NativeDrop, NativeExecute, ScriptInv
<1>2. UNCHANGED <<kind, status, canPause, isPaused, executes>>
  BY <1>1 DEF txVars
<1>3. CASE DeliverLate(t)
  <2>1. batch'[t] = << >> /\ results'[t] = << >> /\ status[t] = "done"
    BY <1>3 DEF DeliverLate, ClearBatch, TypeOK, SentTypeOK
  <2>2. << >> \in Seq(Invalid)
    OBVIOUS
  <2> QED BY <1>1, <1>2, <2>1, <2>2 DEF Script, AtomicScript, PlainScript
<1>4. CASE NativeDrop(t)
  BY <1>1, <1>2, <1>4 DEF NativeDrop, Script, AtomicScript, PlainScript
<1>5. CASE NativeExecute(t)
  <2>1. /\ Len(results[t]) < Len(batch[t]) /\ UNCHANGED batch
        /\ results[t] \in Seq({"ok", "error"}) /\ batch[t] \in Seq(Statement)
    BY <1>5 DEF NativeExecute, TypeOK, SentTypeOK
  <2>2. PICK r \in {"ok", "error"} : results'[t] = Append(results[t], r)
    BY <1>5 DEF NativeExecute, TypeOK, SentTypeOK
  <2>3. Len(results'[t]) = Len(results[t]) + 1 /\ Len(results[t]) \in Nat /\ Len(batch[t]) \in Nat
    BY <2>1, <2>2, AppendProperties
  <2>4. Len(results'[t]) <= Len(batch'[t])
    BY <2>1, <2>3
  <2> QED BY <1>1, <1>2, <2>1, <2>4 DEF Script, AtomicScript, PlainScript
<1> QED BY <1>3, <1>4, <1>5

LEMMA ScriptStep ==
  TypeOK /\ QueueInv /\ WaitInv /\ ScriptInv /\ [Next]_vars => ScriptInv'
<1>0. SUFFICES ASSUME TypeOK, QueueInv, WaitInv, ScriptInv, [Next]_vars PROVE ScriptInv'
  OBVIOUS
<1>a. ASSUME UNCHANGED <<kind, status, canPause, isPaused, executes, batch, results>>
      PROVE  ScriptInv'
  BY <1>0, <1>a DEF ScriptInv, Script, AtomicScript, PlainScript
<1>b. ASSUME queue # << >> PROVE \E t \in Tx : t = Head(queue)
  BY <1>0, <1>b DEF TypeOK, JsTypeOK
<1>1. CASE OpenError
  <2>1. \A t \in Tx : status'[t] = status[t] \/ (status[t] = "queued" /\ status'[t] = "dropped")
    BY <1>0, <1>1 DEF OpenError, TypeOK, TxTypeOK, JsTypeOK, QueueInv, Range
  <2>2. UNCHANGED <<kind, canPause, isPaused, executes, batch, results>>
    BY <1>1 DEF OpenError, sentVars
  <2>3. ASSUME NEW t \in Tx PROVE Script(t)'
    <3>1. Script(t)
      BY <1>0 DEF ScriptInv
    <3>2. CASE status'[t] = status[t]
      BY <2>2, <3>1, <3>2 DEF Script, AtomicScript, PlainScript
    <3>3. CASE status[t] = "queued" /\ status'[t] = "dropped"
      BY <2>2, <3>1, <3>3 DEF Script, AtomicScript, PlainScript
    <3> QED BY <2>1, <3>2, <3>3
  <2> QED BY <2>3 DEF ScriptInv
<1>2. CASE StartTransaction
  <2>1. PICK t \in Tx : t = Head(queue)
    BY <1>2, <1>b DEF StartTransaction, CanStart
  <2> QED BY <1>0, <1>2, <2>1, ElsewhereStart, ScriptStart, ScriptOne
<1>3. CASE StartThrows
  <2>1. PICK t \in Tx : t = Head(queue)
    BY <1>3, <1>b DEF StartThrows, CanStart
  <2> QED BY <1>0, <1>3, <2>1, ElsewhereStart, ScriptThrows, ScriptOne
<1>4. ASSUME NEW t \in Tx, NEW k \in Kinds, AddTransaction(t, k) PROVE ScriptInv'
  BY <1>0, <1>4, ElsewhereOutside, ScriptAdd, ScriptOne
<1>5. ASSUME NEW t \in Tx, NEW k \in Kinds, RefuseTransaction(t, k) PROVE ScriptInv'
  BY <1>0, <1>5, ElsewhereOutside, ScriptRefuse, ScriptOne
<1>6. ASSUME NEW t \in Tx, ExecuteSql(t) PROVE ScriptInv'
  BY <1>0, <1>6, ElsewhereOutside, ScriptExecuteSql, ScriptOne
<1>7. ASSUME NEW t \in Tx, End(t) PROVE ScriptInv'
  BY <1>0, <1>7, ElsewhereOutside, ScriptEnd, ScriptOne
<1>8. ASSUME NEW t \in Tx, AbortCall(t) PROVE ScriptInv'
  BY <1>0, <1>8, ElsewhereOutside, ScriptAbortCall, ScriptOne
<1>9. ASSUME NEW t \in Tx, Deliver(t) PROVE ScriptInv'
  <2>1. Elsewhere(t)
    BY <1>0, <1>9, ElsewhereDeliver
  <2>2. Script(t)'
    BY <1>0, <1>9, ScriptDeliverResults, ScriptDeliverEnd, ScriptNative DEF Deliver
  <2> QED BY <1>0, <2>1, <2>2, ScriptOne
<1>10. ASSUME NEW t \in Tx, NativeDrop(t) \/ NativeExecute(t) PROVE ScriptInv'
  BY <1>0, <1>10, ElsewhereNative, ScriptNative, ScriptOne
<1>11. CASE UNCHANGED <<kind, status, canPause, isPaused, executes, batch, results>>
  BY <1>11, <1>a
<1> QED
  BY <1>0, <1>1, <1>2, <1>3, <1>4, <1>5, <1>6, <1>7, <1>8, <1>9, <1>10, <1>11
  DEF Next, Tick, vars, txVars, sentVars, Open, OpenSuccess, Close, DeleteDatabase,
      IdleTick, NativeOpen, NativeClose

\* Whatever the application calls, and whenever, a transaction sends BEGIN
\* before any statement of its own, and nothing of its own behind its end.
LEMMA ScriptInvariant == Spec => []ScriptInv
<1>1. Init => ScriptInv
  <2> SUFFICES ASSUME Init PROVE ScriptInv
    OBVIOUS
  <2>1. ASSUME NEW t \in Tx PROVE Script(t)
    BY DEF Init, Script, PlainScript, Locked
  <2> QED BY <2>1 DEF ScriptInv
<1>2. Init => WaitInv
  BY DEF Init, WaitInv
<1> QED BY <1>1, <1>2, ScriptStep, WaitStep, QueueCorrect, TypeCorrect, PTL DEF Spec

-----------------------------------------------------------------------------
(* Steps that send, settle or report, and leave the connection alone. *)

LEMMA CloseInvStep ==
  ASSUME AppWaits, MaxDeletes = 0
  PROVE  TypeOK /\ OneOpen /\ CloseInv /\ [Next]_vars => CloseInv'
<1>0. SUFFICES ASSUME TypeOK, OneOpen, CloseInv, [Next]_vars PROVE CloseInv'
  OBVIOUS
<1>1. closes \in Nat /\ deleteCalls \in Nat
  BY <1>0 DEF TypeOK, CallTypeOK
<1>2. CASE Open
  BY <1>2 DEF Open, NothingUnanswered, CloseInv
<1>3. CASE OpenSuccess
  BY <1>0, <1>3 DEF OpenSuccess, OneOpen, CloseInv
<1>4. CASE OpenError \/ Close
  BY <1>4 DEF OpenError, Close, CloseInv
<1>5. CASE DeleteDatabase
  BY <1>1, <1>5 DEF DeleteDatabase
<1>6. CASE NativeClose
  BY <1>0, <1>1, <1>6 DEF NativeClose, CloseInv, jsVars
<1>7. CASE UNCHANGED <<openDBs, closes>>
  BY <1>0, <1>7 DEF CloseInv
<1> QED
  BY <1>0, <1>2, <1>3, <1>4, <1>5, <1>6, <1>7
  DEF Next, Tick, Deliver, vars, jsVars, callVars, IdleTick, StartTransaction, StartThrows,
      NativeOpen, AddTransaction, RefuseTransaction, ExecuteSql, End, AbortCall,
      DeliverResults, DeliverEnd, DeliverLate, NativeDrop, NativeExecute

\* A transaction that keeps its fields keeps its place in the script.
LEMMA SamePlace ==
  ASSUME NEW u \in Tx, kind'[u] = kind[u], status'[u] = status[u], reports'[u] = reports[u],
         batch'[u] = batch[u], results'[u] = results[u]
  PROVE  /\ Begun(u)' <=> Begun(u)
         /\ \A o : Settled(u, o)' <=> Settled(u, o)
<1>1. Active(u)' <=> Active(u)
  BY DEF Active, Holding
<1>2. (Unbegun(u)' <=> Unbegun(u)) /\ (Ended(u)' <=> Ended(u))
  BY DEF Unbegun, Ended
<1>3. EndOutcome(u)' = EndOutcome(u)
  BY DEF EndOutcome, Failed
<1> QED BY <1>1, <1>2, <1>3 DEF Begun, Settled

LEMMA SqlOne ==
  ASSUME SqlInv, NEW t \in Tx, Elsewhere(t), UNCHANGED sqlVars, Begun(t)' <=> Begun(t),
         t \in durable => status'[t] # "new" /\ (Locked(kind'[t]) => Settled(t, "success")'),
         t \in lost => Locked(kind'[t]) /\ Settled(t, "error")'
  PROVE  TypeOK => SqlInv'
<1> SUFFICES ASSUME TypeOK PROVE SqlInv'
  OBVIOUS
<1>1. dirty \subseteq Tx /\ durable \subseteq Tx /\ lost \subseteq Tx
  BY DEF TypeOK, SqlTypeOK
<1>2. ASSUME NEW u \in Tx \ {t}
      PROVE  /\ kind'[u] = kind[u] /\ status'[u] = status[u]
             /\ Begun(u)' <=> Begun(u)
             /\ \A o : Settled(u, o)' <=> Settled(u, o)
  BY <1>2, SamePlace DEF Elsewhere
<1>3. UNCHANGED sqlOpen /\ UNCHANGED dirty /\ UNCHANGED durable /\ UNCHANGED lost
  BY DEF sqlVars
<1>4. \A u \in Tx : Begun(u)' <=> Begun(u)
  BY <1>2
<1>5. (sqlOpen <=> \E u \in Tx : Begun(u))' /\ (\A u \in dirty : Begun(u))'
  BY <1>1, <1>3, <1>4 DEF SqlInv
<1>6. (\A u \in durable : status[u] # "new" /\ (Locked(kind[u]) => Settled(u, "success")))'
  BY <1>1, <1>2, <1>3 DEF SqlInv
<1>7. (\A u \in lost : Locked(kind[u]) /\ Settled(u, "error"))'
  BY <1>1, <1>2, <1>3 DEF SqlInv
<1> QED BY <1>5, <1>6, <1>7 DEF SqlInv

\* A transaction that is neither ending nor done has no settled writes.
LEMMA NotSettled ==
  ASSUME SqlInv, NEW t \in Tx, status[t] \notin {"ending", "done"}
  PROVE  /\ t \notin lost
         /\ t \in durable => ~Locked(kind[t]) /\ status[t] # "new"
  BY DEF SqlInv, Settled, Ended

\* A transaction that has not got the lock, and does not get it.
LEMMA SqlWithoutLock ==
  ASSUME TypeOK, SqlInv, NEW t \in Tx, Elsewhere(t), UNCHANGED sqlVars,
         ~Holding(t), status[t] # "done", status'[t] \in {"queued", "done"},
         kind'[t] = kind[t] \/ status[t] = "new"
  PROVE  SqlInv'
<1>1. ~Begun(t) /\ ~Begun(t)'
  BY DEF Begun, Active, Holding
<1>2. t \notin lost /\ (t \in durable => ~Locked(kind[t]) /\ status[t] # "new")
  BY NotSettled DEF Holding
<1> QED BY <1>1, <1>2, SqlOne

\* A transaction that has begun and sends, with the lock, what is to follow.
LEMMA SqlSend ==
  ASSUME TypeOK, SqlInv, NEW t \in Tx, Elsewhere(t), UNCHANGED <<sqlVars, kind>>,
         Begun(t), status[t] = "running", results'[t] = << >>,
         \/ status'[t] = "running" /\ batch'[t] \in Seq(Inner)
         \/ status'[t] = "ending" /\ batch'[t] \in Seq(Statement) /\ WellEnded(batch'[t])
  PROVE  SqlInv'
<1>1. Locked(kind[t]) /\ Active(t)'
  BY DEF Begun, Active, Holding
<1>2. t \notin lost /\ t \notin durable
  BY <1>1, NotSettled
<1>3. Begun(t)'
  <2>1. CASE status'[t] = "running" /\ batch'[t] \in Seq(Inner)
    <3>1. \A i \in 1..Len(batch'[t]) : batch'[t][i] # "BEGIN"
      BY <2>1, InnerHasNoBegin
    <3>2. ~Unbegun(t)'
      BY <3>1 DEF Unbegun
    <3>3. ~Ended(t)'
      BY <2>1 DEF Ended
    <3> QED BY <1>1, <3>2, <3>3 DEF Begun
  <2>2. CASE status'[t] = "ending" /\ batch'[t] \in Seq(Statement) /\ WellEnded(batch'[t])
    <3> DEFINE b == batch'[t]
    <3>1. /\ Len(b) \in Nat /\ Len(b) # 0 /\ b[Len(b)] \in {"COMMIT", "ROLLBACK"}
          /\ \A j \in 1..(Len(b) - 1) : b[j] \in Inner
      BY <2>2, EmptySeq DEF WellEnded
    <3>2. ASSUME NEW i \in 1..Len(b) PROVE b[i] # "BEGIN"
      <4>1. CASE i = Len(b)
        BY <3>1, <4>1
      <4>2. CASE i # Len(b)
        <5>1. i \in 1..(Len(b) - 1)
          BY <3>1, <4>2
        <5> QED BY <3>1, <5>1 DEF Inner, Invalid
      <4> QED BY <4>1, <4>2
    <3>3. ~Unbegun(t)'
      BY <3>2 DEF Unbegun
    <3>4. ~Ended(t)'
      BY <3>1 DEF Ended
    <3> QED BY <1>1, <3>3, <3>4 DEF Begun
  <2> QED BY <2>1, <2>2
<1> QED BY <1>2, <1>3, SqlOne

\* A transaction that has executed everything it sent has begun, or is none
\* of SQLite's.
LEMMA AllExecuted ==
  ASSUME TypeOK, NEW t \in Tx, status[t] = "running", Locked(kind[t]),
         Len(results[t]) = Len(batch[t])
  PROVE  Begun(t)
<1>1. Len(batch[t]) \in Nat
  BY DEF TypeOK, SentTypeOK
<1>2. ~Unbegun(t) /\ ~Ended(t)
  BY <1>1 DEF Unbegun, Ended
<1> QED BY <1>2 DEF Begun, Active, Holding

LEMMA SqlStart ==
  ASSUME TypeOK, QueueInv, ScriptInv, SqlInv, NEW t \in Tx, t = Head(queue), StartTransaction
  PROVE  SqlInv'
<1>1. status[t] = "queued" /\ Elsewhere(t) /\ Script(t)
  <2>1. status[t] = "queued"
    BY DEF StartTransaction, CanStart, TypeOK, JsTypeOK, QueueInv
  <2> QED BY <2>1, ElsewhereStart DEF ScriptInv
<1>2. PICK n \in FirstStatements(t) :
        status' = [status EXCEPT ![t] = "running"] /\ SendBatch(t, executes[t] \o Users(n))
  BY DEF StartTransaction
<1>3. n \in Nat /\ executes[t] \in Seq(Statement)
  BY <1>1, <1>2, ConstantsAssumption DEF FirstStatements, TypeOK, TxTypeOK
<1> DEFINE ex == executes[t] \o Users(n)
<1>4. /\ status'[t] = "running" /\ batch'[t] = ex /\ results'[t] = << >>
      /\ UNCHANGED <<kind, sqlVars>>
  BY <1>2 DEF StartTransaction, SendBatch, TypeOK, TxTypeOK, SentTypeOK
<1>5. Locked(kind[t]) => WellBegun(ex)
  BY <1>1, <1>3, BegunUsers DEF Script, AtomicScript
<1> HIDE DEF ex
<1>6. ~Begun(t) /\ t \notin lost /\ (t \in durable => ~Locked(kind[t]))
  BY <1>1, NotSettled DEF Begun, Active, Holding
<1>7. ~Begun(t)'
  <2>1. CASE Locked(kind[t])
    <3>1. \E i \in 1..Len(batch'[t]) : batch'[t][i] = "BEGIN"
      BY <1>4, <1>5, <2>1 DEF WellBegun
    <3>2. Len(results'[t]) + 1 = 1
      BY <1>4
    <3>3. Unbegun(t)'
      BY <3>1, <3>2 DEF Unbegun
    <3> QED BY <3>3 DEF Begun
  <2>2. CASE ~Locked(kind[t])
    BY <1>4, <2>2 DEF Begun, Active
  <2> QED BY <2>1, <2>2
<1> QED BY <1>1, <1>4, <1>6, <1>7, SqlOne

\* executeSql(), end() and abort() of a transaction that is not paused send
\* nothing; of one that is paused they send inner statements or COMMIT.
LEMMA SqlOutside ==
  ASSUME TypeOK, WaitInv, ScriptInv, SqlInv, NEW t \in Tx,
         ExecuteSql(t) \/ End(t) \/ AbortCall(t)
  PROVE  SqlInv'
<1>1. /\ Elsewhere(t) /\ UNCHANGED <<sqlVars, kind, reports>> /\ Script(t)
      /\ status[t] # "new" \/ ~isPaused[t]
  BY ElsewhereOutside DEF ExecuteSql, End, AbortCall, ScriptInv, WaitInv
<1>2. /\ executes[t] \in Seq(Statement) /\ results[t] \in Seq({"ok", "error"})
      /\ batch[t] \in Seq(Statement)
  BY DEF TypeOK, TxTypeOK, SentTypeOK
\* Nothing that matters to the connection changes.
<1>3. ASSUME UNCHANGED <<status, batch, results>> PROVE SqlInv'
  <2>1. (Begun(t)' <=> Begun(t)) /\ (\A o : Settled(t, o)' <=> Settled(t, o))
    BY <1>1, <1>3, SamePlace
  <2>2. t \in durable => status[t] # "new" /\ (Locked(kind[t]) => Settled(t, "success"))
    BY DEF SqlInv
  <2>3. t \in lost => Locked(kind[t]) /\ Settled(t, "error")
    BY DEF SqlInv
  <2>4. Locked(kind'[t]) <=> Locked(kind[t])
    BY <1>1
  <2> QED BY <1>1, <1>3, <2>1, <2>2, <2>3, <2>4, SqlOne
\* A paused transaction that runs has executed everything.
<1>4. ASSUME isPaused[t], status[t] = "running" PROVE Begun(t)
  <2>1. Locked(kind[t]) /\ batch[t] = << >> /\ Len(results[t]) <= Len(batch[t])
    BY <1>1, <1>4 DEF Script, Locked, WaitInv
  <2>2. Len(results[t]) = Len(batch[t])
    BY <1>2, <2>1
  <2> QED BY <1>4, <2>1, <2>2, AllExecuted
<1>5. ASSUME isPaused[t], status[t] = "running", NEW x \in Inner,
             SendBatch(t, Append(executes[t], x)), UNCHANGED status
      PROVE  SqlInv'
  <2>1. Append(executes[t], x) \in Seq(Inner)
    <3>1. executes[t] \in Seq(Inner)
      BY <1>1, <1>4, <1>5 DEF Begun, Active, Script, AtomicScript
    <3> QED BY <3>1, AppendProperties
  <2>2. batch'[t] = Append(executes[t], x) /\ results'[t] = << >>
    BY <1>5 DEF SendBatch, TypeOK, SentTypeOK
  <2> QED BY <1>1, <1>4, <1>5, <2>1, <2>2, SqlSend
<1>6. CASE ExecuteSql(t)
  <2>1. CASE isPaused[t]
    BY <1>5, <1>6, <2>1 DEF ExecuteSql, WaitInv, Inner
  <2>2. CASE ~isPaused[t]
    BY <1>3, <1>6, <2>2 DEF ExecuteSql
  <2> QED BY <2>1, <2>2
<1>7. CASE End(t)
  <2>1. CASE isPaused[t] /\ status[t] = "running"
    <3>1. status'[t] = "ending" /\ batch'[t] = <<"COMMIT">> /\ results'[t] = << >>
      BY <1>7, <2>1 DEF End, SendBatch, TypeOK, TxTypeOK, SentTypeOK
    <3>2. <<"COMMIT">> \in Seq(Statement)
      BY ExecutesType
    <3> QED BY <1>1, <1>4, <2>1, <3>1, <3>2, CommitAlone, SqlSend
  <2>2. CASE ~(isPaused[t] /\ status[t] = "running")
    BY <1>3, <1>7, <2>2 DEF End
  <2> QED BY <2>1, <2>2
<1>8. CASE AbortCall(t)
  <2>1. UNCHANGED status
    BY <1>8 DEF AbortCall
  <2>2. CASE isPaused[t] /\ status[t] = "running"
    BY <1>5, <1>8, <2>1, <2>2 DEF AbortCall, Inner, Invalid
  <2>3. CASE isPaused[t] /\ status[t] # "running"
    <3>1. ~Begun(t) /\ ~Begun(t)' /\ status[t] = "done"
      BY <2>1, <2>3 DEF Begun, Active, Holding, WaitInv, TypeOK, TxTypeOK, Statuses
    <3>2. \A o : Settled(t, o) => Settled(t, o)'
      BY <1>1, <2>1, <3>1 DEF Settled, Active, Holding
    <3>3. t \in durable => (Locked(kind[t]) => Settled(t, "success"))
      BY DEF SqlInv
    <3>4. t \in lost => Locked(kind[t]) /\ Settled(t, "error")
      BY DEF SqlInv
    <3>5. kind'[t] = kind[t] /\ status'[t] = "done"
      BY <1>1, <2>1, <3>1
    <3> QED BY <1>1, <3>1, <3>2, <3>3, <3>4, <3>5, SqlOne
  <2>4. CASE ~isPaused[t]
    BY <1>3, <1>8, <2>1, <2>4 DEF AbortCall
  <2> QED BY <2>2, <2>3, <2>4
<1> QED BY <1>6, <1>7, <1>8

LEMMA SqlDeliverResults ==
  ASSUME TypeOK, ScriptInv, SqlInv, NEW t \in Tx, DeliverResults(t)
  PROVE  SqlInv'
<1>1. /\ Elsewhere(t) /\ status[t] = "running" /\ UNCHANGED <<sqlVars, kind>>
      /\ Len(results[t]) = Len(batch[t]) /\ Script(t) /\ Script(t)'
  BY ElsewhereDeliver, ScriptDeliverResults DEF DeliverResults, Deliver, Answered, ScriptInv
<1>2. /\ status \in [Tx -> Statuses] /\ batch \in [Tx -> Seq(Statement)]
      /\ results \in [Tx -> Seq({"ok", "error"})]
  BY DEF TypeOK, TxTypeOK, SentTypeOK
<1>3. CASE Locked(kind[t])
  <2>1. Begun(t)
    BY <1>1, <1>3, AllExecuted
  <2>2. PICK throws \in Throws(t), n \in MoreStatements(t) :
          Continue(t, throws, executes[t] \o Users(n), n)
    BY DEF DeliverResults
  <2> DEFINE ex == executes[t] \o Users(n)
  <2>3. n \in Nat
    BY <2>2, ConstantsAssumption DEF MoreStatements, TypeOK, TxTypeOK
  <2>4. executes[t] \in Seq(Inner) /\ "user" \in Inner
    BY <1>1, <1>3 DEF Script, AtomicScript, Inner
  <2>5. ex \in Seq(Inner)
    BY <2>3, <2>4, UsersBehind
  <2>6. Continue(t, throws, ex, n)
    BY <2>2
  <2> HIDE DEF ex
  <2>7. \/ SendBatch(t, ex) /\ UNCHANGED status
        \/ ClearBatch(t) /\ UNCHANGED status
        \/ \E s \in Seq(Inner), e \in {"COMMIT", "ROLLBACK"} :
             status' = [status EXCEPT ![t] = "ending"] /\ SendBatch(t, Append(s, e))
    <3>1. << >> \in Seq(Inner) /\ <<"COMMIT">> = Append(<< >>, "COMMIT")
      OBVIOUS
    <3> QED BY <1>3, <2>5, <2>6, <3>1 DEF Continue, Abort, Finish
  <2>8. CASE SendBatch(t, ex) /\ UNCHANGED status
    <3>1. batch'[t] = ex /\ results'[t] = << >>
      BY <1>2, <2>8 DEF SendBatch
    <3> QED BY <1>1, <2>1, <2>5, <2>8, <3>1, SqlSend
  <2>9. CASE ClearBatch(t) /\ UNCHANGED status
    <3>1. batch'[t] = << >> /\ results'[t] = << >> /\ << >> \in Seq(Inner)
      BY <1>2, <2>9 DEF ClearBatch
    <3> QED BY <1>1, <2>1, <2>9, <3>1, SqlSend
  <2>10. ASSUME NEW s \in Seq(Inner), NEW e \in {"COMMIT", "ROLLBACK"},
                status' = [status EXCEPT ![t] = "ending"], SendBatch(t, Append(s, e))
         PROVE  SqlInv'
    <3>1. status'[t] = "ending" /\ batch'[t] = Append(s, e) /\ results'[t] = << >>
      BY <1>2, <2>10 DEF SendBatch
    <3>2. s \in Seq(Statement) /\ e \in Statement
      <4>1. Inner \subseteq Statement /\ e \in Statement
        BY StatementSets DEF Statement
      <4> QED BY <4>1, WiderSeq
    <3>3. Append(s, e) \in Seq(Statement)
      BY <3>2, AppendProperties
    <3>4. WellEnded(Append(s, e))
      BY EndBehind
    <3> QED BY <1>1, <2>1, <3>1, <3>3, <3>4, SqlSend
  <2> QED BY <2>7, <2>8, <2>9, <2>10
<1>4. CASE ~Locked(kind[t])
  <2>1. ~Begun(t) /\ ~Begun(t)'
    BY <1>1, <1>4 DEF Begun, Active
  <2>2. t \notin lost
    BY <1>1, NotSettled
  <2>3. status'[t] # "new"
    BY <1>2, <1>1 DEF DeliverResults, Continue, Abort, Finish, Release
  <2> QED BY <1>1, <1>4, <2>1, <2>2, <2>3, SqlOne
<1> QED BY <1>3, <1>4

\* The outcome that is told is that of the end that was executed.
LEMMA SqlDeliverEnd ==
  ASSUME TypeOK, NothingToldYet, ScriptInv, SilentInv, SqlInv, NEW t \in Tx, DeliverEnd(t)
  PROVE  SqlInv'
<1>1. /\ Elsewhere(t) /\ status[t] = "ending" /\ UNCHANGED <<sqlVars, kind>>
      /\ Len(results[t]) = Len(batch[t]) /\ Release(t, EndOutcome(t))
  BY ElsewhereDeliver DEF DeliverEnd, Deliver, Answered
<1>2. Locked(kind[t])
  BY <1>1 DEF ScriptInv, Script, PlainScript
<1>3. status'[t] = "done"
  BY <1>1 DEF Release, TypeOK, TxTypeOK
<1>4. reports'[t] \in Telling(EndOutcome(t))
  <2>1. reports[t] = << >>
    BY <1>1 DEF NothingToldYet, Over
  <2>2. canPause[t] => EndOutcome(t) = "error"
    BY <1>1 DEF SilentInv, EndOutcome
  <2>3. reports'[t] = Report(t, EndOutcome(t))
    BY <1>1 DEF Release, TypeOK, TxTypeOK
  <2>4. Report(t, EndOutcome(t)) = IF canPause[t] THEN reports[t]
                                   ELSE Append(reports[t], EndOutcome(t))
    BY <1>2 DEF Report, HasCallback, Locked
  <2>5. EndOutcome(t) \in {"success", "error"}
    BY DEF EndOutcome
  <2>6. CASE canPause[t]
    BY <2>1, <2>2, <2>3, <2>4, <2>6 DEF Telling
  <2>7. CASE ~canPause[t]
    <3>1. reports'[t] = <<EndOutcome(t)>>
      BY <2>1, <2>3, <2>4, <2>7
    <3> QED BY <3>1 DEF Telling
  <2> QED BY <2>6, <2>7
<1>5. ~Begun(t) /\ ~Begun(t)'
  BY <1>1, <1>3 DEF Begun, Ended, Active, Holding
<1>6. \A o : Settled(t, o) => Settled(t, o)'
  BY <1>1, <1>3, <1>4 DEF Settled
<1>7. t \in durable => Settled(t, "success")
  BY <1>2 DEF SqlInv
<1>8. t \in lost => Settled(t, "error")
  BY DEF SqlInv
<1>9. Locked(kind'[t])
  BY <1>1, <1>2
<1> QED BY <1>1, <1>3, <1>5, <1>6, <1>7, <1>8, <1>9, SqlOne

\* A batch of abort() behind the end is nothing to the connection.
LEMMA SqlLate ==
  ASSUME TypeOK, SqlInv, NEW t \in Tx, Elsewhere(t), UNCHANGED <<txVars, sqlVars>>,
         status[t] \notin {"running", "ending"}
  PROVE  SqlInv'
<1>1. UNCHANGED <<kind, status, reports>>
  BY DEF txVars
<1>2. ~Begun(t) /\ ~Begun(t)'
  BY <1>1 DEF Begun, Active, Holding
<1>3. \A o : Settled(t, o) => Settled(t, o)'
  BY <1>1 DEF Settled, Active, Holding
<1>4. t \in durable => status[t] # "new" /\ (Locked(kind[t]) => Settled(t, "success"))
  BY DEF SqlInv
<1>5. t \in lost => Locked(kind[t]) /\ Settled(t, "error")
  BY DEF SqlInv
<1>6. kind'[t] = kind[t] /\ status'[t] = status[t]
  BY <1>1
<1> QED BY <1>2, <1>3, <1>4, <1>5, <1>6, SqlOne

-----------------------------------------------------------------------------
(* The connection executes a statement. *)

\* Results are one more, statements the same.
LEMMA OneResult ==
  ASSUME TypeOK, NEW t \in Tx, NEW r, results' = [results EXCEPT ![t] = Append(@, r)],
         r \in {"ok", "error"}
  PROVE  /\ Len(results'[t]) = Len(results[t]) + 1
         /\ results'[t][Len(results[t]) + 1] = r
         /\ Len(results[t]) \in Nat /\ Len(batch[t]) \in Nat
<1>1. results[t] \in Seq({"ok", "error"}) /\ results'[t] = Append(results[t], r)
  BY DEF TypeOK, SentTypeOK
<1>2. Len(batch[t]) \in Nat
  BY DEF TypeOK, SentTypeOK
<1> QED BY <1>1, <1>2, AppendProperties

\* The next statement of an atomic transaction whose BEGIN is still to come
\* is BEGIN, or nothing but the statement before it.
LEMMA NextBegins ==
  ASSUME TypeOK, ScriptInv, NEW t \in Tx, Active(t), Unbegun(t)
  PROVE  LET n == Len(results[t]) IN
         /\ status[t] = "running"
         /\ \/ /\ batch[t][n + 1] = "BEGIN"
               /\ \A j \in (n + 2)..Len(batch[t]) : batch[t][j] # "BEGIN"
            \/ /\ batch[t][n + 1] = "SELECT 1"
               /\ \E j \in (n + 2)..Len(batch[t]) : batch[t][j] = "BEGIN"
<1> DEFINE n == Len(results[t])
<1>0. n \in Nat
  BY DEF TypeOK, SentTypeOK
<1> DEFINE b == batch[t]
<1>1. /\ b \in Seq(Statement) /\ Len(b) \in Nat /\ status[t] \in {"running", "ending"}
      /\ AtomicScript(t)
  BY DEF TypeOK, SentTypeOK, Active, Holding, ScriptInv, Script
<1>2. PICK i \in (n + 1)..Len(b) : b[i] = "BEGIN"
  BY DEF Unbegun
<1> HIDE DEF n
<1>3. i \in 1..Len(b)
  BY <1>0, <1>1
<1>4. ~WellEnded(b)
  <2> SUFFICES ASSUME WellEnded(b) PROVE FALSE
    OBVIOUS
  <2>1. i # Len(b)
    BY <1>2 DEF WellEnded
  <2>2. i \in 1..(Len(b) - 1)
    BY <1>1, <1>3, <2>1
  <2> QED BY <1>2, <2>2 DEF WellEnded, Inner, Invalid
<1>5. b \notin Seq(Inner)
  BY <1>2, <1>3, InnerHasNoBegin
<1>6. status[t] = "running" /\ WellBegun(b)
  BY <1>1, <1>4, <1>5 DEF AtomicScript
<1> HIDE DEF b
<1>7. PICK k \in 1..Len(b) :
        /\ b[k] = "BEGIN"
        /\ \A j \in 1..Len(b) : (j < k => b[j] = "SELECT 1") /\ (j > k => b[j] \in Inner)
  BY <1>6 DEF WellBegun
<1>8. i = k
  <2>1. ~(i < k)
    BY <1>2, <1>3, <1>7
  <2>2. ~(i > k)
    BY <1>2, <1>3, <1>7 DEF Inner, Invalid
  <2> QED BY <1>3, <2>1, <2>2
<1>9. CASE i = n + 1
  <2>1. \A j \in (n + 2)..Len(b) : j \in 1..Len(b) /\ j > k
    BY <1>0, <1>1, <1>8, <1>9
  <2>2. ASSUME NEW j \in (n + 2)..Len(b) PROVE b[j] # "BEGIN"
    BY <1>7, <2>1 DEF Inner, Invalid
  <2> QED BY <1>2, <1>6, <1>9, <2>2 DEF b, n
<1>10. CASE i # n + 1
  <2>1. i \in (n + 2)..Len(b) /\ n + 1 \in 1..Len(b) /\ n + 1 < k
    BY <1>0, <1>1, <1>8, <1>10
  <2>2. b[n + 1] = "SELECT 1"
    BY <1>7, <2>1
  <2> QED BY <1>2, <1>6, <2>1, <2>2 DEF b, n
<1> QED BY <1>9, <1>10

\* The next statement behind BEGIN is an inner one, or the end.
LEMMA NextInner ==
  ASSUME TypeOK, ScriptInv, NEW t \in Tx, Active(t), ~Unbegun(t),
         NEW n \in Nat, n = Len(results[t]), n < Len(batch[t])
  PROVE  \/ batch[t][n + 1] \in Inner /\ (status[t] = "ending" => n + 1 # Len(batch[t]))
         \/ /\ batch[t][n + 1] \in {"COMMIT", "ROLLBACK"}
            /\ status[t] = "ending" /\ n + 1 = Len(batch[t]) /\ WellEnded(batch[t])
<1> DEFINE b == batch[t]
<1>1. /\ b \in Seq(Statement) /\ Len(b) \in Nat /\ status[t] \in {"running", "ending"}
      /\ AtomicScript(t)
  BY DEF TypeOK, SentTypeOK, Active, Holding, ScriptInv, Script
<1>2. n + 1 \in 1..Len(b)
  BY <1>1
<1>3. CASE status[t] = "ending"
  <2>1. WellEnded(b)
    BY <1>1, <1>3 DEF AtomicScript
  <2>2. CASE n + 1 = Len(b)
    BY <1>3, <2>1, <2>2 DEF WellEnded
  <2>3. CASE n + 1 # Len(b)
    <3>1. n + 1 \in 1..(Len(b) - 1)
      BY <1>1, <1>2, <2>3
    <3> QED BY <2>1, <2>3, <3>1 DEF WellEnded
  <2> QED BY <2>2, <2>3
<1>4. CASE status[t] = "running" /\ b \in Seq(Inner)
  <2>1. b[n + 1] \in Inner
    BY <1>2, <1>4
  <2> QED BY <1>4, <2>1
<1>5. CASE status[t] = "running" /\ WellBegun(b)
  <2>1. ~(\E i \in (n + 1)..Len(b) : b[i] = "BEGIN")
    BY DEF Unbegun
  <2> HIDE DEF b
  <2>2. PICK k \in 1..Len(b) :
          /\ b[k] = "BEGIN"
          /\ \A j \in 1..Len(b) : (j < k => b[j] = "SELECT 1") /\ (j > k => b[j] \in Inner)
    BY <1>5 DEF WellBegun
  <2>3. b[k] = "BEGIN"
    BY <2>2
  <2>4. k \notin (n + 1)..Len(b)
    BY <2>1, <2>3
  <2>5. n + 1 > k
    BY <1>1, <2>4
  <2>6. b[n + 1] \in Inner
    BY <1>2, <2>2, <2>5
  <2> QED BY <1>5, <2>6 DEF b
<1> QED BY <1>1, <1>3, <1>4, <1>5 DEF AtomicScript

\* The outcome is the result of COMMIT, if that is the end.
LEMMA OutcomeOfEnd ==
  ASSUME TypeOK, NEW t \in Tx, WellEnded(batch[t]), UNCHANGED batch,
         NEW r \in {"ok", "error"}, results'[t][Len(batch[t])] = r
  PROVE  EndOutcome(t)' = IF batch[t][Len(batch[t])] = "COMMIT" /\ r = "ok"
                          THEN "success" ELSE "error"
<1> DEFINE b == batch[t]
<1>1. b \in Seq(Statement) /\ b # << >>
  BY DEF TypeOK, SentTypeOK, WellEnded
<1>2. Len(b) \in 1..Len(b) /\ Len(b) \in Nat
  BY <1>1, EmptySeq
<1>3. ASSUME NEW i \in 1..Len(b), b[i] = "COMMIT" PROVE i = Len(b)
  <2>1. ~(i \in 1..(Len(b) - 1))
    BY <1>3 DEF WellEnded, Inner, Invalid
  <2> QED BY <1>2, <2>1
<1>4. b' = b
  OBVIOUS
<1>5. b[Len(b)] = "COMMIT" => (Failed(t, "COMMIT")' <=> r = "error")
  BY <1>2, <1>3, <1>4 DEF Failed
<1> QED BY <1>4, <1>5 DEF EndOutcome

\* At most one transaction has begun.
LEMMA OneBegun ==
  ASSUME Serialized, NEW t \in Tx, Holding(t), NEW u \in Tx \ {t}
  PROVE  /\ ~Holding(u) /\ ~Begun(u)
         /\ \A o : Settled(u, o) <=> (status[u] = "done" /\ reports[u] \in Telling(o))
  BY DEF Serialized, OneAtATime, Begun, Active, Settled

\* A statement outside a transaction of SQLite is committed at once.
LEMMA SqlExecutePlain ==
  ASSUME TypeOK, Serialized, ScriptInv, SqlInv, NEW t \in Tx, Holding(t), ~Locked(kind[t]),
         Elsewhere(t), UNCHANGED txVars, NEW s \in Plain, NEW r, Execute(t, s, r)
  PROVE  SqlInv'
<1>1. UNCHANGED <<kind, status, reports>>
  BY DEF txVars
<1>2. \A u \in Tx : ~Begun(u)
  BY OneBegun DEF Begun, Active
<1>3. ~sqlOpen /\ dirty = {} /\ t \notin lost
  BY <1>2 DEF SqlInv, TypeOK, SqlTypeOK
<1>4. /\ UNCHANGED <<sqlOpen, dirty, lost>>
      /\ durable' = durable \/ durable' = durable \cup {t}
  BY <1>3 DEF Execute, sqlVars, Plain, Inner, Invalid
<1>5. ASSUME NEW u \in Tx PROVE ~Begun(u)'
  <2>1. CASE u = t
    BY <1>1, <2>1 DEF Begun, Active
  <2>2. CASE u # t
    BY <1>1, <1>2, <2>2, SamePlace DEF Elsewhere
  <2> QED BY <2>1, <2>2
<1>6. ASSUME NEW u \in Tx \ {t} PROVE \A o : Settled(u, o)' <=> Settled(u, o)
  BY <1>1, <1>6, SamePlace DEF Elsewhere
<1>7. durable \subseteq Tx /\ lost \subseteq Tx
  BY DEF TypeOK, SqlTypeOK
<1>8. (sqlOpen <=> \E u \in Tx : Begun(u))' /\ (\A u \in dirty : Begun(u))'
  BY <1>3, <1>4, <1>5
<1>9. (\A u \in durable : status[u] # "new" /\ (Locked(kind[u]) => Settled(u, "success")))'
  BY <1>1, <1>4, <1>6, <1>7 DEF SqlInv, Holding
<1>10. (\A u \in lost : Locked(kind[u]) /\ Settled(u, "error"))'
  BY <1>1, <1>3, <1>4, <1>6, <1>7 DEF SqlInv
<1> QED BY <1>8, <1>9, <1>10 DEF SqlInv

\* What is committed, undone or pending of the other transactions does not
\* change, and that of t is settled or not.
LEMMA SqlHolder ==
  ASSUME TypeOK, Serialized, SqlInv, NEW t \in Tx, Holding(t), Locked(kind[t]),
         Elsewhere(t), UNCHANGED txVars,
         sqlOpen' <=> Begun(t)',
         dirty' \subseteq (IF Begun(t)' THEN {t} ELSE {}),
         durable' \subseteq durable \cup {t}, t \in durable' => Settled(t, "success")',
         lost' \subseteq lost \cup {t}, t \in lost' => Settled(t, "error")'
  PROVE  SqlInv'
<1>1. UNCHANGED <<kind, status, reports>>
  BY DEF txVars
<1>2. durable \subseteq Tx /\ lost \subseteq Tx
  BY DEF TypeOK, SqlTypeOK
<1>3. ASSUME NEW u \in Tx \ {t}
      PROVE  ~Begun(u)' /\ \A o : Settled(u, o)' <=> Settled(u, o)
  BY <1>1, <1>3, SamePlace, OneBegun DEF Elsewhere
<1>4. (sqlOpen <=> \E u \in Tx : Begun(u))' /\ (\A u \in dirty : Begun(u))'
  BY <1>3
<1>5. (\A u \in durable : status[u] # "new" /\ (Locked(kind[u]) => Settled(u, "success")))'
  BY <1>1, <1>2, <1>3 DEF SqlInv, Holding
<1>6. (\A u \in lost : Locked(kind[u]) /\ Settled(u, "error"))'
  BY <1>1, <1>2, <1>3 DEF SqlInv
<1> QED BY <1>4, <1>5, <1>6 DEF SqlInv

\* Before BEGIN no transaction of SQLite is open, and BEGIN opens one.
LEMMA SqlExecuteBegin ==
  ASSUME TypeOK, Serialized, ScriptInv, SqlInv, NEW t \in Tx, Active(t), Unbegun(t),
         Elsewhere(t), UNCHANGED <<txVars, batch>>,
         NEW r \in {"ok", "error"}, results' = [results EXCEPT ![t] = Append(@, r)],
         Execute(t, batch[t][Len(results[t]) + 1], r)
  PROVE  SqlInv'
<1> DEFINE n == Len(results[t])
<1>1. /\ n \in Nat /\ Len(results'[t]) = n + 1 /\ Len(batch[t]) \in Nat
      /\ Holding(t) /\ Locked(kind[t]) /\ batch' = batch
  BY OneResult DEF Active
<1>2. /\ status[t] = "running"
      /\ \/ /\ batch[t][n + 1] = "BEGIN"
            /\ \A j \in (n + 2)..Len(batch[t]) : batch[t][j] # "BEGIN"
         \/ /\ batch[t][n + 1] = "SELECT 1"
            /\ \E j \in (n + 2)..Len(batch[t]) : batch[t][j] = "BEGIN"
  BY NextBegins
<1>3. \A u \in Tx : ~Begun(u)
  BY <1>1, OneBegun DEF Begun
<1>4. ~sqlOpen /\ dirty = {} /\ t \notin lost /\ t \notin durable
  BY <1>1, <1>2, <1>3, NotSettled DEF SqlInv, TypeOK, SqlTypeOK
<1>5. Active(t)' /\ ~Ended(t)' /\ status'[t] = "running"
  BY <1>1, <1>2 DEF txVars, Active, Holding, Ended
<1>6. (n + 1) + 1 = n + 2
  BY <1>1
<1>7. CASE /\ batch[t][n + 1] = "BEGIN"
           /\ \A j \in (n + 2)..Len(batch[t]) : batch[t][j] # "BEGIN"
  <2>1. sqlOpen' /\ UNCHANGED <<dirty, durable, lost>>
    BY <1>4, <1>7 DEF Execute
  <2>2. ~Unbegun(t)'
    BY <1>1, <1>6, <1>7 DEF Unbegun
  <2>3. Begun(t)'
    BY <1>5, <2>2 DEF Begun
  <2> QED BY <1>1, <1>4, <2>1, <2>3, SqlHolder
<1>8. CASE /\ batch[t][n + 1] = "SELECT 1"
           /\ \E j \in (n + 2)..Len(batch[t]) : batch[t][j] = "BEGIN"
  <2>1. UNCHANGED <<sqlOpen, dirty, durable, lost>>
    BY <1>8 DEF Execute, sqlVars
  <2>2. Unbegun(t)'
    BY <1>1, <1>6, <1>8 DEF Unbegun
  <2>3. ~Begun(t)'
    BY <2>2 DEF Begun
  <2> QED BY <1>1, <1>4, <2>1, <2>3, SqlHolder
<1> QED BY <1>2, <1>7, <1>8

\* Behind BEGIN the transaction of SQLite is open until the end is executed,
\* and then its writes went where the outcome says.
LEMMA SqlExecuteInner ==
  ASSUME OnlyTheEndEnds, TypeOK, Serialized, ScriptInv, SqlInv,
         NEW t \in Tx, Active(t), ~Unbegun(t),
         Elsewhere(t), UNCHANGED <<txVars, batch>>, Len(results[t]) < Len(batch[t]),
         NEW r \in {"ok", "error"}, results' = [results EXCEPT ![t] = Append(@, r)],
         Execute(t, batch[t][Len(results[t]) + 1], r)
  PROVE  SqlInv'
<1> DEFINE n == Len(results[t])
           s == batch[t][n + 1]
<1>1. /\ n \in Nat /\ Len(results'[t]) = n + 1 /\ Len(batch[t]) \in Nat
      /\ Holding(t) /\ Locked(kind[t]) /\ batch' = batch /\ results'[t][n + 1] = r
  BY OneResult DEF Active
<1>2. \/ s \in Inner /\ (status[t] = "ending" => n + 1 # Len(batch[t]))
      \/ /\ s \in {"COMMIT", "ROLLBACK"}
         /\ status[t] = "ending" /\ n + 1 = Len(batch[t]) /\ WellEnded(batch[t])
  BY <1>1, NextInner
<1>3. Begun(t)
  BY <1>1 DEF Begun, Ended
<1>4. sqlOpen /\ dirty \subseteq {t} /\ t \notin durable /\ t \notin lost
  <2>1. sqlOpen
    BY <1>3 DEF SqlInv
  <2>2. dirty \subseteq {t}
    BY <1>1, OneBegun DEF SqlInv, TypeOK, SqlTypeOK
  <2>3. ~Settled(t, "success") /\ ~Settled(t, "error")
    BY <1>1, <1>3 DEF Settled, Begun, Holding
  <2> QED BY <1>1, <2>1, <2>2, <2>3 DEF SqlInv
<1>5. ~Unbegun(t)' /\ Active(t)' /\ status'[t] = status[t]
  <2>1. \A j \in ((n + 1) + 1)..Len(batch[t]) : j \in (n + 1)..Len(batch[t])
    BY <1>1
  <2>2. ~Unbegun(t)'
    BY <1>1, <2>1 DEF Unbegun
  <2>3. UNCHANGED <<status, kind>>
    BY DEF txVars
  <2> QED BY <2>2, <2>3 DEF Active, Holding
<1>6. CASE s \in Inner /\ (status[t] = "ending" => n + 1 # Len(batch[t]))
  <2>1. ~Ended(t)'
    BY <1>1, <1>5, <1>6 DEF Ended
  <2>2. Begun(t)'
    BY <1>5, <2>1 DEF Begun
  <2>3. /\ sqlOpen' = sqlOpen /\ durable' = durable /\ lost' = lost
        /\ dirty' = dirty \/ dirty' = dirty \cup {t}
    BY <1>4, <1>6 DEF Execute, sqlVars, Inner, Invalid, OnlyTheEndEnds
  <2>4. dirty' \subseteq {t}
    BY <1>4, <2>3
  <2>5. t \notin durable' /\ t \notin lost'
    BY <1>4, <2>3
  <2>6. durable' \subseteq durable \cup {t} /\ lost' \subseteq lost \cup {t} /\ sqlOpen'
    BY <1>4, <2>3
  <2> QED BY <1>1, <2>2, <2>4, <2>5, <2>6, SqlHolder
<1>7. CASE /\ s \in {"COMMIT", "ROLLBACK"}
           /\ status[t] = "ending" /\ n + 1 = Len(batch[t]) /\ WellEnded(batch[t])
  <2>1. Ended(t)'
    BY <1>1, <1>5, <1>7 DEF Ended
  <2>2. ~Begun(t)'
    BY <2>1 DEF Begun
  <2>3. EndOutcome(t)' = IF s = "COMMIT" /\ r = "ok" THEN "success" ELSE "error"
    BY <1>1, <1>7, OutcomeOfEnd
  <2>4. \A o : EndOutcome(t)' = o => Settled(t, o)'
    BY <1>5, <2>1 DEF Settled
  <2>5. CASE s = "COMMIT" /\ r = "ok"
    <3>1. ~sqlOpen' /\ dirty' = {} /\ durable' = durable \cup dirty /\ lost' = lost
      BY <1>4, <2>5 DEF Execute
    <3>2. Settled(t, "success")'
      BY <2>3, <2>4, <2>5
    <3>3. durable' \subseteq durable \cup {t} /\ lost' \subseteq lost \cup {t} /\ t \notin lost'
      BY <1>4, <3>1
    <3> QED BY <1>1, <2>2, <3>1, <3>2, <3>3, SqlHolder
  <2>6. CASE ~(s = "COMMIT" /\ r = "ok")
    <3>1. Undo
      BY <1>4, <1>7, <2>6 DEF Execute, OnlyTheEndEnds
    <3>2. ~sqlOpen' /\ dirty' = {} /\ durable' = durable /\ lost' = lost \cup dirty
      BY <3>1 DEF Undo
    <3>3. Settled(t, "error")'
      BY <2>3, <2>4, <2>6
    <3>4. durable' \subseteq durable \cup {t} /\ lost' \subseteq lost \cup {t} /\ t \notin durable'
      BY <1>4, <3>2
    <3> QED BY <1>1, <2>2, <3>2, <3>3, <3>4, SqlHolder
  <2> QED BY <2>5, <2>6
<1> QED BY <1>2, <1>6, <1>7

LEMMA SqlExecute ==
  ASSUME OnlyTheEndEnds, TypeOK, WaitInv, Serialized, ScriptInv, SqlInv,
         NEW t \in Tx, NativeExecute(t)
  PROVE  SqlInv'
<1> DEFINE s == batch[t][Len(results[t]) + 1]
<1>1. PICK r \in {"ok", "error"} : /\ Execute(t, s, r)
                                   /\ results' = [results EXCEPT ![t] = Append(@, r)]
  BY DEF NativeExecute
<1>2. /\ Elsewhere(t) /\ UNCHANGED <<txVars, batch>> /\ Script(t)
      /\ Len(results[t]) < Len(batch[t])
  BY ElsewhereNative DEF NativeExecute, ScriptInv
<1>3. /\ results[t] \in Seq({"ok", "error"}) /\ batch[t] \in Seq(Statement)
      /\ Len(results[t]) + 1 \in 1..Len(batch[t]) /\ batch[t] # << >>
  <2>1. results[t] \in Seq({"ok", "error"}) /\ batch[t] \in Seq(Statement)
    BY DEF TypeOK, SentTypeOK
  <2> QED BY <1>2, <2>1
<1>4. CASE Active(t)
  <2>1. CASE Unbegun(t)
    BY <1>1, <1>2, <1>4, <2>1, SqlExecuteBegin
  <2>2. CASE ~Unbegun(t)
    BY <1>1, <1>2, <1>4, <2>2, SqlExecuteInner
  <2> QED BY <2>1, <2>2
<1>5. CASE Holding(t) /\ ~Locked(kind[t])
  <2>1. batch[t] \in Seq(Plain)
    BY <1>2, <1>5 DEF Script, PlainScript, Holding
  <2>2. s \in Plain
    BY <1>3, <2>1
  <2> HIDE DEF s
  <2> QED BY <1>1, <1>2, <1>5, <2>2, SqlExecutePlain
<1>6. CASE ~Holding(t)
  <2>1. status[t] = "done"
    BY <1>3, <1>6 DEF WaitInv, Holding, TypeOK, TxTypeOK, Statuses
  <2>2. batch[t] \in Seq(Invalid)
    BY <1>2, <1>3, <2>1 DEF Script, AtomicScript, PlainScript
  <2>3. s \in Invalid
    BY <1>3, <2>2
  <2>4. UNCHANGED sqlVars
    BY <1>1, <2>3 DEF Execute, Invalid
  <2> QED BY <1>2, <2>1, <2>4, SqlLate
<1> QED BY <1>4, <1>5, <1>6 DEF Active

\* A close request finds no transaction of SQLite open.
LEMMA SqlClose ==
  ASSUME TypeOK, OneOpen, CloseInv, Serialized, SqlInv, NativeClose
  PROVE  SqlInv'
<1>1. ~inProgress
  BY DEF NativeClose, CloseInv, OneOpen, TypeOK, CallTypeOK
<1>2. \A u \in Tx : ~Begun(u)
  BY <1>1 DEF Serialized, Begun, Active
<1>3. ~sqlOpen /\ dirty = {}
  BY <1>2 DEF SqlInv, TypeOK, SqlTypeOK
<1>4. /\ ~sqlOpen' /\ dirty' = {} /\ UNCHANGED durable /\ UNCHANGED lost
      /\ UNCHANGED <<kind, status, reports, batch, results>>
  BY <1>3 DEF NativeClose, Undo, txVars, sentVars
<1>5. ASSUME NEW u \in Tx PROVE ~Begun(u)' /\ \A o : Settled(u, o)' <=> Settled(u, o)
  BY <1>2, <1>4, SamePlace
<1>6. durable \subseteq Tx /\ lost \subseteq Tx
  BY DEF TypeOK, SqlTypeOK
<1>7. (\A u \in durable : status[u] # "new" /\ (Locked(kind[u]) => Settled(u, "success")))'
  BY <1>4, <1>5, <1>6 DEF SqlInv
<1>8. (\A u \in lost : Locked(kind[u]) /\ Settled(u, "error"))'
  BY <1>4, <1>5, <1>6 DEF SqlInv
<1> QED BY <1>4, <1>5, <1>7, <1>8 DEF SqlInv

\* Transactions that are aborted in the queue have not begun.
LEMMA SqlOpenError ==
  ASSUME TypeOK, QueueInv, SqlInv, OpenError
  PROVE  SqlInv'
<1>1. /\ UNCHANGED <<kind, batch, results>> /\ UNCHANGED sqlOpen /\ UNCHANGED dirty
      /\ UNCHANGED durable /\ UNCHANGED lost
  BY DEF OpenError, sentVars, sqlVars
<1>2. ASSUME NEW u \in Tx
      PROVE  \/ status'[u] = status[u] /\ reports'[u] = reports[u]
             \/ status[u] = "queued" /\ status'[u] = "dropped"
  BY DEF OpenError, TypeOK, TxTypeOK, JsTypeOK, QueueInv, Range
<1>3. ASSUME NEW u \in Tx
      PROVE  /\ Begun(u)' <=> Begun(u)
             /\ \A o : Settled(u, o)' <=> Settled(u, o)
             /\ status'[u] = "new" => status[u] = "new"
  <2>1. CASE status'[u] = status[u] /\ reports'[u] = reports[u]
    BY <1>1, <2>1, SamePlace
  <2>2. CASE status[u] = "queued" /\ status'[u] = "dropped"
    BY <2>2 DEF Begun, Active, Holding, Settled
  <2> QED BY <1>2, <2>1, <2>2
<1>4. dirty \subseteq Tx /\ durable \subseteq Tx /\ lost \subseteq Tx
  BY DEF TypeOK, SqlTypeOK
<1>5. (sqlOpen <=> \E u \in Tx : Begun(u))' /\ (\A u \in dirty : Begun(u))'
  BY <1>1, <1>3, <1>4 DEF SqlInv
<1>6. (\A u \in durable : status[u] # "new" /\ (Locked(kind[u]) => Settled(u, "success")))'
  BY <1>1, <1>3, <1>4 DEF SqlInv
<1>7. (\A u \in lost : Locked(kind[u]) /\ Settled(u, "error"))'
  BY <1>1, <1>3, <1>4 DEF SqlInv
<1> QED BY <1>5, <1>6, <1>7 DEF SqlInv

\* COMMIT is sent only when the application has asked for the end.
LEMMA SilentStep == TypeOK /\ WaitInv /\ SilentInv /\ [Next]_vars => SilentInv'
<1>0. SUFFICES ASSUME TypeOK, WaitInv, SilentInv, [Next]_vars PROVE SilentInv'
  OBVIOUS
<1>t. /\ status \in [Tx -> Statuses] /\ canPause \in [Tx -> BOOLEAN]
      /\ batch \in [Tx -> Seq(Statement)] /\ executes \in [Tx -> Seq(Statement)]
  BY <1>0 DEF TypeOK, TxTypeOK, SentTypeOK
\* All but one transaction keep what SilentInv looks at.
<1>a. ASSUME NEW t \in Tx,
             Elsewhere(t),
             status'[t] = "ending" /\ canPause'[t] => batch'[t][Len(batch'[t])] # "COMMIT"
      PROVE  SilentInv'
  BY <1>0, <1>a DEF SilentInv, Elsewhere
<1>b. ASSUME UNCHANGED <<status, canPause, batch>> PROVE SilentInv'
  BY <1>0, <1>b DEF SilentInv
<1>1. CASE \/ Open \/ OpenSuccess \/ Close \/ DeleteDatabase \/ IdleTick \/ NativeOpen \/ NativeClose
           \/ UNCHANGED vars
  BY <1>1, <1>b
  DEF Open, OpenSuccess, Close, DeleteDatabase, IdleTick, NativeOpen, NativeClose, vars, txVars,
      sentVars
<1>2. CASE OpenError
  BY <1>0, <1>2 DEF OpenError, SilentInv, sentVars
<1>3. CASE StartTransaction \/ StartThrows
  <2>1. PICK t \in Tx : t = Head(queue)
    BY <1>0, <1>3 DEF StartTransaction, StartThrows, CanStart, TypeOK, JsTypeOK
  <2>2. status'[t] # "ending"
    BY <1>t, <1>3, <2>1 DEF StartTransaction, StartThrows
  <2> QED BY <1>0, <1>3, <1>a, <2>1, <2>2, ElsewhereStart
<1>4. ASSUME NEW t \in Tx, NEW k \in Kinds, AddTransaction(t, k) \/ RefuseTransaction(t, k)
      PROVE  SilentInv'
  <2>1. status'[t] # "ending"
    BY <1>t, <1>4 DEF AddTransaction, RefuseTransaction
  <2> QED BY <1>0, <1>4, <1>a, <2>1, ElsewhereOutside
<1>5. ASSUME NEW t \in Tx, ExecuteSql(t) PROVE SilentInv'
  <2>1. status'[t] # "ending"
    BY <1>5 DEF ExecuteSql
  <2> QED BY <1>0, <1>5, <1>a, <2>1, ElsewhereOutside
<1>6. ASSUME NEW t \in Tx, End(t) \/ AbortCall(t) PROVE SilentInv'
  <2>1. ~canPause'[t]
    BY <1>t, <1>6 DEF End, AbortCall
  <2> QED BY <1>0, <1>6, <1>a, <2>1, ElsewhereOutside
<1>7. ASSUME NEW t \in Tx, DeliverResults(t) PROVE SilentInv'
  <2>1. PICK throws \in Throws(t), n \in MoreStatements(t) :
          Continue(t, throws, executes[t] \o Users(n), n)
    BY <1>7 DEF DeliverResults
  <2>2. n \in Nat
    BY <1>0, <2>1, ConstantsAssumption DEF MoreStatements, TypeOK, TxTypeOK
  <2>3. executes[t] \o Users(n) \in Seq(Statement)
    BY <1>0, <2>2, ExecutesType
  <2> DEFINE ex == executes[t] \o Users(n)
  <2> HIDE DEF ex
  <2>4. status[t] = "running" /\ canPause' = canPause
    BY <1>7 DEF DeliverResults
  <2>5. ASSUME Locked(kind[t]), Abort(t, ex) PROVE batch'[t][Len(batch'[t])] # "COMMIT"
    <3>1. batch'[t] = Append(ex, "ROLLBACK")
      BY <1>t, <2>5 DEF Abort, SendBatch
    <3> QED BY <2>3, <3>1 DEF ex
  <2>6. \/ status'[t] # "ending"
        \/ Locked(kind[t]) /\ Abort(t, ex)
        \/ ~canPause[t]
    BY <1>t, <2>1, <2>4 DEF Continue, Abort, Release, ex
  <2> QED BY <1>0, <1>7, <1>a, <2>4, <2>5, <2>6, ElsewhereDeliver DEF Deliver
<1>8. ASSUME NEW t \in Tx, DeliverEnd(t) \/ DeliverLate(t) PROVE SilentInv'
  <2>1. status'[t] # "ending"
    BY <1>t, <1>8 DEF DeliverEnd, DeliverLate, Release, txVars
  <2> QED BY <1>0, <1>8, <1>a, <2>1, ElsewhereDeliver DEF Deliver
<1>9. ASSUME NEW t \in Tx, NativeDrop(t) \/ NativeExecute(t) PROVE SilentInv'
  BY <1>9, <1>b DEF NativeDrop, NativeExecute, txVars
<1> QED BY <1>0, <1>1, <1>2, <1>3, <1>4, <1>5, <1>6, <1>7, <1>8, <1>9 DEF Next, Tick, Deliver

LEMMA SilentInvariant == Spec => []SilentInv
<1>1. Init => SilentInv
  BY DEF Init, SilentInv
<1>2. Init => WaitInv
  BY DEF Init, WaitInv
<1> QED BY <1>1, <1>2, SilentStep, WaitStep, QueueCorrect, TypeCorrect, PTL DEF Spec

\* Everything the step of SqlInv rests on.
BaseInv ==
  /\ TypeOK /\ QueueInv /\ WaitInv /\ CallbackInv /\ NothingToldYet
  /\ OneOpen /\ Serialized /\ CloseInv /\ ScriptInv /\ SilentInv

LEMMA SqlStep ==
  ASSUME OnlyTheEndEnds
  PROVE  BaseInv /\ SqlInv /\ [Next]_vars => SqlInv'
<1>0. SUFFICES ASSUME BaseInv, SqlInv, [Next]_vars PROVE SqlInv'
  OBVIOUS
<1> USE <1>0 DEF BaseInv
<1>a. ASSUME UNCHANGED <<kind, status, reports, batch, results>>, UNCHANGED sqlVars
      PROVE  SqlInv'
  <2>1. ASSUME NEW u \in Tx
        PROVE  (Begun(u)' <=> Begun(u)) /\ (\A o : Settled(u, o)' <=> Settled(u, o))
    BY <1>a, SamePlace
  <2>2. dirty \subseteq Tx /\ durable \subseteq Tx /\ lost \subseteq Tx
    BY DEF TypeOK, SqlTypeOK
  <2>3. UNCHANGED sqlOpen /\ UNCHANGED dirty /\ UNCHANGED durable /\ UNCHANGED lost
    BY <1>a DEF sqlVars
  <2>4. (sqlOpen <=> \E u \in Tx : Begun(u))' /\ (\A u \in dirty : Begun(u))'
    BY <2>1, <2>2, <2>3 DEF SqlInv
  <2>5. (\A u \in durable : status[u] # "new" /\ (Locked(kind[u]) => Settled(u, "success")))'
    BY <1>a, <2>1, <2>2, <2>3 DEF SqlInv
  <2>6. (\A u \in lost : Locked(kind[u]) /\ Settled(u, "error"))'
    BY <1>a, <2>1, <2>2, <2>3 DEF SqlInv
  <2> QED BY <2>4, <2>5, <2>6 DEF SqlInv
<1>b. ASSUME queue # << >> PROVE \E t \in Tx : t = Head(queue) /\ status[t] = "queued"
  BY <1>b DEF TypeOK, JsTypeOK, QueueInv
<1>1. CASE OpenError
  BY <1>1, SqlOpenError
<1>2. CASE StartTransaction
  <2>1. PICK t \in Tx : t = Head(queue)
    BY <1>2, <1>b DEF StartTransaction, CanStart
  <2> QED BY <1>2, <2>1, SqlStart
<1>3. CASE StartThrows
  <2>1. PICK t \in Tx : t = Head(queue) /\ status[t] = "queued"
    BY <1>3, <1>b DEF StartThrows, CanStart
  <2>2. Elsewhere(t)
    BY <1>3, <2>1, ElsewhereStart
  <2>3. /\ status'[t] = "done" /\ kind'[t] = kind[t] /\ UNCHANGED sqlVars
        /\ ~Holding(t)
    BY <1>3, <2>1 DEF StartThrows, Holding, TypeOK, TxTypeOK
  <2> QED BY <2>1, <2>2, <2>3, SqlWithoutLock
<1>4. CASE NativeClose
  BY <1>4, SqlClose
<1>5. ASSUME NEW t \in Tx, NEW k \in Kinds, AddTransaction(t, k) PROVE SqlInv'
  <2>1. /\ status[t] = "new" /\ status'[t] = "queued" /\ UNCHANGED sqlVars /\ ~Holding(t)
    BY <1>5 DEF AddTransaction, Holding, TypeOK, TxTypeOK
  <2> QED BY <1>5, <2>1, ElsewhereOutside, SqlWithoutLock
<1>6. ASSUME NEW t \in Tx, NEW k \in Kinds, RefuseTransaction(t, k) PROVE SqlInv'
  <2>1. /\ status[t] = "new" /\ status'[t] = "done" /\ UNCHANGED sqlVars /\ ~Holding(t)
    BY <1>6 DEF RefuseTransaction, Holding, TypeOK, TxTypeOK
  <2> QED BY <1>6, <2>1, ElsewhereOutside, SqlWithoutLock
<1>7. ASSUME NEW t \in Tx, ExecuteSql(t) \/ End(t) \/ AbortCall(t) PROVE SqlInv'
  BY <1>7, SqlOutside
<1>8. ASSUME NEW t \in Tx, DeliverResults(t) PROVE SqlInv'
  BY <1>8, SqlDeliverResults
<1>9. ASSUME NEW t \in Tx, DeliverEnd(t) PROVE SqlInv'
  BY <1>9, SqlDeliverEnd
<1>10. ASSUME NEW t \in Tx, DeliverLate(t) PROVE SqlInv'
  <2>1. Elsewhere(t)
    BY <1>10, ElsewhereDeliver DEF Deliver
  <2>2. UNCHANGED <<txVars, sqlVars>> /\ status[t] = "done"
    BY <1>10 DEF DeliverLate
  <2> QED BY <2>1, <2>2, SqlLate
<1>11. ASSUME NEW t \in Tx, NativeExecute(t) PROVE SqlInv'
  BY <1>11, SqlExecute
<1>12. CASE UNCHANGED <<kind, status, reports, batch, results>> /\ UNCHANGED sqlVars
  BY <1>12, <1>a
<1> QED
  BY <1>1, <1>2, <1>3, <1>4, <1>5, <1>6, <1>7, <1>8, <1>9, <1>10, <1>11, <1>12
  DEF Next, Tick, Deliver, vars, txVars, sentVars, Open, OpenSuccess, Close, DeleteDatabase,
      IdleTick, NativeOpen, NativeDrop

\* The SQL transaction and the writes in it follow the transaction object.
LEMMA SqlInvariant == ASSUME OnlyTheEndEnds PROVE Spec => []BaseInv /\ []SqlInv
<1>1. Init => WaitInv /\ OneOpen /\ CloseInv
  BY DEF Init, WaitInv, OneOpen, CloseInv
<1>2. Init => SqlInv
  BY DEF Init, SqlInv, Begun, Active, Holding
<1>3. AppWaits /\ MaxDeletes = 0 /\ NoAbortInProgress
  BY DEF OnlyTheEndEnds, NoAbortInProgress
<1>4. TypeOK /\ OneOpen /\ [Next]_vars => OneOpen'
  BY <1>3, OneOpenStep
<1>5. TypeOK /\ OneOpen /\ CloseInv /\ [Next]_vars => CloseInv'
  BY <1>3, CloseInvStep
<1>6. Spec => []Serialized
  BY <1>3, TransactionsSerialized
<1>7. BaseInv /\ SqlInv /\ [Next]_vars => SqlInv'
  BY SqlStep
<1>8. Spec => []BaseInv
  BY <1>1, <1>4, <1>5, <1>6, WaitStep, TypeCorrect, QueueCorrect, ReportInvariants,
     ScriptInvariant, SilentInvariant, PTL DEF Spec, BaseInv
<1> QED BY <1>2, <1>7, <1>8, PTL DEF Spec

-----------------------------------------------------------------------------
(* What the application can rely on. *)

\* NoHangingTransaction for every set of transactions: an SQL transaction is
\* open only while the object that began it has the lock.
THEOREM NothingHangs == ASSUME OnlyTheEndEnds PROVE Spec => []NoHangingTransaction
<1>1. SqlInv => NoHangingTransaction
  BY DEF SqlInv, Begun, Active, NoHangingTransaction
<1> QED BY <1>1, SqlInvariant, PTL

\* ErrorLeavesNothing: a transaction that ended and was not reported as
\* successful, silently aborted or not, has left nothing behind, committed or
\* about to be.
THEOREM FailedIsUndone == ASSUME OnlyTheEndEnds PROVE Spec => []ErrorLeavesNothing
<1>1. SqlInv => ErrorLeavesNothing
  BY DEF SqlInv, Settled, Telling, Begun, Active, Holding, Over, ErrorLeavesNothing
<1> QED BY <1>1, SqlInvariant, PTL

\* SuccessIsDurable: no write of a transaction that was reported as successful
\* is undecided, or was undone.
THEOREM SucceededIsCommitted == ASSUME OnlyTheEndEnds PROVE Spec => []SuccessIsDurable
<1>1. TypeOK /\ NothingToldYet /\ SqlInv => SuccessIsDurable
  <2> SUFFICES ASSUME TypeOK, NothingToldYet, SqlInv, NEW t \in Tx,
                      "success" \in Range(reports[t])
               PROVE  t \notin dirty \cup lost
    BY DEF SuccessIsDurable
  <2>1. reports[t] \in Seq({"success", "error"})
    BY DEF TypeOK, TxTypeOK
  <2>2. PICK i \in DOMAIN reports[t] : reports[t][i] = "success"
    BY DEF Range
  <2>3. reports[t] # << >>
    BY <2>2
  <2>4. ~Holding(t)
    BY <2>3 DEF NothingToldYet, Over, Holding
  <2>5. reports[t] # <<"error">>
    BY <2>2
  <2> QED BY <2>3, <2>4, <2>5 DEF SqlInv, Begun, Active, Settled, Telling
<1> QED BY <1>1, SqlInvariant, TypeCorrect, ReportInvariants, PTL

-----------------------------------------------------------------------------
(***************************************************************************)
(* The transaction engine implements SerialTransactions: every step, seen  *)
(* through the mapping of SQLitePluginRefinement, is a step of             *)
(* SerialTransactions or a stutter.                                        *)
(***************************************************************************)

Atomic == [t \in Tx |-> Locked(kind[t])]

\* What the step from one state to the next rests on.
SerialInv == BaseInv /\ SqlInv

\* A step of SerialTransactions, or none.
Simulated == [Serial!Next]_(Serial!vars)

-----------------------------------------------------------------------------
(* The steps of SerialTransactions, in terms of the mapping. *)

LEMMA SerialStutter ==
  ASSUME UNCHANGED <<queue, Holders, Atomic, Stage, dirty, durable, reports>>
  PROVE  Simulated
  BY DEF Simulated, Serial!vars, Atomic

LEMMA SerialSubmit ==
  ASSUME NEW t \in Tx, t \notin Range(queue), t \notin Holders, reports[t] = << >>,
         NEW a \in BOOLEAN, Atomic' = [Atomic EXCEPT ![t] = a],
         \/ queue' = Append(queue, t) /\ UNCHANGED reports
         \/ reports' = [reports EXCEPT ![t] = <<"error">>] /\ UNCHANGED queue,
         UNCHANGED <<Holders, Stage, dirty, durable>>
  PROVE  Simulated
<1>1. Serial!Submit(t)
  BY DEF Serial!Submit, Serial!Tell, Serial!Range, Range, Atomic
<1> QED BY <1>1 DEF Simulated, Serial!Next

LEMMA SerialStart ==
  ASSUME Holders = {}, queue # << >>, queue' = Tail(queue),
         \/ Holders' = {Head(queue)} /\ Stage' = "running" /\ UNCHANGED reports
         \/ /\ reports' = [reports EXCEPT ![Head(queue)] = <<"error">>]
            /\ UNCHANGED <<Holders, Stage>>,
         UNCHANGED <<Atomic, dirty, durable>>
  PROVE  Simulated
<1>1. Serial!Start
  BY DEF Serial!Start, Serial!Tell, Atomic
<1> QED BY <1>1 DEF Simulated, Serial!Next

LEMMA SerialDrop ==
  ASSUME Holders = {}, queue' = << >>, NEW silent \in SUBSET Range(queue),
         reports' = [t \in Tx |-> IF t \in Range(queue) \ silent THEN <<"error">> ELSE reports[t]],
         UNCHANGED <<Holders, Atomic, Stage, dirty, durable>>
  PROVE  Simulated
<1>1. Serial!Drop
  BY DEF Serial!Drop, Serial!Range, Range, Atomic
<1> QED BY <1>1 DEF Simulated, Serial!Next

LEMMA SerialWrite ==
  ASSUME NEW t \in Tx, t \in Holders, Stage = "running",
         IF Locked(kind[t]) THEN dirty' = dirty \cup {t} /\ UNCHANGED durable
                            ELSE durable' = durable \cup {t} /\ UNCHANGED dirty,
         UNCHANGED <<queue, Holders, Atomic, Stage, reports>>
  PROVE  Simulated
<1>1. Serial!Write(t)
  BY DEF Serial!Write, Atomic
<1> QED BY <1>1 DEF Simulated, Serial!Next

LEMMA SerialEnd ==
  ASSUME NEW t \in Tx, t \in Holders, Locked(kind[t]), Stage = "running", dirty' = {},
         \/ Stage' = "committed" /\ durable' = durable \cup dirty
         \/ Stage' = "undone" /\ UNCHANGED durable,
         UNCHANGED <<queue, Holders, Atomic, reports>>
  PROVE  Simulated
<1>1. Serial!Commit(t) \/ Serial!Undo(t)
  BY DEF Serial!Commit, Serial!Undo, Atomic
<1> QED BY <1>1 DEF Simulated, Serial!Next

LEMMA SerialSettle ==
  ASSUME NEW t \in Tx, t \in Holders, NEW o \in {"success", "error"},
         Locked(kind[t]) => Stage = (IF o = "success" THEN "committed" ELSE "undone"),
         Holders' = {}, Stage' = "running",
         \/ reports' = [reports EXCEPT ![t] = <<o>>]
         \/ Locked(kind[t]) /\ o = "error" /\ UNCHANGED reports,
         UNCHANGED <<queue, Atomic, dirty, durable>>
  PROVE  Simulated
<1>1. Serial!Settle(t, o)
  BY DEF Serial!Settle, Serial!Tell, Atomic
<1> QED BY <1>1 DEF Simulated, Serial!Next, Serial!Outcome

-----------------------------------------------------------------------------
(* What the steps keep of the mapping. *)

\* The stage is that of the transaction that has the lock.
LEMMA StageValue ==
  /\ Holders = {} => Stage = "running"
  /\ \A t \in Tx : Serialized /\ Holding(t) =>
       /\ Holders = {t}
       /\ Stage = IF EndExecuted(t) THEN IF Committed(t) THEN "committed" ELSE "undone"
                  ELSE "running"
<1>1. Holders = {} => Stage = "running"
  BY DEF Stage
<1>2. ASSUME NEW t \in Tx, Serialized, Holding(t)
      PROVE  /\ Holders = {t}
             /\ Stage = IF EndExecuted(t) THEN IF Committed(t) THEN "committed" ELSE "undone"
                        ELSE "running"
  <2>1. Holders = {t}
    BY <1>2 DEF Holders, Serialized, OneAtATime
  <2> QED BY <2>1 DEF Stage
<1> QED BY <1>1, <1>2

LEMMA StageValueNext ==
  /\ Holders' = {} => Stage' = "running"
  /\ \A t \in Tx : Serialized' /\ Holding(t)' =>
       /\ Holders' = {t}
       /\ Stage' = IF EndExecuted(t)' THEN IF Committed(t)' THEN "committed" ELSE "undone"
                   ELSE "running"
<1>1. (Holders = {} => Stage = "running")'
  BY StageValue, PTL
<1>2. (\A t \in Tx : Serialized /\ Holding(t) =>
       /\ Holders = {t}
       /\ Stage = IF EndExecuted(t) THEN IF Committed(t) THEN "committed" ELSE "undone"
                  ELSE "running")'
  BY StageValue, PTL
<1> QED BY <1>1, <1>2

LEMMA StageSame ==
  ASSUME \A u \in Tx : /\ Holding(u)' <=> Holding(u)
                       /\ EndExecuted(u)' <=> EndExecuted(u)
                       /\ EndExecuted(u) => (Committed(u)' <=> Committed(u))
  PROVE  UNCHANGED <<Holders, Stage>>
<1>1. Holders' = Holders
  BY DEF Holders
<1>2. /\ (\E u \in Holders' : EndExecuted(u)') <=> \E u \in Holders : EndExecuted(u)
      /\ (\E u \in Holders' : EndExecuted(u)' /\ Committed(u)')
           <=> \E u \in Holders : EndExecuted(u) /\ Committed(u)
  BY <1>1 DEF Holders
<1> QED BY <1>1, <1>2 DEF Stage

\* Fields that stay the same leave a transaction where it is.
LEMMA StageOfSame ==
  ASSUME NEW u \in Tx, status'[u] = status[u], batch'[u] = batch[u], results'[u] = results[u]
  PROVE  /\ Holding(u)' <=> Holding(u)
         /\ EndExecuted(u)' <=> EndExecuted(u)
         /\ Committed(u)' <=> Committed(u)
  BY DEF Holding, EndExecuted, Committed, Failed

\* A step of a transaction that stays where it is, and whose end is not
\* executed yet, if it has been sent.
LEMMA StageOne ==
  ASSUME NEW t \in Tx, Elsewhere(t), Holding(t)' <=> Holding(t), ~EndExecuted(t), ~EndExecuted(t)'
  PROVE  UNCHANGED <<Holders, Stage>>
<1>1. ASSUME NEW u \in Tx \ {t}
      PROVE  /\ Holding(u)' <=> Holding(u)
             /\ EndExecuted(u)' <=> EndExecuted(u)
             /\ Committed(u)' <=> Committed(u)
  BY StageOfSame DEF Elsewhere
<1> QED BY <1>1, StageSame

LEMMA AtomicSame == ASSUME UNCHANGED kind PROVE UNCHANGED Atomic
  BY DEF Atomic

LEMMA NothingHeld ==
  ASSUME SerialInv, ~inProgress PROVE Holders = {} /\ Stage = "running"
<1>1. Holders = {}
  BY DEF SerialInv, BaseInv, Serialized, Holders
<1> QED BY <1>1, StageValue

\* Telling it is telling the first thing.
LEMMA Told ==
  ASSUME SerialInv, NEW t \in Tx, status[t] \notin {"done", "dropped"},
         NEW o, reports' = [reports EXCEPT ![t] = Append(@, o)]
  PROVE  reports' = [reports EXCEPT ![t] = <<o>>]
<1>1. reports[t] = << >>
  BY DEF SerialInv, BaseInv, NothingToldYet, Over
<1>2. Append(<< >>, o) = <<o>>
  OBVIOUS
<1> QED BY <1>1, <1>2

-----------------------------------------------------------------------------
(* Every step is a step of SerialTransactions or a stutter. *)

LEMMA OpenErrorSimulated ==
  ASSUME SerialInv, SerialInv', OpenError
  PROVE  Simulated
<1> USE DEF SerialInv, BaseInv
<1>1. ~inProgress
  BY DEF OpenError, OneOpen
<1>2. ~inProgress'
  BY <1>1 DEF OpenError
<1>3. Holders = {} /\ Stage = "running"
  BY <1>1, NothingHeld
<1>4. Holders' = {} /\ Stage' = "running"
  <2>1. Holders' = {}
    BY <1>2 DEF Serialized, Holders
  <2> QED BY <2>1, StageValueNext
<1> DEFINE silent == {t \in Range(queue) : ~HasCallback(t)}
<1>5. ASSUME NEW t \in Tx, t \in Range(queue) PROVE Append(reports[t], "error") = <<"error">>
  <2>1. status[t] = "queued"
    BY <1>5 DEF QueueInv, Range, TypeOK, JsTypeOK
  <2>2. reports[t] = << >>
    BY <2>1 DEF NothingToldYet, Over
  <2> QED BY <2>2
<1>6. reports' = [t \in Tx |-> IF t \in Range(queue) \ silent THEN <<"error">> ELSE reports[t]]
  BY <1>5 DEF OpenError
<1>7. UNCHANGED <<Atomic, dirty, durable>> /\ queue' = << >>
  BY AtomicSame DEF OpenError, sqlVars
<1>8. silent \in SUBSET Range(queue)
  OBVIOUS
<1> HIDE DEF silent
<1> QED BY <1>3, <1>4, <1>6, <1>7, <1>8, SerialDrop

LEMMA CreateSimulated ==
  ASSUME SerialInv, NEW t \in Tx, NEW k \in Kinds,
         AddTransaction(t, k) \/ RefuseTransaction(t, k)
  PROVE  Simulated
<1> USE DEF SerialInv, BaseInv
<1>1. /\ status[t] = "new" /\ kind' = [kind EXCEPT ![t] = k] /\ Elsewhere(t)
      /\ status'[t] \in {"queued", "done"} /\ UNCHANGED sqlVars
  BY ElsewhereOutside DEF AddTransaction, RefuseTransaction, TypeOK, TxTypeOK
<1>2. t \notin Range(queue) /\ t \notin Holders /\ reports[t] = << >>
  <2>1. t \notin Range(queue)
    BY <1>1 DEF QueueInv, Range, TypeOK, JsTypeOK
  <2> QED BY <1>1, <2>1 DEF Holders, Holding, NothingToldYet, Over
<1>3. UNCHANGED <<Holders, Stage>>
  BY <1>1, StageOne DEF Holding, EndExecuted
<1>4. Atomic' = [Atomic EXCEPT ![t] = Locked(k)] /\ Locked(k) \in BOOLEAN
  <2>1. ASSUME NEW u \in Tx PROVE Locked(kind'[u]) = IF u = t THEN Locked(k) ELSE Atomic[u]
    <3>1. kind'[u] = IF u = t THEN k ELSE kind[u]
      BY <1>1 DEF TypeOK, TxTypeOK
    <3> QED BY <3>1 DEF Atomic
  <2>2. Atomic' = [u \in Tx |-> IF u = t THEN Locked(k) ELSE Atomic[u]]
    BY <2>1 DEF Atomic
  <2>3. [Atomic EXCEPT ![t] = Locked(k)] = [u \in Tx |-> IF u = t THEN Locked(k) ELSE Atomic[u]]
    BY DEF Atomic
  <2>4. Locked(k) \in BOOLEAN
    BY DEF Locked
  <2> QED BY <2>2, <2>3, <2>4
<1>5. UNCHANGED <<dirty, durable>>
  BY <1>1 DEF sqlVars
<1>6. \/ queue' = Append(queue, t) /\ UNCHANGED reports
      \/ reports' = [reports EXCEPT ![t] = <<"error">>] /\ UNCHANGED queue
  <2>1. CASE AddTransaction(t, k)
    BY <2>1 DEF AddTransaction
  <2>2. CASE RefuseTransaction(t, k)
    BY <1>1, <2>2, Told DEF RefuseTransaction, jsVars
  <2> QED BY <2>1, <2>2
<1> QED BY <1>2, <1>3, <1>4, <1>5, <1>6, SerialSubmit

LEMMA StartSimulated ==
  ASSUME SerialInv, SerialInv', StartTransaction \/ StartThrows
  PROVE  Simulated
<1> USE DEF SerialInv, BaseInv
<1>1. /\ queue # << >> /\ ~inProgress /\ queue' = Tail(queue)
      /\ UNCHANGED kind /\ UNCHANGED sqlVars
  BY DEF StartTransaction, StartThrows, CanStart
<1>2. Holders = {} /\ Stage = "running"
  BY <1>1, NothingHeld
<1>3. PICK t \in Tx : t = Head(queue) /\ status[t] = "queued"
  BY <1>1 DEF QueueInv, TypeOK, JsTypeOK
<1>4. UNCHANGED <<Atomic, dirty, durable>>
  BY <1>1, AtomicSame DEF sqlVars
<1>5. CASE StartTransaction
  <2>1. status'[t] = "running" /\ UNCHANGED reports
    BY <1>3, <1>5 DEF StartTransaction, TypeOK, TxTypeOK
  <2>2. Holding(t)' /\ ~EndExecuted(t)'
    BY <2>1 DEF Holding, EndExecuted
  <2>3. Holders' = {t} /\ Stage' = "running"
    BY <2>2, StageValueNext
  <2> QED BY <1>1, <1>2, <1>3, <1>4, <2>1, <2>3, SerialStart
<1>6. CASE StartThrows
  <2>1. reports' = [reports EXCEPT ![t] = Append(@, "error")] /\ ~inProgress'
    BY <1>3, <1>6 DEF StartThrows
  <2>2. reports' = [reports EXCEPT ![t] = <<"error">>]
    BY <1>3, <2>1, Told
  <2>3. Holders' = {}
    BY <2>1 DEF Serialized, Holders
  <2>4. UNCHANGED <<Holders, Stage>>
    BY <1>2, <2>3, StageValueNext
  <2> QED BY <1>1, <1>2, <1>3, <1>4, <2>2, <2>4, SerialStart
<1> QED BY <1>5, <1>6

LEMMA OutsideSimulated ==
  ASSUME SerialInv, NEW t \in Tx, ExecuteSql(t) \/ End(t) \/ AbortCall(t)
  PROVE  Simulated
<1> USE DEF SerialInv, BaseInv
<1>1. UNCHANGED <<queue, kind, reports, dirty, durable>> /\ Elsewhere(t)
  BY ElsewhereOutside DEF ExecuteSql, End, AbortCall, jsVars, sqlVars
<1>2. \/ UNCHANGED <<status, batch, results>>
      \/ isPaused[t] /\ status[t] # "ending" /\ UNCHANGED status
      \/ /\ status[t] = "running" /\ status'[t] = "ending"
         /\ batch'[t] = <<"COMMIT">> /\ results'[t] = << >>
  <2>1. isPaused[t] => status[t] # "ending"
    BY DEF WaitInv
  <2>2. CASE ExecuteSql(t) \/ AbortCall(t)
    BY <2>1, <2>2 DEF ExecuteSql, AbortCall
  <2>3. CASE End(t)
    <3>1. CASE isPaused[t] /\ status[t] = "running"
      BY <2>3, <3>1 DEF End, SendBatch, TypeOK, TxTypeOK, SentTypeOK
    <3>2. CASE ~(isPaused[t] /\ status[t] = "running")
      BY <2>3, <3>2 DEF End
    <3> QED BY <3>1, <3>2
  <2> QED BY <2>2, <2>3
<1>3. UNCHANGED <<Holders, Stage>>
  <2>1. CASE UNCHANGED <<status, batch, results>>
    BY <2>1, StageOfSame, StageSame
  <2>2. CASE isPaused[t] /\ status[t] # "ending" /\ UNCHANGED status
    BY <1>1, <2>2, StageOne DEF Holding, EndExecuted
  <2>3. CASE /\ status[t] = "running" /\ status'[t] = "ending"
             /\ batch'[t] = <<"COMMIT">> /\ results'[t] = << >>
    <3>1. Len(batch'[t]) = 1 /\ Len(results'[t]) = 0
      BY <2>3
    <3>2. ~EndExecuted(t) /\ Holding(t)
      BY <2>3 DEF Holding, EndExecuted
    <3>3. ~EndExecuted(t)' /\ Holding(t)'
      BY <2>3, <3>1 DEF Holding, EndExecuted
    <3> QED BY <1>1, <3>2, <3>3, StageOne
  <2> QED BY <1>2, <2>1, <2>2, <2>3
<1> QED BY <1>1, <1>3, AtomicSame, SerialStutter

\* The holder gives the lock up, and is told what its stage says.
LEMMA ReleaseSimulated ==
  ASSUME SerialInv, SerialInv', NEW t \in Tx, Holding(t), NEW o \in {"success", "error"},
         Release(t, o), UNCHANGED <<queue, kind>>, UNCHANGED sqlVars,
         Locked(kind[t]) => Stage = (IF o = "success" THEN "committed" ELSE "undone"),
         Locked(kind[t]) /\ canPause[t] => o = "error"
  PROVE  Simulated
<1> USE DEF SerialInv, BaseInv
<1>1. Holders = {t}
  BY StageValue
<1>2. Holders' = {} /\ Stage' = "running"
  <2>1. ~inProgress'
    BY DEF Release
  <2>2. Holders' = {}
    BY <2>1 DEF Serialized, Holders
  <2> QED BY <2>2, StageValueNext
<1>3. PICK r \in {"success", "error"} :
        /\ \/ reports' = [reports EXCEPT ![t] = Append(@, r)]
           \/ Locked(kind[t]) /\ r = "error" /\ reports' = [reports EXCEPT ![t] = @]
        /\ Locked(kind[t]) => r = o
  <2>1. CASE kind[t] = "executeSql"
    <3>1. ~Locked(kind[t])
      BY <2>1 DEF Locked
    <3>2. PICK r \in {"success", "error"} : Report(t, o) = Append(reports[t], r)
      BY <2>1 DEF Report
    <3> QED BY <3>1, <3>2 DEF Release
  <2>2. CASE HasCallback(t)
    BY <2>2 DEF Release, Report, HasCallback
  <2>3. CASE kind[t] # "executeSql" /\ ~HasCallback(t)
    <3>1. canPause[t] /\ Locked(kind[t])
      BY <2>3 DEF HasCallback, CallbackInv, Locked
    <3>2. Report(t, o) = reports[t]
      BY <2>3 DEF Report
    <3> QED BY <3>1, <3>2 DEF Release
  <2> QED BY <2>1, <2>2, <2>3
<1>4. \/ reports' = [reports EXCEPT ![t] = <<r>>]
      \/ Locked(kind[t]) /\ r = "error" /\ UNCHANGED reports
  <2>1. [reports EXCEPT ![t] = @] = reports
    BY DEF TypeOK, TxTypeOK
  <2> QED BY <1>3, <2>1, Told DEF Holding
<1>5. UNCHANGED <<Atomic, dirty, durable>>
  BY AtomicSame DEF sqlVars
<1>6. Locked(kind[t]) => Stage = (IF r = "success" THEN "committed" ELSE "undone")
  BY <1>3
<1> QED BY <1>1, <1>2, <1>4, <1>5, <1>6, SerialSettle

\* A running transaction that keeps the lock behind a batch.
LEMMA DeliverResultsSimulated ==
  ASSUME SerialInv, SerialInv', NEW t \in Tx, DeliverResults(t)
  PROVE  Simulated
<1> USE DEF SerialInv, BaseInv
<1>1. /\ status[t] = "running" /\ UNCHANGED <<queue, kind>> /\ UNCHANGED sqlVars
      /\ Elsewhere(t) /\ Holding(t)
  BY ElsewhereDeliver DEF DeliverResults, Deliver, Holding
<1>2. PICK throws \in Throws(t), n \in MoreStatements(t) :
        Continue(t, throws, executes[t] \o Users(n), n)
  BY DEF DeliverResults
<1> DEFINE ex == executes[t] \o Users(n)
<1>3. \/ ~Locked(kind[t]) /\ (Release(t, "error") \/ Release(t, "success"))
      \/ UNCHANGED <<status, reports>>
      \/ /\ status' = [status EXCEPT ![t] = "ending"]
         /\ results' = [results EXCEPT ![t] = << >>]
         /\ UNCHANGED reports
  <2> HIDE DEF ex
  <2>1. \/ Abort(t, ex) \/ Finish(t) \/ UNCHANGED <<status, reports>>
    BY <1>2 DEF Continue, ex
  <2> QED BY <2>1 DEF Abort, Finish, SendBatch
<1>4. CASE ~Locked(kind[t]) /\ (Release(t, "error") \/ Release(t, "success"))
  BY <1>1, <1>4, ReleaseSimulated
<1>5. ASSUME UNCHANGED reports, UNCHANGED <<Holders, Stage>> PROVE Simulated
  BY <1>1, <1>5, AtomicSame, SerialStutter DEF sqlVars
<1>6. ~EndExecuted(t)
  BY <1>1 DEF EndExecuted
<1>7. CASE UNCHANGED <<status, reports>>
  <2>1. Holding(t)' /\ ~EndExecuted(t)'
    BY <1>1, <1>7 DEF Holding, EndExecuted
  <2> QED BY <1>1, <1>5, <1>6, <1>7, <2>1, StageOne
<1>8. CASE /\ status' = [status EXCEPT ![t] = "ending"]
           /\ results' = [results EXCEPT ![t] = << >>]
           /\ UNCHANGED reports
  <2>1. status'[t] = "ending" /\ Len(results'[t]) = 0
    BY <1>8 DEF TypeOK, TxTypeOK, SentTypeOK
  <2>2. batch'[t] \in Seq(Statement) /\ batch'[t] # << >>
    BY <2>1 DEF TypeOK, SentTypeOK, WaitInv
  <2>3. Len(batch'[t]) # 0
    BY <2>2, EmptySeq
  <2>4. Holding(t)' /\ ~EndExecuted(t)'
    BY <2>1, <2>3 DEF Holding, EndExecuted
  <2> QED BY <1>1, <1>5, <1>6, <1>8, <2>4, StageOne
<1> QED BY <1>3, <1>4, <1>7, <1>8

\* The answer to the last batch: the stage says what happened to it.
LEMMA DeliverEndSimulated ==
  ASSUME SerialInv, SerialInv', NEW t \in Tx, DeliverEnd(t)
  PROVE  Simulated
<1> USE DEF SerialInv, BaseInv
<1>1. /\ status[t] = "ending" /\ Len(results[t]) = Len(batch[t])
      /\ UNCHANGED <<queue, kind>> /\ UNCHANGED sqlVars /\ Release(t, EndOutcome(t))
  BY DEF DeliverEnd, Answered
<1>2. Holding(t) /\ EndExecuted(t)
  BY <1>1 DEF Holding, EndExecuted
<1>3. Stage = IF EndOutcome(t) = "success" THEN "committed" ELSE "undone"
  BY <1>2, StageValue DEF EndOutcome, Committed
<1>4. EndOutcome(t) \in {"success", "error"}
  BY DEF EndOutcome
<1>5. canPause[t] => EndOutcome(t) = "error"
  BY <1>1 DEF SilentInv, EndOutcome
<1> QED BY <1>1, <1>2, <1>3, <1>4, <1>5, ReleaseSimulated

\* A transaction that is done keeps nothing of what SerialTransactions sees.
LEMMA DeliverLateSimulated ==
  ASSUME SerialInv, NEW t \in Tx, DeliverLate(t)
  PROVE  Simulated
<1>1. /\ status[t] = "done" /\ Elsewhere(t) /\ UNCHANGED <<jsVars, txVars, sqlVars>>
  BY ElsewhereDeliver DEF DeliverLate, Deliver, SerialInv, BaseInv
<1>2. ~Holding(t) /\ ~EndExecuted(t) /\ ~Holding(t)' /\ ~EndExecuted(t)'
  BY <1>1 DEF Holding, EndExecuted, txVars
<1> QED BY <1>1, <1>2, StageOne, AtomicSame, SerialStutter DEF jsVars, txVars, sqlVars

-----------------------------------------------------------------------------
(* The connection executes a statement. *)

\* What every such step leaves alone.
LEMMA ExecuteFrame ==
  ASSUME SerialInv, NEW t \in Tx, NativeExecute(t)
  PROVE  /\ Elsewhere(t) /\ UNCHANGED <<queue, kind, status, reports, batch>>
         /\ UNCHANGED Atomic
         /\ Holding(t)' <=> Holding(t)
         /\ Len(results[t]) < Len(batch[t]) /\ ~EndExecuted(t)
         /\ Len(results[t]) \in Nat /\ Len(batch[t]) \in Nat
<1> USE DEF SerialInv, BaseInv
<1>1. /\ Elsewhere(t) /\ UNCHANGED <<queue, kind, status, reports, batch>>
      /\ Len(results[t]) < Len(batch[t])
  BY ElsewhereNative DEF NativeExecute, jsVars, txVars
<1>2. Len(results[t]) \in Nat /\ Len(batch[t]) \in Nat
  BY DEF TypeOK, SentTypeOK
<1>3. ~EndExecuted(t)
  BY <1>1, <1>2 DEF EndExecuted
<1> QED BY <1>1, <1>2, <1>3, AtomicSame DEF Holding

\* A statement that leaves the transaction running writes or does not.
LEMMA RunningExecuteSimulated ==
  ASSUME SerialInv, NEW t \in Tx, NativeExecute(t), ~EndExecuted(t)',
         \/ UNCHANGED <<dirty, durable>>
         \/ /\ Holding(t)
            /\ IF Locked(kind[t]) THEN dirty' = dirty \cup {t} /\ UNCHANGED durable
                                  ELSE durable' = durable \cup {t} /\ UNCHANGED dirty
  PROVE  Simulated
<1>1. /\ Elsewhere(t) /\ UNCHANGED <<queue, kind, status, reports, batch>>
      /\ UNCHANGED Atomic /\ (Holding(t)' <=> Holding(t)) /\ ~EndExecuted(t)
  BY ExecuteFrame
<1>2. UNCHANGED <<Holders, Stage>>
  BY <1>1, StageOne
<1>3. CASE UNCHANGED <<dirty, durable>>
  BY <1>1, <1>2, <1>3, SerialStutter
<1>4. CASE /\ Holding(t)
           /\ IF Locked(kind[t]) THEN dirty' = dirty \cup {t} /\ UNCHANGED durable
                                 ELSE durable' = durable \cup {t} /\ UNCHANGED dirty
  <2>1. Stage = "running" /\ t \in Holders
    BY <1>1, <1>4, StageValue DEF SerialInv, BaseInv
  <2> QED BY <1>1, <1>2, <1>4, <2>1, SerialWrite
<1> QED BY <1>3, <1>4

\* COMMIT or ROLLBACK decides.
LEMMA EndExecuteSimulated ==
  ASSUME SerialInv, SerialInv', NEW t \in Tx, Active(t), NativeExecute(t), EndExecuted(t)',
         dirty' = {},
         IF EndOutcome(t)' = "success" THEN durable' = durable \cup dirty ELSE UNCHANGED durable
  PROVE  Simulated
<1>1. /\ UNCHANGED <<queue, kind, status, reports, batch>> /\ UNCHANGED Atomic
      /\ Holding(t)' /\ Holding(t) /\ ~EndExecuted(t) /\ Locked(kind[t])
  BY ExecuteFrame DEF Active
<1>2. Holders = {t} /\ Stage = "running"
  BY <1>1, StageValue DEF SerialInv, BaseInv
<1>3. Holders' = {t} /\ Stage' = IF Committed(t)' THEN "committed" ELSE "undone"
  BY <1>1, StageValueNext DEF SerialInv, BaseInv
<1>4. Committed(t)' <=> EndOutcome(t)' = "success"
  BY DEF Committed, EndOutcome
<1> QED BY <1>1, <1>2, <1>3, <1>4, SerialEnd

LEMMA ActiveExecuteSimulated ==
  ASSUME OnlyTheEndEnds, SerialInv, SerialInv', NEW t \in Tx, Active(t), NativeExecute(t)
  PROVE  Simulated
<1> USE DEF SerialInv, BaseInv
<1> DEFINE n == Len(results[t])
           s == batch[t][n + 1]
<1>1. PICK r \in {"ok", "error"} : /\ Execute(t, s, r)
                                   /\ results' = [results EXCEPT ![t] = Append(@, r)]
  BY DEF NativeExecute
<1>2. /\ n \in Nat /\ Len(batch[t]) \in Nat /\ n < Len(batch[t]) /\ UNCHANGED <<status, batch>>
      /\ Holding(t) /\ Locked(kind[t])
  BY ExecuteFrame DEF Active
<1>3. Len(results'[t]) = n + 1 /\ results'[t][n + 1] = r
  BY <1>1, OneResult
<1> HIDE DEF n, s
<1>4. CASE Unbegun(t)
  <2>1. status[t] = "running" /\ s \in {"BEGIN", "SELECT 1"}
    BY <1>4, NextBegins DEF s, n
  <2>2. ~EndExecuted(t)' /\ UNCHANGED <<dirty, durable>>
    BY <1>1, <1>2, <2>1 DEF EndExecuted, Execute, sqlVars
  <2> QED BY <2>2, RunningExecuteSimulated
<1>5. CASE ~Unbegun(t)
  <2>1. \/ s \in Inner /\ (status[t] = "ending" => n + 1 # Len(batch[t]))
        \/ /\ s \in {"COMMIT", "ROLLBACK"}
           /\ status[t] = "ending" /\ n + 1 = Len(batch[t]) /\ WellEnded(batch[t])
    BY <1>2, <1>5, NextInner DEF s, n
  <2>2. Begun(t)
    BY <1>2, <1>5 DEF Begun, Ended, n
  <2>3. sqlOpen
    BY <2>2 DEF SqlInv
  <2>4. CASE s \in Inner /\ (status[t] = "ending" => n + 1 # Len(batch[t]))
    <3>1. ~EndExecuted(t)'
      BY <1>2, <1>3, <2>4 DEF EndExecuted
    <3>2. UNCHANGED durable /\ (dirty' = dirty \/ dirty' = dirty \cup {t})
      BY <1>1, <2>3, <2>4 DEF Execute, sqlVars, Inner, Invalid, OnlyTheEndEnds
    <3> QED BY <1>2, <3>1, <3>2, RunningExecuteSimulated
  <2>5. CASE /\ s \in {"COMMIT", "ROLLBACK"}
             /\ status[t] = "ending" /\ n + 1 = Len(batch[t]) /\ WellEnded(batch[t])
    <3>1. EndExecuted(t)'
      BY <1>2, <1>3, <2>5 DEF EndExecuted
    <3>2. EndOutcome(t)' = IF s = "COMMIT" /\ r = "ok" THEN "success" ELSE "error"
      BY <1>2, <1>3, <2>5, OutcomeOfEnd DEF s
    <3>3. CASE s = "COMMIT" /\ r = "ok"
      <4>1. dirty' = {} /\ durable' = durable \cup dirty
        BY <1>1, <2>3, <3>3 DEF Execute
      <4> QED BY <3>1, <3>2, <3>3, <4>1, EndExecuteSimulated
    <3>4. CASE ~(s = "COMMIT" /\ r = "ok")
      <4>1. Undo
        BY <1>1, <2>3, <2>5, <3>4 DEF Execute, OnlyTheEndEnds
      <4>2. dirty' = {} /\ UNCHANGED durable
        BY <4>1 DEF Undo
      <4> QED BY <3>1, <3>2, <3>4, <4>2, EndExecuteSimulated
    <3> QED BY <3>3, <3>4
  <2> QED BY <2>1, <2>4, <2>5
<1> QED BY <1>4, <1>5

LEMMA ExecuteSimulated ==
  ASSUME OnlyTheEndEnds, SerialInv, SerialInv', NEW t \in Tx, NativeExecute(t)
  PROVE  Simulated
<1> USE DEF SerialInv, BaseInv
<1> DEFINE s == batch[t][Len(results[t]) + 1]
<1>1. PICK r \in {"ok", "error"} : Execute(t, s, r)
  BY DEF NativeExecute
<1>2. /\ UNCHANGED <<status, batch>> /\ Script(t)
      /\ batch[t] \in Seq(Statement) /\ batch[t] # << >>
      /\ Len(results[t]) + 1 \in 1..Len(batch[t])
  <2>1. /\ UNCHANGED <<status, batch>> /\ Script(t)
        /\ Len(results[t]) < Len(batch[t]) /\ Len(results[t]) \in Nat /\ Len(batch[t]) \in Nat
    BY ExecuteFrame DEF ScriptInv
  <2>2. batch[t] \in Seq(Statement)
    BY DEF TypeOK, SentTypeOK
  <2> QED BY <2>1, <2>2
<1>3. CASE Active(t)
  BY <1>3, ActiveExecuteSimulated
<1>4. CASE Holding(t) /\ ~Locked(kind[t])
  <2>1. batch[t] \in Seq(Plain) /\ status[t] = "running"
    BY <1>2, <1>4 DEF Script, PlainScript, Holding
  <2>2. s \in Plain
    BY <1>2, <2>1
  <2> HIDE DEF s
  <2>3. ~sqlOpen
    BY <1>4, OneBegun DEF SqlInv, Begun, Active
  <2>4. UNCHANGED <<dirty, durable>> \/ (durable' = durable \cup {t} /\ UNCHANGED dirty)
    BY <1>1, <2>2, <2>3 DEF Execute, sqlVars, Plain, Inner, Invalid
  <2>5. ~EndExecuted(t)'
    BY <1>2, <2>1 DEF EndExecuted
  <2> QED BY <1>4, <2>4, <2>5, RunningExecuteSimulated
<1>5. CASE ~Holding(t)
  <2>1. status[t] = "done"
    BY <1>2, <1>5 DEF WaitInv, Holding, TypeOK, TxTypeOK, Statuses
  <2>2. batch[t] \in Seq(Invalid)
    BY <1>2, <2>1 DEF Script, AtomicScript, PlainScript
  <2>3. s \in Invalid
    BY <1>2, <2>2
  <2> HIDE DEF s
  <2>4. UNCHANGED <<dirty, durable>>
    BY <1>1, <2>3 DEF Execute, sqlVars, Invalid
  <2>5. ~EndExecuted(t)'
    BY <1>2, <2>1 DEF EndExecuted
  <2> QED BY <2>4, <2>5, RunningExecuteSimulated
<1> QED BY <1>3, <1>4, <1>5 DEF Active

-----------------------------------------------------------------------------
(* All together. *)

\* Opening and closing are not seen.
LEMMA UnseenSimulated ==
  ASSUME SerialInv,
         \/ Open \/ OpenSuccess \/ Close \/ DeleteDatabase \/ IdleTick \/ NativeOpen \/ NativeClose
         \/ (\E t \in Tx : NativeDrop(t)) \/ UNCHANGED vars
  PROVE  Simulated
<1> USE DEF SerialInv, BaseInv
<1>1. UNCHANGED <<queue, txVars, batch, results>>
  BY DEF Open, OpenSuccess, Close, DeleteDatabase, IdleTick, NativeOpen, NativeClose, NativeDrop,
         vars, jsVars, sentVars
<1>2. UNCHANGED <<dirty, durable>>
  <2>1. CASE NativeClose
    <3>1. ~inProgress
      BY <2>1 DEF NativeClose, CloseInv, OneOpen, TypeOK, CallTypeOK
    <3>2. dirty = {}
      BY <3>1 DEF Serialized, SqlInv, Begun, Active, TypeOK, SqlTypeOK
    <3> QED BY <2>1, <3>2 DEF NativeClose, Undo
  <2>2. CASE ~NativeClose
    BY <2>2 DEF Open, OpenSuccess, Close, DeleteDatabase, IdleTick, NativeOpen, NativeDrop,
         vars, sqlVars
  <2> QED BY <2>1, <2>2
<1>3. UNCHANGED <<Holders, Stage>>
  BY <1>1, StageOfSame, StageSame DEF txVars
<1> QED BY <1>1, <1>2, <1>3, AtomicSame, SerialStutter DEF txVars

LEMMA StepSimulated ==
  ASSUME OnlyTheEndEnds
  PROVE  SerialInv /\ SerialInv' /\ [Next]_vars => Simulated
<1>0. SUFFICES ASSUME SerialInv, SerialInv', [Next]_vars PROVE Simulated
  OBVIOUS
<1> USE <1>0
<1>1. CASE Open \/ OpenSuccess \/ Close \/ DeleteDatabase \/ NativeOpen \/ NativeClose
           \/ UNCHANGED vars
  BY <1>1, UnseenSimulated
<1>2. CASE OpenError
  BY <1>2, OpenErrorSimulated
<1>3. CASE Tick
  BY <1>3, UnseenSimulated, StartSimulated DEF Tick
<1>4. ASSUME NEW t \in Tx,
             \/ \E k \in Kinds : AddTransaction(t, k) \/ RefuseTransaction(t, k)
             \/ ExecuteSql(t) \/ End(t) \/ AbortCall(t)
             \/ Deliver(t)
             \/ NativeDrop(t) \/ NativeExecute(t)
      PROVE  Simulated
  <2>1. ASSUME NEW k \in Kinds, AddTransaction(t, k) \/ RefuseTransaction(t, k) PROVE Simulated
    BY <2>1, CreateSimulated
  <2>2. CASE ExecuteSql(t) \/ End(t) \/ AbortCall(t)
    BY <2>2, OutsideSimulated
  <2>3. CASE Deliver(t)
    BY <2>3, DeliverResultsSimulated, DeliverEndSimulated, DeliverLateSimulated DEF Deliver
  <2>4. CASE NativeDrop(t)
    BY <2>4, UnseenSimulated
  <2>5. CASE NativeExecute(t)
    BY <2>5, ExecuteSimulated
  <2> QED BY <1>4, <2>1, <2>2, <2>3, <2>4, <2>5
<1> QED BY <1>1, <1>2, <1>3, <1>4 DEF Next

LEMMA InitSimulated == Init => Serial!Init
<1> SUFFICES ASSUME Init PROVE Serial!Init
  OBVIOUS
<1>1. Holders = {}
  BY DEF Init, Holders, Holding
<1>2. Stage = "running"
  BY <1>1, StageValue
<1>3. Atomic = [t \in Tx |-> FALSE]
  <2>1. ASSUME NEW t \in Tx PROVE Locked(kind[t]) = FALSE
    <3>1. kind[t] = "none"
      BY DEF Init
    <3> QED BY <3>1 DEF Locked
  <2> QED BY <2>1 DEF Atomic
<1> QED BY <1>1, <1>2, <1>3 DEF Init, Serial!Init, Atomic

\* The promise of SerialTransactions for every set of transactions and any
\* bounds: transactions run one at a time in the order they were asked for,
\* the writes of an atomic one become durable together or not at all, and what
\* the application is told, once, is which of the two it was.
THEOREM TransactionsAreSerial ==
  ASSUME OnlyTheEndEnds
  PROVE  Spec => ImplementsSerialTransactions
<1>1. Spec => []SerialInv
  BY SqlInvariant, PTL DEF SerialInv
<1>2. Init => Serial!Init
  BY InitSimulated
<1>3. SerialInv /\ SerialInv' /\ [Next]_vars => [Serial!Next]_(Serial!vars)
  BY StepSimulated DEF Simulated
<1> QED BY <1>1, <1>2, <1>3, PTL DEF Spec, ImplementsSerialTransactions, Serial!Spec

=============================================================================
