---------------------------- MODULE SQLitePlugin ----------------------------
(***************************************************************************)
(* The transaction engine of www/SQLitePlugin.js for one database and one  *)
(* JavaScript context, together with the SQLite connection its statement   *)
(* batches run on.                                                         *)
(*                                                                         *)
(* JavaScript runs to completion: an action of this module is one task, a  *)
(* call made by the application, a nextTick callback, or the callback of   *)
(* one native call.  The native side runs beside it: it opens and closes   *)
(* the connection and executes a batch statement by statement, and its     *)
(* answers reach JavaScript in later tasks.                                *)
(*                                                                         *)
(* All handles of a database share openDBs[dbname] and txLocks[dbname], so *)
(* the state below is that of every handle at once.  txLocks[dbname] is    *)
(* created on first use; "absent" is the same as an empty, idle lock.      *)
(*                                                                         *)
(* MAX_SQL_CHUNK is 0, as shipped: a batch is everything in executes.      *)
(*                                                                         *)
(* The application passes its callbacks wherever the documented calls take *)
(* them: transaction(), readTransaction(), sqlBatch(), end(), abort() and  *)
(* the statement of db.executeSql().  beginTransaction() takes none.       *)
(***************************************************************************)
EXTENDS Integers, Sequences, FiniteSets, Functions

CONSTANTS
  Tx,              \* transaction objects the application may create
  Kinds,           \* the API calls it creates them with, a subset of AllKinds
  MaxStatements,   \* bound: user statements added to one transaction
  MaxOpens,        \* bound: native open requests
  MaxCloses,       \* bound: calls of close() that are accepted
  MaxDeletes,      \* bound: calls of deleteDatabase()
  AppWaits,        \* the application opens, closes or deletes only when no
                   \*   earlier open, close or delete is unanswered
  OpenFailures,    \* what JavaScript gets when the native side cannot open the
                   \*   database, a subset of {"err", "ok", "none"}: the error
                   \*   callback (Android), the success callback (iOS), or
                   \*   nothing (a worker on Android); {}: opening never fails
  CommitFailures,  \* what a failing COMMIT may do, a subset of {"keep", "undo"}
  AutoRollback     \* a failing statement may roll back the whole transaction

AllKinds ==
  {"transaction", "readTransaction", "beginTransaction", "executeSql", "sqlBatch"}

ASSUME ConstantsAssumption ==
  /\ Kinds \subseteq AllKinds
  /\ MaxStatements \in Nat \ {0}
  /\ MaxOpens \in Nat \ {0} /\ MaxCloses \in Nat /\ MaxDeletes \in Nat
  /\ AppWaits \in BOOLEAN /\ AutoRollback \in BOOLEAN
  /\ OpenFailures \subseteq {"err", "ok", "none"}
  /\ CommitFailures \subseteq {"keep", "undo"}

VARIABLES
  openDBs,      \* openDBs[dbname]: "INIT", "OPEN", or "none" when deleted
  queue,        \* txLocks[dbname].queue
  inProgress,   \* txLocks[dbname].inProgress
  ticks,        \* scheduled startNextTransaction callbacks
  \* ------ the transaction objects
  kind,         \* which call created it ("none" before)
  status,       \* its life, see Statuses
  canPause,     \* tx.canPause
  isPaused,     \* tx.isPaused
  executes,     \* tx.executes: statements not yet sent
  statements,   \* user statements added so far (for the bound)
  reports,      \* final callbacks made to the application, in order
  \* ------ the batch of each transaction that is with the native side
  batch,        \* its statements, << >> when there is none
  results,      \* results of the statements executed so far
  unanswered,   \* transactions whose batch will never be answered
  \* ------ native requests about the connection
  opens,        \* open requests not processed
  openReplies,  \* answers to open requests, not delivered yet
  closes,       \* close and delete requests not processed
  openCalls, closeCalls, deleteCalls,  \* calls made so far (for the bounds)
  \* ------ the SQLite connection and its database
  conn,         \* the native side has a connection
  sqlOpen,      \* an SQL transaction is open on it
  dirty,        \* transactions with writes in that SQL transaction
  durable,      \* transactions with writes that are committed
  lost          \* transactions with writes that were rolled back

jsVars   == <<openDBs, queue, inProgress, ticks>>
txVars   == <<kind, status, canPause, isPaused, executes, statements, reports>>
sentVars == <<batch, results, unanswered>>
callVars == <<opens, openReplies, closes, openCalls, closeCalls, deleteCalls>>
sqlVars  == <<sqlOpen, dirty, durable, lost>>
vars == <<jsVars, txVars, sentVars, callVars, conn, sqlVars>>

(***************************************************************************)
(* The life of a transaction object.  tx.finalized is status \in           *)
(* {"ending", "done"}, but for a transaction function that throws: its     *)
(* object is done without being finalized, and nothing reads it again.     *)
(***************************************************************************)
Statuses ==
  { "new",       \* not created
    "queued",    \* in the queue
    "running",   \* started, not finalized
    "ending",    \* finalized, its COMMIT or ROLLBACK is not answered
    "done",      \* it has given up the lock, or was refused
    "dropped" }  \* removed from the queue by abortAllPendingTransactions

Statement ==
  {"BEGIN", "SELECT 1", "user", "INVALID STATEMENT", "COMMIT", "ROLLBACK"}

\* transaction() and sqlBatch() pass txlock = true, beginTransaction() sets it.
Locked(k) == k \in {"transaction", "sqlBatch", "beginTransaction"}

\* Kinds whose statements carry handlers of the application.
Handled(k) == k \in {"transaction", "readTransaction", "beginTransaction"}

\* tx.error is set, and with it tx.success.  db.executeSql() never sets them,
\* beginTransaction() leaves that to end() and abort(), which clear canPause.
HasCallback(t) == kind[t] # "executeSql" /\ ~canPause[t]

Users(n) == [i \in 1..n |-> "user"]

\* What the SQLitePluginTransaction constructor and beginTransaction() put
\* into executes before any user statement.
Preamble(k) ==
  CASE k = "beginTransaction"               -> <<"SELECT 1", "BEGIN">>
    [] k \in {"transaction", "sqlBatch"}    -> <<"BEGIN">>
    [] OTHER                                -> <<"SELECT 1">>

Init ==
  /\ openDBs = "none" /\ queue = << >> /\ inProgress = FALSE /\ ticks = 0
  /\ kind = [t \in Tx |-> "none"]
  /\ status = [t \in Tx |-> "new"]
  /\ canPause = [t \in Tx |-> FALSE]
  /\ isPaused = [t \in Tx |-> FALSE]
  /\ executes = [t \in Tx |-> << >>]
  /\ statements = [t \in Tx |-> 0]
  /\ reports = [t \in Tx |-> << >>]
  /\ batch = [t \in Tx |-> << >>]
  /\ results = [t \in Tx |-> << >>]
  /\ unanswered = {}
  /\ opens = 0 /\ openReplies = << >> /\ closes = 0
  /\ openCalls = 0 /\ closeCalls = 0 /\ deleteCalls = 0
  /\ conn = FALSE /\ sqlOpen = FALSE
  /\ dirty = {} /\ durable = {} /\ lost = {}

-----------------------------------------------------------------------------
(* Opening and closing, as the application sees it. *)

\* Every open, close and delete so far has been answered.
NothingUnanswered ==
  openDBs # "INIT" /\ opens = 0 /\ openReplies = << >> /\ closes = 0

\* open() of a database that is not in openDBs.  (Otherwise it only calls the
\* success callback in a later task.)
Open ==
  /\ openDBs = "none"
  /\ AppWaits => NothingUnanswered
  /\ openCalls < MaxOpens
  /\ openDBs' = "INIT"
  /\ opens' = opens + 1
  /\ openCalls' = openCalls + 1
  /\ UNCHANGED <<queue, inProgress, ticks, txVars, sentVars, openReplies,
                 closes, closeCalls, deleteCalls, conn, sqlVars>>

\* Mutant of OpenSuccess: what is in the queue is left for the next caller.
OpenSuccessSchedulesNothing ==
  /\ openReplies # << >> /\ Head(openReplies) = "ok"
  /\ openReplies' = Tail(openReplies)
  /\ openDBs' = IF openDBs = "none" THEN "none" ELSE "OPEN"
  /\ UNCHANGED <<queue, inProgress, ticks, txVars, sentVars, opens, closes,
                 openCalls, closeCalls, deleteCalls, conn, sqlVars>>

\* opensuccesscb.
OpenSuccess ==
  /\ openReplies # << >> /\ Head(openReplies) = "ok"
  /\ openReplies' = Tail(openReplies)
  /\ openDBs' = IF openDBs = "none" THEN "none" ELSE "OPEN"
  /\ ticks' = IF queue # << >> /\ ~inProgress THEN ticks + 1 ELSE ticks
  /\ UNCHANGED <<queue, inProgress, txVars, sentVars, opens, closes, openCalls,
                 closeCalls, deleteCalls, conn, sqlVars>>

\* openerrorcb and abortAllPendingTransactions: abortFromQ reports to each
\* queued transaction that has an error callback.
OpenError ==
  /\ openReplies # << >> /\ Head(openReplies) = "err"
  /\ openReplies' = Tail(openReplies)
  /\ openDBs' = "none"
  /\ queue' = << >>
  /\ inProgress' = (inProgress /\ queue = << >>)
  /\ status' = [t \in Tx |-> IF t \in Range(queue) THEN "dropped" ELSE status[t]]
  /\ reports' = [t \in Tx |->
                   IF t \in Range(queue) /\ HasCallback(t)
                   THEN Append(reports[t], "error") ELSE reports[t]]
  /\ UNCHANGED <<ticks, kind, canPause, isPaused, executes, statements, sentVars,
                 opens, closes, openCalls, closeCalls, deleteCalls, conn, sqlVars>>

\* close(): refused while a transaction is in progress.
Close ==
  /\ openDBs # "none"
  /\ ~inProgress
  /\ AppWaits => NothingUnanswered
  /\ closeCalls < MaxCloses
  /\ openDBs' = "none"
  /\ closes' = closes + 1
  /\ closeCalls' = closeCalls + 1
  /\ UNCHANGED <<queue, inProgress, ticks, txVars, sentVars, opens, openReplies,
                 openCalls, deleteCalls, conn, sqlVars>>

\* deleteDatabase(): no look at the lock.
DeleteDatabase ==
  /\ AppWaits => NothingUnanswered
  /\ deleteCalls < MaxDeletes
  /\ openDBs' = "none"
  /\ closes' = closes + 1
  /\ deleteCalls' = deleteCalls + 1
  /\ UNCHANGED <<queue, inProgress, ticks, txVars, sentVars, opens, openReplies,
                 openCalls, closeCalls, conn, sqlVars>>

-----------------------------------------------------------------------------
(* Creating and starting transactions. *)

\* transaction(), readTransaction() and beginTransaction() look at openDBs;
\* executeSql() and sqlBatch() do not.
ChecksOpen(k) == Handled(k)

\* The constructor, and addTransaction: the queue is looked at in a later task,
\* and only if the database is open now.
AddTransaction(t, k) ==
  /\ status[t] = "new"
  /\ ChecksOpen(k) => openDBs # "none"
  /\ kind' = [kind EXCEPT ![t] = k]
  /\ status' = [status EXCEPT ![t] = "queued"]
  /\ canPause' = [canPause EXCEPT ![t] = (k = "beginTransaction")]
  /\ executes' = [executes EXCEPT ![t] = Preamble(k)]
  /\ queue' = Append(queue, t)
  /\ ticks' = IF openDBs = "OPEN" THEN ticks + 1 ELSE ticks
  /\ UNCHANGED <<openDBs, inProgress, isPaused, statements, reports, sentVars,
                 callVars, conn, sqlVars>>

\* 'database not open': the error callback at once, or an exception.
RefuseTransaction(t, k) ==
  /\ status[t] = "new"
  /\ ChecksOpen(k) /\ openDBs = "none"
  /\ kind' = [kind EXCEPT ![t] = k]
  /\ status' = [status EXCEPT ![t] = "done"]
  /\ reports' = [reports EXCEPT ![t] = Append(@, "error")]
  /\ UNCHANGED <<jsVars, canPause, isPaused, executes, statements, sentVars,
                 callVars, conn, sqlVars>>

\* run(): everything in executes becomes the batch of the transaction.
SendBatch(t, stmts) ==
  /\ batch' = [batch EXCEPT ![t] = stmts]
  /\ results' = [results EXCEPT ![t] = << >>]
  /\ executes' = [executes EXCEPT ![t] = << >>]

\* User statements the transaction function may add.
FirstStatements(t) ==
  CASE kind[t] = "executeSql"       -> {1}
    [] kind[t] = "beginTransaction" -> {0}
    [] OTHER                        -> 0..(MaxStatements - statements[t])

\* What startNextTransaction's callback looks at before it takes the next one.
CanStart == openDBs = "OPEN" /\ queue # << >> /\ ~inProgress

\* The callback finds nothing to start.
IdleTick ==
  /\ ticks > 0
  /\ ~CanStart
  /\ ticks' = ticks - 1
  /\ UNCHANGED <<openDBs, queue, inProgress, txVars, sentVars, callVars, conn, sqlVars>>

\* Mutant of StartTransaction: the lock keeps the transaction it is given to,
\* inProgress = queue.shift(), where the others write and read a flag.
StartTransactionKeepsObject ==
  /\ ticks > 0
  /\ CanStart
  /\ LET t == Head(queue) IN
       \E n \in FirstStatements(t) :
         /\ status' = [status EXCEPT ![t] = "running"]
         /\ statements' = [statements EXCEPT ![t] = @ + n]
         /\ SendBatch(t, executes[t] \o Users(n))
  /\ queue' = Tail(queue)
  /\ inProgress' = Head(queue)
  /\ ticks' = ticks - 1
  /\ UNCHANGED <<openDBs, kind, canPause, isPaused, reports, unanswered,
                 callVars, conn, sqlVars>>

\* The callback takes the lock and calls start(): fn adds its statements.
StartTransaction ==
  /\ ticks > 0
  /\ CanStart
  /\ LET t == Head(queue) IN
       \E n \in FirstStatements(t) :
         /\ status' = [status EXCEPT ![t] = "running"]
         /\ statements' = [statements EXCEPT ![t] = @ + n]
         /\ SendBatch(t, executes[t] \o Users(n))
  /\ queue' = Tail(queue)
  /\ inProgress' = TRUE
  /\ ticks' = ticks - 1
  /\ UNCHANGED <<openDBs, kind, canPause, isPaused, reports, unanswered,
                 callVars, conn, sqlVars>>

\* Mutant of StartThrows: the lock is kept.
StartThrowsKeepsLock ==
  /\ ticks > 0
  /\ CanStart
  /\ LET t == Head(queue) IN
       /\ kind[t] \in {"transaction", "readTransaction"}
       /\ status' = [status EXCEPT ![t] = "done"]
       /\ reports' = [reports EXCEPT ![t] = Append(@, "error")]
  /\ queue' = Tail(queue)
  /\ inProgress' = TRUE
  /\ UNCHANGED <<openDBs, ticks, kind, canPause, isPaused, executes, statements,
                 sentVars, callVars, conn, sqlVars>>

\* ... or throws: start() gives the lock up, schedules the next and reports.
StartThrows ==
  /\ ticks > 0
  /\ CanStart
  /\ LET t == Head(queue) IN
       /\ kind[t] \in {"transaction", "readTransaction"}
       /\ status' = [status EXCEPT ![t] = "done"]
       /\ reports' = [reports EXCEPT ![t] = Append(@, "error")]
  /\ queue' = Tail(queue)
  /\ inProgress' = FALSE
  /\ ticks' = (ticks - 1) + 1
  /\ UNCHANGED <<openDBs, kind, canPause, isPaused, executes, statements,
                 sentVars, callVars, conn, sqlVars>>

-----------------------------------------------------------------------------
(* Calls on a transaction object from outside its own callbacks. *)

\* Mutant of ExecuteSql: the transaction stays paused.
ExecuteSqlStaysPaused(t) ==
  /\ Handled(kind[t])
  /\ \/ status[t] = "running"
     \/ status[t] = "queued" /\ kind[t] = "beginTransaction"
  /\ statements[t] < MaxStatements
  /\ statements' = [statements EXCEPT ![t] = @ + 1]
  /\ LET ex == Append(executes[t], "user") IN
       IF isPaused[t]
       THEN SendBatch(t, ex)
       ELSE /\ executes' = [executes EXCEPT ![t] = ex]
            /\ UNCHANGED <<batch, results>>
  /\ UNCHANGED <<jsVars, kind, status, canPause, isPaused, reports, unanswered,
                 callVars, conn, sqlVars>>

\* tx.executeSql(): runs at once when the transaction is paused, else the
\* statement waits for the batch that is out.
ExecuteSql(t) ==
  /\ Handled(kind[t])
  /\ \/ status[t] = "running"
     \/ status[t] = "queued" /\ kind[t] = "beginTransaction"
  /\ statements[t] < MaxStatements
  /\ statements' = [statements EXCEPT ![t] = @ + 1]
  /\ LET ex == Append(executes[t], "user") IN
       IF isPaused[t]
       THEN SendBatch(t, ex)
       ELSE /\ executes' = [executes EXCEPT ![t] = ex]
            /\ UNCHANGED <<batch, results>>
  /\ isPaused' = [isPaused EXCEPT ![t] = FALSE]
  /\ UNCHANGED <<jsVars, kind, status, canPause, reports, unanswered, callVars,
                 conn, sqlVars>>

\* Mutant of End: a paused transaction is not run again.
EndDoesNotRun(t) ==
  /\ canPause[t] /\ status[t] # "dropped"
  /\ canPause' = [canPause EXCEPT ![t] = FALSE]
  /\ isPaused' = [isPaused EXCEPT ![t] = FALSE]
  /\ UNCHANGED <<jsVars, kind, status, executes, statements, reports, sentVars,
                 callVars, conn, sqlVars>>

\* tx.end(): a paused transaction has nothing in executes, so it goes on to
\* $finish, which does nothing once the transaction is finalized.
End(t) ==
  /\ canPause[t] /\ status[t] # "dropped"
  /\ canPause' = [canPause EXCEPT ![t] = FALSE]
  /\ isPaused' = [isPaused EXCEPT ![t] = FALSE]
  /\ IF isPaused[t] /\ status[t] = "running"
     THEN /\ status' = [status EXCEPT ![t] = "ending"]
          /\ SendBatch(t, <<"COMMIT">>)
     ELSE UNCHANGED <<status, batch, results, executes>>
  /\ UNCHANGED <<jsVars, kind, statements, reports, unanswered, callVars, conn, sqlVars>>

\* tx.abort(): forces a failure with a statement that cannot be prepared, also
\* on a transaction that has already ended.
AbortCall(t) ==
  /\ canPause[t] /\ status[t] # "dropped"
  /\ canPause' = [canPause EXCEPT ![t] = FALSE]
  /\ isPaused' = [isPaused EXCEPT ![t] = FALSE]
  /\ LET ex == Append(executes[t], "INVALID STATEMENT") IN
       IF isPaused[t]
       THEN SendBatch(t, ex)
       ELSE /\ executes' = [executes EXCEPT ![t] = ex]
            /\ UNCHANGED <<batch, results>>
  /\ UNCHANGED <<jsVars, kind, status, statements, reports, unanswered, callVars,
                 conn, sqlVars>>

-----------------------------------------------------------------------------
(* The result of a batch reaches JavaScript: run_batch's mycb calls the     *)
(* handler of every statement, and the last one decides how to go on.       *)

Answered(t) ==
  batch[t] # << >> /\ Len(results[t]) = Len(batch[t]) /\ t \notin unanswered

Failed(t, s) == \E i \in 1..Len(batch[t]) : batch[t][i] = s /\ results[t][i] = "error"

HasUser(t) == \E i \in 1..Len(batch[t]) : batch[t][i] = "user"

\* Some handler throws for certain: the plugin's own statements have no error
\* handler or one that throws, and sqlBatch gives its statements none.
MustThrow(t) ==
  \/ \E s \in {"BEGIN", "SELECT 1", "INVALID STATEMENT", "COMMIT", "ROLLBACK"} : Failed(t, s)
  \/ kind[t] = "sqlBatch" /\ Failed(t, "user")

\* Some handler may throw: any handler of the application, and the error
\* handler by not returning false.
MayThrow(t) == MustThrow(t) \/ (HasUser(t) /\ kind[t] # "sqlBatch")

Throws(t) == { b \in BOOLEAN : IF b THEN MayThrow(t) ELSE ~MustThrow(t) }

\* Statements the handlers of a batch may add with tx.executeSql().
MoreStatements(t) ==
  IF Handled(kind[t]) /\ HasUser(t) THEN 0..(MaxStatements - statements[t]) ELSE {0}

\* What the application hears of the end of t: the callback if there is one,
\* else nothing.  For db.executeSql() it is the result of its only statement.
Report(t, outcome) ==
  CASE kind[t] = "executeSql" ->
         Append(reports[t], IF Failed(t, "user") THEN "error" ELSE "success")
    [] HasCallback(t) -> Append(reports[t], outcome)
    [] OTHER -> reports[t]

\* Mutant of Release: the next transaction is not scheduled.
ReleaseSchedulesNothing(t, outcome) ==
  /\ status' = [status EXCEPT ![t] = "done"]
  /\ inProgress' = FALSE
  /\ UNCHANGED ticks
  /\ reports' = [reports EXCEPT ![t] = Report(t, outcome)]

\* succeeded and failed in $abort and $finish: give the lock up, schedule the
\* next transaction, call tx.error or tx.success if it is set.
Release(t, outcome) ==
  /\ status' = [status EXCEPT ![t] = "done"]
  /\ inProgress' = FALSE
  /\ ticks' = ticks + 1
  /\ reports' = [reports EXCEPT ![t] = Report(t, outcome)]

ClearBatch(t) ==
  /\ batch' = [batch EXCEPT ![t] = << >>]
  /\ results' = [results EXCEPT ![t] = << >>]

\* Mutant of Abort: ROLLBACK goes before the statements still in executes.
AbortRollsBackFirst(t, ex) ==
  IF Locked(kind[t])
  THEN /\ status' = [status EXCEPT ![t] = "ending"]
       /\ SendBatch(t, <<"ROLLBACK">> \o ex)
       /\ UNCHANGED <<inProgress, ticks, reports>>
  ELSE /\ Release(t, "error")
       /\ ClearBatch(t)
       /\ executes' = [executes EXCEPT ![t] = ex]

\* Mutant of Abort: no ROLLBACK.
AbortOnlyReleases(t, ex) ==
  /\ Release(t, "error")
  /\ ClearBatch(t)
  /\ executes' = [executes EXCEPT ![t] = ex]

\* $abort of a transaction that is not finalized.  ROLLBACK goes behind the
\* statements that are still in executes.
Abort(t, ex) ==
  IF Locked(kind[t])
  THEN /\ status' = [status EXCEPT ![t] = "ending"]
       /\ SendBatch(t, Append(ex, "ROLLBACK"))
       /\ UNCHANGED <<inProgress, ticks, reports>>
  ELSE /\ Release(t, "error")
       /\ ClearBatch(t)
       /\ executes' = [executes EXCEPT ![t] = ex]

\* $finish of a transaction that is not finalized; executes is empty.
Finish(t) ==
  IF Locked(kind[t])
  THEN /\ status' = [status EXCEPT ![t] = "ending"]
       /\ SendBatch(t, <<"COMMIT">>)
       /\ UNCHANGED <<inProgress, ticks, reports>>
  ELSE /\ Release(t, "success")
       /\ ClearBatch(t)
       /\ UNCHANGED executes

\* How run() goes on behind the last handler, with ex in executes: txFailure,
\* more statements, a transaction that waits for end(), or the end.
Continue(t, throws, ex, n) ==
  /\ statements' = [statements EXCEPT ![t] = @ + n]
  /\ \/ /\ throws
        /\ Abort(t, ex)
        /\ UNCHANGED isPaused
     \/ /\ ~throws /\ ex # << >>
        /\ SendBatch(t, ex)
        /\ UNCHANGED <<status, inProgress, ticks, reports, isPaused>>
     \/ /\ ~throws /\ ex = << >> /\ canPause[t]
        /\ isPaused' = [isPaused EXCEPT ![t] = TRUE]
        /\ ClearBatch(t)
        /\ UNCHANGED <<status, inProgress, ticks, reports, executes>>
     \/ /\ ~throws /\ ex = << >> /\ ~canPause[t]
        /\ Finish(t)
        /\ UNCHANGED isPaused

\* A batch of a running transaction.
DeliverResults(t) ==
  /\ Answered(t)
  /\ status[t] = "running"
  /\ \E throws \in Throws(t), n \in MoreStatements(t) :
       Continue(t, throws, executes[t] \o Users(n), n)
  /\ UNCHANGED <<openDBs, queue, kind, canPause, unanswered, callVars, conn, sqlVars>>

\* Mutant of EndOutcome: the result of COMMIT is not looked at.
EndOutcomeUnchecked(t) ==
  IF batch[t][Len(batch[t])] = "COMMIT" THEN "success" ELSE "error"

\* success() is called by succeeded of $finish only.
EndOutcome(t) ==
  IF batch[t][Len(batch[t])] = "COMMIT" /\ ~Failed(t, "COMMIT")
  THEN "success" ELSE "error"

\* The batch that ends in COMMIT or ROLLBACK.  Its last handler releases the
\* lock, and throws if the final callback of the application does.  $abort and
\* $finish have no effect any more, but an 'INVALID STATEMENT' of abort() that
\* is still in executes is sent, and a transaction that was never ended by the
\* application becomes paused.
DeliverEnd(t) ==
  /\ Answered(t)
  /\ status[t] = "ending"
  /\ Release(t, EndOutcome(t))
  /\ \E throws \in Throws(t) \cup {b \in {TRUE} : HasCallback(t)} :
       \/ /\ throws \/ (executes[t] = << >> /\ ~canPause[t])
          /\ ClearBatch(t)
          /\ UNCHANGED <<executes, isPaused>>
       \/ ~throws /\ executes[t] # << >>
          /\ SendBatch(t, executes[t])
          /\ UNCHANGED isPaused
       \/ ~throws /\ executes[t] = << >> /\ canPause[t]
          /\ isPaused' = [isPaused EXCEPT ![t] = TRUE]
          /\ ClearBatch(t)
          /\ UNCHANGED executes
  /\ UNCHANGED <<openDBs, queue, kind, canPause, statements, unanswered, callVars,
                 conn, sqlVars>>

\* Mutant of DeliverLate: $abort does not look at finalized.
DeliverLateNotFinalized(t) ==
  /\ Answered(t)
  /\ status[t] = "done"
  /\ Release(t, "error")
  /\ ClearBatch(t)
  /\ UNCHANGED <<openDBs, queue, kind, canPause, isPaused, executes, statements,
                 unanswered, callVars, conn, sqlVars>>

\* The batch of an abort() that came after the end: its failure reaches $abort,
\* which returns because the transaction is finalized.
DeliverLate(t) ==
  /\ Answered(t)
  /\ status[t] = "done"
  /\ ClearBatch(t)
  /\ UNCHANGED <<jsVars, txVars, unanswered, callVars, conn, sqlVars>>

-----------------------------------------------------------------------------
(* The native side. *)

Partial(t) == results[t] # << >> /\ Len(results[t]) < Len(batch[t])

\* Everything in the open SQL transaction is gone.
Undo ==
  /\ sqlOpen' = FALSE
  /\ dirty' = {}
  /\ lost' = lost \cup dirty
  /\ UNCHANGED durable

\* An open request: an existing connection is used again, else one is made.
NativeOpen ==
  /\ opens > 0
  /\ opens' = opens - 1
  /\ \/ conn' = TRUE /\ openReplies' = Append(openReplies, "ok")
     \/ /\ ~conn /\ UNCHANGED conn
        /\ \E f \in OpenFailures :
             openReplies' = IF f = "none" THEN openReplies ELSE Append(openReplies, f)
  /\ UNCHANGED <<jsVars, txVars, sentVars, closes, openCalls, closeCalls,
                 deleteCalls, sqlVars>>

\* A close or delete request, between two batches.
NativeClose ==
  /\ closes > 0
  /\ \A t \in Tx : ~Partial(t)
  /\ closes' = closes - 1
  /\ conn' = FALSE
  /\ Undo
  /\ UNCHANGED <<jsVars, txVars, sentVars, opens, openReplies, openCalls,
                 closeCalls, deleteCalls>>

\* A batch that finds no connection is not answered: the native side reports
\* an error, and run_batch passes no error callback.
NativeDrop(t) ==
  /\ batch[t] # << >> /\ results[t] = << >> /\ t \notin unanswered
  /\ ~conn
  /\ unanswered' = unanswered \cup {t}
  /\ UNCHANGED <<jsVars, txVars, batch, results, callVars, conn, sqlVars>>

\* Effect of one statement on the connection, and its result r.  A user
\* statement reads or writes, in a readTransaction too: executeSql() rejects
\* some of the statements that write, not REPLACE or ALTER.
Execute(t, s, r) ==
  \/ s \in {"SELECT 1", "user"} /\ r = "ok" /\ UNCHANGED sqlVars
  \/ s = "INVALID STATEMENT" /\ r = "error" /\ UNCHANGED sqlVars
  \/ s = "BEGIN" /\ ~sqlOpen /\ r = "ok"
     /\ sqlOpen' = TRUE /\ UNCHANGED <<dirty, durable, lost>>
  \/ s = "BEGIN" /\ sqlOpen /\ r = "error" /\ UNCHANGED sqlVars
  \/ s = "user" /\ sqlOpen /\ r = "ok"
     /\ dirty' = dirty \cup {t} /\ UNCHANGED <<sqlOpen, durable, lost>>
  \/ s = "user" /\ ~sqlOpen /\ r = "ok"
     /\ durable' = durable \cup {t} /\ UNCHANGED <<sqlOpen, dirty, lost>>
  \/ s = "user" /\ r = "error" /\ UNCHANGED sqlVars
  \/ s = "user" /\ sqlOpen /\ AutoRollback /\ r = "error" /\ Undo
  \/ s = "COMMIT" /\ sqlOpen /\ r = "ok"
     /\ sqlOpen' = FALSE /\ dirty' = {} /\ durable' = durable \cup dirty /\ UNCHANGED lost
  \/ s = "COMMIT" /\ sqlOpen /\ "keep" \in CommitFailures /\ r = "error" /\ UNCHANGED sqlVars
  \/ s = "COMMIT" /\ sqlOpen /\ "undo" \in CommitFailures /\ r = "error" /\ Undo
  \/ s = "ROLLBACK" /\ sqlOpen /\ r = "ok" /\ Undo
  \/ s \in {"COMMIT", "ROLLBACK"} /\ ~sqlOpen /\ r = "error" /\ UNCHANGED sqlVars

\* The next statement of a batch; batches do not overlap.  A failed statement
\* does not keep the next ones from being executed.
NativeExecute(t) ==
  /\ conn
  /\ Len(results[t]) < Len(batch[t]) /\ t \notin unanswered
  /\ \A u \in Tx \ {t} : ~Partial(u)
  /\ \E r \in {"ok", "error"} :
       /\ Execute(t, batch[t][Len(results[t]) + 1], r)
       /\ results' = [results EXCEPT ![t] = Append(@, r)]
  /\ UNCHANGED <<jsVars, txVars, batch, unanswered, callVars, conn>>

-----------------------------------------------------------------------------
Deliver(t) == DeliverResults(t) \/ DeliverEnd(t) \/ DeliverLate(t)

Tick == IdleTick \/ StartTransaction \/ StartThrows

Next ==
  \/ Open \/ OpenSuccess \/ OpenError \/ Close \/ DeleteDatabase
  \/ Tick
  \/ NativeOpen \/ NativeClose
  \/ \E t \in Tx :
       \/ \E k \in Kinds : AddTransaction(t, k) \/ RefuseTransaction(t, k)
       \/ ExecuteSql(t) \/ End(t) \/ AbortCall(t)
       \/ Deliver(t)
       \/ NativeDrop(t) \/ NativeExecute(t)

Spec == Init /\ [][Next]_vars


(***************************************************************************)
(* What the environment guarantees: the event loop runs every scheduled    *)
(* callback and delivers every answer, and the native threads work off     *)
(* what they were given.  Nothing is assumed of the application.           *)
(***************************************************************************)
Fairness ==
  /\ WF_vars(Tick)
  /\ WF_vars(OpenSuccess \/ OpenError)
  /\ WF_vars(NativeOpen)
  /\ WF_vars(NativeClose)
  /\ \A t \in Tx :
       /\ WF_vars(Deliver(t))
       /\ WF_vars(NativeExecute(t) \/ NativeDrop(t))

FairSpec == Spec /\ Fairness

-----------------------------------------------------------------------------
(* Properties. *)

JsTypeOK ==
  /\ openDBs \in {"none", "INIT", "OPEN"}
  /\ queue \in Seq(Tx)
  /\ inProgress \in BOOLEAN
  /\ ticks \in Nat

TxTypeOK ==
  /\ kind \in [Tx -> AllKinds \cup {"none"}]
  /\ status \in [Tx -> Statuses]
  /\ canPause \in [Tx -> BOOLEAN]
  /\ isPaused \in [Tx -> BOOLEAN]
  /\ executes \in [Tx -> Seq(Statement)]
  /\ statements \in [Tx -> Nat]
  /\ reports \in [Tx -> Seq({"success", "error"})]

SentTypeOK ==
  /\ batch \in [Tx -> Seq(Statement)]
  /\ results \in [Tx -> Seq({"ok", "error"})]
  /\ unanswered \subseteq Tx

CallTypeOK ==
  /\ opens \in Nat /\ openReplies \in Seq({"ok", "err"}) /\ closes \in Nat
  /\ openCalls \in Nat /\ closeCalls \in Nat /\ deleteCalls \in Nat

SqlTypeOK ==
  /\ sqlOpen \in BOOLEAN
  /\ dirty \subseteq Tx /\ durable \subseteq Tx /\ lost \subseteq Tx

\* The type of every variable.
TypeOK ==
  JsTypeOK /\ TxTypeOK /\ SentTypeOK /\ CallTypeOK /\ conn \in BOOLEAN /\ SqlTypeOK

\* The transaction has the lock, or believes it has.
Holding(t) == status[t] \in {"running", "ending"}

\* Transactions of a database are executed in sequential order: no transaction
\* is started while another one has not ended.
OneAtATime == \A t, u \in Tx : Holding(t) /\ Holding(u) => t = u

\* txLocks[dbname].inProgress is exact: it is set when, and only when, one
\* transaction has been started and has not ended, and there are never two.
\* (startNextTransaction, and every place that resets inProgress.)
Serialized ==
  /\ inProgress <=> \E t \in Tx : Holding(t)
  /\ OneAtATime

\* No wake-up is lost: whenever the database is open and idle and a transaction
\* waits, a startNextTransaction callback is scheduled that will find it.
\* (addTransaction, opensuccesscb, start, $abort and $finish each schedule one.)
QueueIsScheduled == CanStart => ticks > 0

\* A transaction that has the lock is waiting for exactly one thing: a batch
\* that is with the native side, or, when paused, the application.  A paused
\* one holds no unsent statement, which is what end() relies on.
HolderIsWaiting ==
  \A t \in Tx :
    /\ Holding(t) => (isPaused[t] <=> batch[t] = << >>)
    /\ status[t] = "ending" => ~isPaused[t]
    /\ isPaused[t] => executes[t] = << >>

\* The transaction has ended, or was aborted in the queue.
Over(t) == status[t] \in {"done", "dropped"}

\* The application has given no callback that could be called when t ends:
\* db.executeSql() aborted in the queue, and beginTransaction() for which
\* neither end() nor abort() was called in time (README.md:742).
Unheard(t) == IF kind[t] = "executeSql" THEN status[t] = "queued" ELSE canPause[t]

\* A step tells the application of t when t ends, if it can, and only then.
TellsOnce(t) ==
  IF Over(t)
  THEN status'[t] = status[t] /\ reports'[t] = reports[t]
  ELSE Len(reports'[t]) = IF Over(t)' /\ ~Unheard(t) THEN 1 ELSE 0

\* The application is told the end of a transaction once: in the step in which
\* the transaction gives up the lock, is refused or is aborted in the queue,
\* never before it and never again, and it is left out only if it gave no
\* callback until then.  What comes late (a batch of abort() behind the end, an
\* end() after a silent abort) reports nothing any more.
ReportedOnce == [][\A t \in Tx : TellsOnce(t)]_vars

\* An atomic transaction that ended without being reported as successful, as
\* failed or not at all, has left nothing in the database, committed or about
\* to be: its BEGIN, its failing statement, the statements executed behind that
\* one, and its ROLLBACK together are atomic.
ErrorLeavesNothing ==
  \A t \in Tx :
    Locked(kind[t]) /\ Over(t) /\ reports[t] # <<"success">> => t \notin durable \cup dirty

\* What was reported as successful is committed: no write of it is still in an
\* open SQL transaction, or was rolled back with one.
SuccessIsDurable ==
  \A t \in Tx : "success" \in Range(reports[t]) => t \notin dirty \cup lost

\* An SQL transaction is open only while the transaction object that began it
\* has the lock.
NoHangingTransaction ==
  sqlOpen => \E t \in Tx : Holding(t) /\ Locked(kind[t])

\* The application has closed or deleted the database.
Closed == closeCalls > 0 \/ deleteCalls > 0

\* A transaction that is asked for while the database is open or opening ends
\* or is aborted in the queue, unless the application never ends one that it
\* made by beginTransaction(), or takes the database away.
EveryTransactionSettles ==
  \/ <>Closed
  \/ \E s \in Tx : <>[](status[s] = "running" /\ canPause[s])
  \/ \A t \in Tx :
       status[t] = "queued" /\ openDBs # "none" ~> status[t] \in {"done", "dropped"}

\* A transaction that has been started, and ended by the application if it has
\* to be, gives the lock up, unless the application takes the database away.
StartedTransactionEnds ==
  \/ <>Closed
  \/ \A t \in Tx : status[t] = "running" /\ ~canPause[t] ~> status[t] = "done"

=============================================================================
