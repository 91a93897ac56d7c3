---------------------------- MODULE ConnectionTable ----------------------------
(***************************************************************************)
(* The table of open connections of the native side, by database name:     *)
(* openDBs of ios/SQLitePlugin.m, a dictionary each operation of which is  *)
(* done under a spin lock; and the pages that open, use, close and delete  *)
(* the databases, one after the other, as the web view is reloaded.        *)
(*                                                                         *)
(* On iOS every call of a page is a task of its own (runInBackground), so  *)
(* tasks run at once; batches exclude each other (@synchronized), open,    *)
(* close and delete do not take part in that.  The calls of a web worker   *)
(* run one after the other on the thread of the URL protocol.  On Android  *)
(* the calls for a database are executed in order by its DBRunner, which   *)
(* is in detail in module DBRunner; the table stands for dbrmap then.      *)
(*                                                                         *)
(* A new page does not know of the calls of the page before it, which go   *)
(* on.  Otherwise a page is patient: it waits for the answer to an open,   *)
(* close or delete call before it makes another for the same database,     *)
(* and does not delete a database while a transaction is in progress       *)
(* (README.md, known issues and what is not tested).  Opening does not     *)
(* fail here.                                                              *)
(*                                                                         *)
(* A COMMIT may fail, and leave its transaction open or undone.  What      *)
(* SQLite may do besides, to undo a transaction whose write fails, is in   *)
(* module SQLitePlugin.                                                    *)
(***************************************************************************)
EXTENDS Integers, Sequences, FiniteSets, FiniteSetsExt

CONSTANTS
  Platforms,        \* the native sides to look at, a subset of {"android", "ios"}
  Databases,        \* database names
  WorkerDatabases,  \* those used by a web worker of the page
  CommitFailures,   \* what a COMMIT that fails does, a subset of {"keep", "undo"}
  MaxCalls,         \* bound: open, close and delete calls
  MaxTransactions,  \* bound: transactions started
  MaxReloads        \* bound: reloads of the page

ASSUME ConnectionTableAssumption ==
  /\ Platforms \subseteq {"android", "ios"}
  /\ WorkerDatabases \subseteq Databases
  /\ CommitFailures \subseteq {"keep", "undo"}
  /\ MaxCalls \in Nat
  /\ MaxTransactions \in Nat /\ MaxReloads \in Nat

VARIABLES
  platform,    \* which native side it is
  \* ------ JavaScript
  page,        \* number of the page that is loaded
  handle,      \* openDBs of the page: "closed" (no entry), "init" or "open"
  asked,       \* databases with an open, close or delete call not answered
  current,     \* the transaction in progress on each database, or 0
  transactions, \* all transactions, in the order they were started
  calls,       \* calls made so far (for the bound)
  \* ------ the native side
  tasks,       \* the calls that are carried out
  table,       \* the connection of each database, or 0
  monitor,     \* the batch task inside @synchronized, or 0
  crashed,     \* the process has crashed: a statement on no connection (iOS)
  \* ------ SQLite
  connections, \* all connections made
  path,        \* the file that is at each database's path, or 0
  files,       \* what is committed in each file
  \* ------ history
  overlap,     \* databases with a call made while one of an earlier page was out
  misused      \* databases a batch of which found no open connection

pageVars   == <<page, handle, asked, current, transactions, calls>>
nativeVars == <<tasks, table, monitor, crashed>>
sqliteVars == <<connections, path, files>>
history    == <<overlap, misused>>
vars == <<platform, pageVars, nativeVars, sqliteVars, history>>

NoTask == 0
Closed == "closed"

\* What a statement is: to begin or end a transaction, or a write of one
Sqls == {"BEGIN", "WRITE", "COMMIT", "ROLLBACK"}

TransactionIds == 1 .. Len(transactions)
Writes == TransactionIds \X (1 .. 2)

Init ==
  /\ platform \in Platforms
  /\ page = 1 /\ calls = 0 /\ asked = {}
  /\ handle = [d \in Databases |-> Closed]
  /\ current = [d \in Databases |-> 0]
  /\ transactions = <<>>
  /\ tasks = {} /\ monitor = NoTask /\ crashed = FALSE
  /\ table = [d \in Databases |-> 0]
  /\ connections = <<>> /\ files = <<>>
  /\ path = [d \in Databases |-> 0]
  /\ overlap = {} /\ misused = {}

-----------------------------------------------------------------------------
(***************************************************************************)
(* The dictionary of connections.                                          *)
(***************************************************************************)

\* What a dictionary would do that copies its entries outside the lock: the
\* entries of other names are not kept
SetObjectTorn(d, c) == table' = [e \in Databases |-> IF e = d THEN c ELSE 0]

SetObject(d, c) == table' = [table EXCEPT ![d] = c]
RemoveObject(d) == table' = [table EXCEPT ![d] = 0]
ObjectForKey(d) == table[d]

-----------------------------------------------------------------------------
(***************************************************************************)
(* Tasks.                                                                  *)
(***************************************************************************)

TaskId == 1 + Max({0} \cup {t.id : t \in tasks})

Task(kind, d, pc) ==
  [ id |-> TaskId, kind |-> kind, db |-> d, page |-> page, pc |-> pc,
    conn |-> 0, tx |-> 0, sqls |-> <<>>, error |-> FALSE ]

Running(t) == t.pc \notin {"done", "lost"}

\* A call is made while one of an earlier page for the same database goes on
NoteOverlap(d) ==
  overlap' = IF \E t \in tasks : t.db = d /\ t.page # page /\ Running(t)
             THEN overlap \cup {d} ELSE overlap

\* Tasks that are executed in order, one behind the other
SameThread(t, u) ==
  IF platform = "android" THEN t.db = u.db
  ELSE t.db \in WorkerDatabases /\ u.db \in WorkerDatabases

\* A task on its way may take a step
MayStep(t) ==
  /\ ~crashed
  /\ \A u \in tasks : SameThread(t, u) /\ Running(u) => t.id <= u.id

\* The answer to a page that is gone is dropped
Become(t, u) ==
  tasks' = (tasks \ {t}) \cup {v \in {u} : Running(v) \/ v.page = page}

-----------------------------------------------------------------------------
(***************************************************************************)
(* The page: openDatabase, close, deleteDatabase.                          *)
(***************************************************************************)

MakeCall(d) ==
  /\ ~crashed
  /\ calls < MaxCalls /\ calls' = calls + 1
  /\ d \notin asked
  /\ NoteOverlap(d)
  /\ UNCHANGED <<platform, page, current, transactions>>
  /\ UNCHANGED <<table, monitor, crashed, sqliteVars, misused>>

\* Android answers at once if there is a DBRunner
Open(d) ==
  /\ MakeCall(d)
  /\ handle[d] = Closed
  /\ handle' = [handle EXCEPT ![d] = "init"]
  /\ asked' = asked \cup {d}
  /\ tasks' = tasks \cup
       {Task("open", d,
          IF platform = "android" /\ ObjectForKey(d) # 0 THEN "done" ELSE "lookup")}

\* close() refuses while a transaction is in progress; deleteDatabase() does not,
\* but the page waits for its transaction's end.  In a worker there is no
\* sqlitePluginHelper: the call throws, with the entry of openDBs removed.
Forget(d, kind) ==
  /\ MakeCall(d)
  /\ current[d] = 0
  /\ handle' = [handle EXCEPT ![d] = Closed]
  /\ IF d \in WorkerDatabases
     THEN UNCHANGED <<asked, tasks>>
     ELSE /\ asked' = asked \cup {d}
          /\ tasks' = tasks \cup {Task(kind, d, kind)}

\* close() without the test of inProgress
CloseAnyway(d) ==
  /\ handle[d] = "open"
  /\ MakeCall(d)
  /\ handle' = [handle EXCEPT ![d] = Closed]
  /\ asked' = asked \cup {d}
  /\ tasks' = tasks \cup {Task("close", d, "close")}

Close(d) == handle[d] = "open" /\ Forget(d, "close")
Delete(d) == Forget(d, "delete")

-----------------------------------------------------------------------------
(***************************************************************************)
(* The page: transactions.  A locked one begins, writes once or twice and  *)
(* commits, or rolls back if a statement failed; a plain one, that of      *)
(* executeSql, is one write.                                               *)
(***************************************************************************)

\* The writes of a transaction without its BEGIN
BatchWithoutBegin(i, sqls) ==
  LET d == transactions'[i].db
  IN  tasks' = tasks \cup
        {[Task("batch", d, "statement") EXCEPT !.tx = i, !.sqls = <<"WRITE">>]}

Batch(i, sqls) ==
  LET d == transactions'[i].db
  IN  tasks' = tasks \cup
        {[Task("batch", d, "statement") EXCEPT !.tx = i, !.sqls = sqls]}

Transact(d, locked) ==
  LET i == Len(transactions) + 1
  IN  /\ ~crashed
      /\ handle[d] = "open" /\ current[d] = 0
      /\ i <= MaxTransactions
      /\ current' = [current EXCEPT ![d] = i]
      /\ transactions' = Append(transactions,
           [ db |-> d, page |-> page, locked |-> locked, writes |-> 1,
             phase |-> "running", outcome |-> "none" ])
      /\ Batch(i, IF locked THEN <<"BEGIN", "WRITE">> ELSE <<"WRITE">>)
      /\ NoteOverlap(d)
      /\ UNCHANGED <<platform, page, handle, asked, calls>>
      /\ UNCHANGED <<table, monitor, crashed, sqliteVars, misused>>

Proceed(t, next, sqls) ==
  /\ transactions' = [transactions EXCEPT ![t.tx] = next]
  /\ tasks' = (tasks \ {t}) \cup
       {[Task("batch", t.db, "statement") EXCEPT !.tx = t.tx, !.sqls = sqls]}
  /\ UNCHANGED current

Report(t, outcome) ==
  /\ transactions' = [transactions EXCEPT ![t.tx].outcome = outcome]
  /\ tasks' = tasks \ {t}
  /\ current' = [current EXCEPT ![t.db] = 0]

\* A batch that had an error in it is followed by COMMIT all the same
BatchAnswerCommits(t) ==
  LET x == transactions[t.tx]
  IN  \/ /\ x.locked /\ x.phase = "running"
         /\ Proceed(t, [x EXCEPT !.phase = "finishing"], <<"COMMIT">>)
      \/ /\ ~x.locked \/ x.phase = "finishing"
         /\ Report(t, IF t.error THEN "error" ELSE "success")

\* A transaction that failed is reported without a rollback
BatchAnswerAborts(t) ==
  LET x == transactions[t.tx]
  IN  \/ x.locked /\ x.phase = "running" /\ t.error /\ Report(t, "error")
      \/ /\ x.locked /\ x.phase = "running" /\ ~t.error
         /\ Proceed(t, [x EXCEPT !.phase = "finishing"], <<"COMMIT">>)
      \/ /\ ~x.locked \/ x.phase = "finishing"
         /\ Report(t, IF t.error THEN "error" ELSE "success")

\* mycb, $finish and $abort
BatchAnswer(t) ==
  LET x == transactions[t.tx]
  IN  \/ /\ x.locked /\ x.phase = "running" /\ t.error
         /\ Proceed(t, [x EXCEPT !.phase = "aborting"], <<"ROLLBACK">>)
      \/ /\ x.locked /\ x.phase = "running" /\ ~t.error
         /\ \/ /\ x.writes = 1
               /\ Proceed(t, [x EXCEPT !.writes = 2], <<"WRITE">>)
            \/ Proceed(t, [x EXCEPT !.phase = "finishing"], <<"COMMIT">>)
      \/ /\ ~x.locked \/ x.phase = "finishing"
         /\ Report(t, IF t.error THEN "error" ELSE "success")
      \/ x.phase = "aborting" /\ Report(t, "error")

Answer(t) ==
  /\ ~crashed
  /\ t.pc = "done"
  /\ \/ /\ t.kind = "batch"
        /\ BatchAnswer(t)
        /\ UNCHANGED <<handle, asked>>
     \/ /\ t.kind # "batch"
        /\ asked' = asked \ {t.db}
        /\ handle' = IF t.kind = "open" THEN [handle EXCEPT ![t.db] = "open"]
                     ELSE handle
        /\ tasks' = tasks \ {t}
        /\ UNCHANGED <<current, transactions>>
  /\ UNCHANGED <<platform, page, calls, table, monitor, crashed, sqliteVars, history>>

\* Another page is loaded: openDBs, txLocks and the callbacks are gone, with
\* those of its workers; the native side is not told
Reload ==
  /\ ~crashed
  /\ page <= MaxReloads
  /\ page' = page + 1
  /\ handle' = [d \in Databases |-> Closed]
  /\ asked' = {}
  /\ current' = [d \in Databases |-> 0]
  /\ tasks' = {t \in tasks : Running(t)}
  /\ UNCHANGED <<platform, transactions, calls, table, monitor, crashed, sqliteVars, history>>

-----------------------------------------------------------------------------
(***************************************************************************)
(* openWithOptions: look the connection up; if there is none, make one;    *)
(* put it into the dictionary.                                             *)
(***************************************************************************)

NativeStep(t) ==
  /\ t \in tasks /\ MayStep(t)
  /\ UNCHANGED <<platform, pageVars, overlap>>

OpenLookup(t) ==
  /\ NativeStep(t) /\ t.pc = "lookup"
  /\ Become(t, [t EXCEPT !.pc = IF ObjectForKey(t.db) # 0 THEN "done" ELSE "connect"])
  /\ UNCHANGED <<table, monitor, crashed, sqliteVars, misused>>

\* sqlite3_open creates the file if there is none
OpenConnect(t) ==
  LET file == IF path[t.db] = 0 THEN Len(files) + 1 ELSE path[t.db]
  IN  /\ NativeStep(t) /\ t.pc = "connect"
      /\ path' = [path EXCEPT ![t.db] = file]
      /\ files' = IF file > Len(files) THEN Append(files, {}) ELSE files
      /\ connections' = Append(connections,
           [ db |-> t.db, file |-> file, open |-> TRUE, begun |-> 0, writes |-> {} ])
      /\ Become(t, [t EXCEPT !.pc = "set", !.conn = Len(connections')])
      /\ UNCHANGED <<table, monitor, crashed, misused>>

OpenSet(t) ==
  /\ NativeStep(t) /\ t.pc = "set"
  /\ SetObject(t.db, t.conn)
  /\ Become(t, [t EXCEPT !.pc = "done"])
  /\ UNCHANGED <<monitor, crashed, sqliteVars, misused>>

-----------------------------------------------------------------------------
(***************************************************************************)
(* closeNow and deleteNow.  To close a connection rolls back what is not   *)
(* committed.  deleteNow does not close the connection, so that it is      *)
(* never closed; the DBRunner of Android does.                             *)
(***************************************************************************)

Disposed(c) == [c EXCEPT !.open = FALSE, !.begun = 0, !.writes = {}]

CloseConnection(t) ==
  LET c == ObjectForKey(t.db)
  IN  /\ NativeStep(t) /\ t.pc = "close"
      /\ IF c = 0
         THEN /\ Become(t, [t EXCEPT !.pc = "done"])
              /\ UNCHANGED connections
         ELSE /\ connections' = [connections EXCEPT ![c] = Disposed(connections[c])]
              /\ Become(t, [t EXCEPT !.pc = "remove"])
      /\ UNCHANGED <<table, monitor, crashed, path, files, misused>>

DeleteFile(t) ==
  LET c == ObjectForKey(t.db)
  IN  /\ NativeStep(t) /\ t.pc = "delete"
      /\ path' = [path EXCEPT ![t.db] = 0]
      /\ Become(t, [t EXCEPT !.pc =
           IF path[t.db] # 0 \/ platform = "android" THEN "remove" ELSE "done"])
      /\ connections' = IF platform = "android" /\ c # 0
                        THEN [connections EXCEPT ![c] = Disposed(connections[c])]
                        ELSE connections
      /\ UNCHANGED <<table, monitor, crashed, files, misused>>

Remove(t) ==
  /\ NativeStep(t) /\ t.pc = "remove"
  /\ RemoveObject(t.db)
  /\ Become(t, [t EXCEPT !.pc = "done"])
  /\ UNCHANGED <<monitor, crashed, sqliteVars, misused>>

-----------------------------------------------------------------------------
(***************************************************************************)
(* sqlBatchWithOptions and executeSql.  Each statement looks the           *)
(* connection up.  An error does not keep the rest of the batch from       *)
(* being executed.                                                         *)
(***************************************************************************)

\* The batch is inside @synchronized, or enters it
Inside(t) == platform = "ios" => monitor \in {NoTask, t.id}

IsOpen(c) == c # 0 /\ connections[c].open

\* Another connection has written to the file and not committed
Busy(c) ==
  \E e \in 1 .. Len(connections) :
    /\ e # c /\ connections[e].file = connections[c].file
    /\ connections[e].writes # {}

\* The connections and the files as a statement leaves them, if it succeeds
Effect(c, t) ==
  LET k    == connections[c]
      f    == k.file
      sql  == Head(t.sqls)
      w    == <<t.tx, Cardinality({x \in k.writes \cup files[f] : x[1] = t.tx}) + 1>>
      with(r) == connections' = [connections EXCEPT ![c] = r]
  IN  \/ /\ sql = "BEGIN" /\ k.begun = 0
         /\ with([k EXCEPT !.begun = t.tx])
         /\ UNCHANGED files
      \/ /\ sql = "WRITE" /\ ~Busy(c) /\ k.begun # 0
         /\ with([k EXCEPT !.writes = @ \cup {w}])
         /\ UNCHANGED files
      \/ /\ sql = "WRITE" /\ ~Busy(c) /\ k.begun = 0
         /\ files' = [files EXCEPT ![f] = @ \cup {w}]
         /\ UNCHANGED connections
      \/ /\ sql = "COMMIT" /\ k.begun # 0
         /\ files' = [files EXCEPT ![f] = @ \cup k.writes]
         /\ with([k EXCEPT !.begun = 0, !.writes = {}])
      \/ /\ sql = "ROLLBACK" /\ k.begun # 0
         /\ with([k EXCEPT !.begun = 0, !.writes = {}])
         /\ UNCHANGED files

Refused(c, sql) ==
  \/ sql = "BEGIN" /\ connections[c].begun # 0
  \/ sql = "WRITE"      \* of a statement itself, or since the file is busy
  \/ sql \in {"COMMIT", "ROLLBACK"} /\ connections[c].begun = 0
  \/ sql = "COMMIT" /\ "keep" \in CommitFailures   \* a deferred constraint, a lock

\* A COMMIT that fails with the transaction undone, as after an I/O error
Undone(c, sql) ==
  /\ sql = "COMMIT" /\ "undo" \in CommitFailures
  /\ connections[c].begun # 0
  /\ connections' = [connections EXCEPT ![c] = [@ EXCEPT !.begun = 0, !.writes = {}]]
  /\ UNCHANGED files

\* The end of the batch is reached without leaving @synchronized
LeaveKeepsMonitor(t, error) ==
  LET last == Len(t.sqls) = 1
  IN  /\ Become(t, [t EXCEPT !.sqls = Tail(@), !.error = @ \/ error,
                             !.pc = IF last THEN "done" ELSE "statement"])
      /\ monitor' = IF platform = "ios" THEN t.id ELSE NoTask

\* The next statement of the batch, and the end of the batch after the last
Leave(t, error) ==
  LET last == Len(t.sqls) = 1
  IN  /\ Become(t, [t EXCEPT !.sqls = Tail(@), !.error = @ \/ error,
                             !.pc = IF last THEN "done" ELSE "statement"])
      /\ monitor' = IF last \/ platform = "android" THEN NoTask ELSE t.id

ExecuteSql(t) ==
  LET c == ObjectForKey(t.db)
  IN  /\ NativeStep(t) /\ t.pc = "statement" /\ Inside(t)
      /\ IsOpen(c)
      /\ \/ Effect(c, t) /\ Leave(t, FALSE)
         \/ /\ Refused(c, Head(t.sqls)) /\ Leave(t, TRUE)
            /\ UNCHANGED <<connections, files>>
         \/ Undone(c, Head(t.sqls)) /\ Leave(t, TRUE)
      /\ UNCHANGED <<table, crashed, path, misused>>

\* There is no connection, or a closed one: iOS hands SQLite a null pointer or
\* one that is not valid any more; Android does not answer the page
ExecuteNowhere(t) ==
  LET c == ObjectForKey(t.db)
  IN  /\ NativeStep(t) /\ t.pc = "statement" /\ Inside(t)
      /\ ~IsOpen(c)
      /\ misused' = misused \cup {t.db}
      /\ crashed' = (platform = "ios")
      /\ Become(t, [t EXCEPT !.pc = "lost"])
      /\ monitor' = NoTask
      /\ UNCHANGED <<table, sqliteVars>>

-----------------------------------------------------------------------------
Native(t) ==
  \/ OpenLookup(t) \/ OpenConnect(t) \/ OpenSet(t)
  \/ CloseConnection(t) \/ DeleteFile(t) \/ Remove(t)
  \/ ExecuteSql(t) \/ ExecuteNowhere(t)

Next ==
  \/ \E d \in Databases :
       Open(d) \/ Close(d) \/ Delete(d) \/ \E locked \in BOOLEAN : Transact(d, locked)
  \/ Reload
  \/ \E t \in tasks : Native(t) \/ Answer(t)

Spec == Init /\ [][Next]_vars

-----------------------------------------------------------------------------
(***************************************************************************)
(* Properties.                                                             *)
(***************************************************************************)

Tasks ==
  [ id : Nat \ {0}, kind : {"open", "close", "delete", "batch"}, db : Databases,
    page : 1 .. page,
    pc : {"lookup", "connect", "set", "close", "delete", "remove", "statement",
          "done", "lost"},
    conn : 0 .. Len(connections), tx : 0 .. Len(transactions),
    sqls : Seq(Sqls), error : BOOLEAN ]

\* The type invariant: connections, files and transactions that are named
\* exist, and only a batch task is inside @synchronized
TypeOK ==
  /\ platform \in Platforms
  /\ handle \in [Databases -> {Closed, "init", "open"}]
  /\ asked \subseteq Databases /\ overlap \subseteq Databases /\ misused \subseteq Databases
  /\ current \in [Databases -> 0 .. Len(transactions)]
  /\ tasks \subseteq Tasks
  /\ table \in [Databases -> 0 .. Len(connections)]
  /\ path \in [Databases -> 0 .. Len(files)]
  /\ monitor # NoTask => \E t \in tasks : t.id = monitor /\ t.kind = "batch"
  /\ \A c \in 1 .. Len(connections) :
       /\ connections[c].file \in 1 .. Len(files)
       /\ connections[c].begun \in 0 .. Len(transactions)
       /\ connections[c].writes \subseteq Writes
  /\ \A f \in 1 .. Len(files) : files[f] \subseteq Writes

\* A statement is executed on a connection that is open, although close and
\* delete tasks are not kept apart from batches: the lock of transactions in
\* JavaScript is enough for a page that waits for its answers.  It is not after
\* a reload, if a call of the page before is still carried out.
StatementsHaveConnection == misused \subseteq overlap

\* Every open connection is the one in the table, unless a task is about to put
\* it there, the database was deleted with the connection open (README.md,
\* known issue), or two pages' calls overlapped.  So two tasks do not open the
\* same file twice.
ConnectionsAreInTable ==
  \A c \in 1 .. Len(connections) :
    LET k == connections[c]
    IN  k.open =>
          \/ table[k.db] = c
          \/ path[k.db] # k.file
          \/ \E t \in tasks : t.pc = "set" /\ t.conn = c
          \/ k.db \in overlap

\* On iOS a batch of an old page may be executed behind one of the new page
OldBatchMayBeLate(d) == platform = "ios" /\ d \in overlap

Committed(i) == {w \in UNION {files[f] : f \in 1 .. Len(files)} : w[1] = i}

\* A transaction of a page that is gone, and that had not sent COMMIT, is not
\* committed by what later pages do, in particular by the transaction whose
\* BEGIN fails since that one is open.  On iOS it can be if its last batch was
\* still out when the new page made a call.
UnfinishedIsNotCommitted ==
  \A i \in TransactionIds :
    LET x == transactions[i]
    IN  x.locked /\ x.page # page /\ x.phase # "finishing" =>
          Committed(i) = {} \/ OldBatchMayBeLate(x.db)

\* The last transaction on the database before i may have been left open: its
\* page was gone before it ended, or its COMMIT failed
LeftOpenBefore(i) ==
  LET Locked(j) == transactions[j].locked /\ transactions[j].db = transactions[i].db
  IN  \E j \in 1 .. i - 1 :
        /\ Locked(j) /\ \A k \in j + 1 .. i - 1 : ~Locked(k)
        /\ \/ transactions[j].outcome = "none"
           \/ transactions[j].phase = "finishing" /\ transactions[j].outcome = "error"

\* A transaction that was reported as successful is in the file, with all its
\* writes; so is an executeSql() call, unless the transaction before it may have
\* been left open: then it may be executed inside that one, and is lost with it
\* (README.md, data loss risk).  On iOS, after two reloads, a late open of an old
\* page can put another connection into the table in the middle of a
\* transaction, and its COMMIT ends what a late batch has begun there.
SuccessIsDurable ==
  \A i \in TransactionIds :
    LET x == transactions[i]
    IN  x.outcome = "success" /\ (x.locked \/ ~LeftOpenBefore(i)) =>
          Cardinality(Committed(i)) = x.writes \/ OldBatchMayBeLate(x.db)

\* A transaction that was reported as failed has left nothing in the file, also
\* one that began inside the transaction of an old page.
ErrorLeavesNothing ==
  \A i \in TransactionIds :
    LET x == transactions[i]
    IN  x.outcome = "error" =>
          Committed(i) = {} \/ OldBatchMayBeLate(x.db)

\* The first transaction of a new page ends what the old page left open (it
\* fails, as the self test expects, and the next one does not): after it the
\* connection is not inside an old page's transaction.
FirstTransactionRecovers ==
  \A i \in TransactionIds :
    LET x == transactions[i]
        c == table[x.db]
    IN  /\ x.locked /\ x.outcome # "none" /\ x.page = page
        /\ c # 0 /\ x.db \notin overlap
        => \/ connections[c].begun = 0
           \/ transactions[connections[c].begun].page = page

=============================================================================
