---------------------------- MODULE StatementBatch ----------------------------
(***************************************************************************)
(* The way of statement batches: from run() and run_batch() of             *)
(* www/SQLitePlugin.js to the native side, which executes them one after   *)
(* the other, and back through mycb to the handlers, the last of which     *)
(* decides how the transaction goes on.                                    *)
(*                                                                         *)
(* There are several contexts, the page and web workers, each with one     *)
(* transaction of the kind transaction() or sqlBatch().  The page hands a  *)
(* batch over in one call; a worker sends it in parts, as requests that    *)
(* the native side puts together in batchmap.  A worker may be terminated, *)
(* for good.  What the statements do to the database, and the lock, are in *)
(* SQLitePlugin.                                                           *)
(*                                                                         *)
(* mycb runs in one task, so a delivery is one action.                     *)
(***************************************************************************)
EXTENDS Integers, Sequences, FiniteSets, FlatResults

CONSTANTS
  Contexts,       \* the JavaScript contexts
  Workers,        \* those that are web workers
  Platforms,      \* the native sides to look at, a subset of {"android", "ios"}
  MaxSqlChunk,    \* MAX_SQL_CHUNK
  Chunking,       \* contexts whose script has it; the others' has 0, as shipped
  MaxPartSize,    \* MAX_PART_SIZE, in tokens
  MaxTransactions, \* bound: transactions started
  MaxStatements,  \* bound: user statements added in all
  MaxParams,      \* parameters of a user statement
  Terminates,     \* workers that may be terminated
  LateFailures    \* a statement may fail behind its first row

ASSUME StatementBatchAssumption ==
  /\ Workers \subseteq Contexts
  /\ Platforms \subseteq {"android", "ios"}
  /\ MaxSqlChunk \in Nat \ {0} /\ Chunking \subseteq Contexts
  /\ MaxPartSize \in Nat \ {0}
  /\ MaxTransactions \in Nat /\ MaxStatements \in Nat /\ MaxParams \in Nat
  /\ Terminates \subseteq Workers /\ LateFailures \in BOOLEAN

VARIABLES
  platform,    \* which native side it is
  \* ------ JavaScript: the transaction of each context
  status,      \* "new", "running", "done", "stuck" in an endless loop, or
               \*   "gone" with its worker
  users,       \* user statements added in all (for the bound)
  added,       \* number of statements given to addStatement so far
  executes,    \* tx.executes: statements not sent
  batches,     \* the batches run() has made: their statements, as long as their
               \*   handlers are not called
  finalized,   \* tx.finalized
  unrecovered, \* statements that failed, unless an error handler returned false
  reports,     \* final callbacks made to the application
  aqcbmap,     \* for each callback id the batch it belongs to, or 0
  \* ------ on the way
  requests,    \* requests of each context, not processed
  answers,     \* answers to each context, not delivered
  \* ------ the native side
  batchmap,    \* batches under construction, by batch id
  queue,       \* batches to execute
  executing,   \* the batch being executed, if any
  executed     \* statements of each context that were executed

txVars == <<status, users, added, executes, batches, finalized, unrecovered, reports>>
nativeVars == <<batchmap, queue, executing, executed>>
vars == <<platform, txVars, aqcbmap, requests, answers, nativeVars>>

\* A statement is its number in the transaction and what it is; on the native
\* side, whose it is too.  Workers are registered with unique names: a context
\* stands for its name.
Kinds == {"BEGIN", "user", "COMMIT", "ROLLBACK"}
ParamCount(sql) == IF sql[2] = "user" THEN MaxParams ELSE 0
Users(n) == [i \in 1..n |-> "user"]

Init ==
  /\ platform \in Platforms
  /\ status = [c \in Contexts |-> "new"]
  /\ users = 0
  /\ added = [c \in Contexts |-> 0]
  /\ executes = [c \in Contexts |-> << >>]
  /\ batches = [c \in Contexts |-> << >>]
  /\ finalized = [c \in Contexts |-> FALSE]
  /\ unrecovered = [c \in Contexts |-> {}]
  /\ reports = [c \in Contexts |-> << >>]
  /\ aqcbmap = [c \in Contexts |-> << >>]
  /\ requests = [c \in Contexts |-> << >>]
  /\ answers = [c \in Contexts |-> << >>]
  /\ batchmap = << >>
  /\ queue = << >>
  /\ executing = {}
  /\ executed = [c \in Contexts |-> << >>]

-----------------------------------------------------------------------------
(* addStatement(), run() and run_batch().                                  *)

\* Mutant of BatchId: the handler name is left out.
BatchIdBare(h, b) == <<"", b>>

\* aqcbhandlername + '.' + batchid.
BatchId(h, b) == <<h, b>>

\* The requests that a batch is sent by, cbid being the last callback id used.
Messages(c, b, stmts, cbid) ==
  LET flat == FlatList([i \in DOMAIN stmts |-> <<c>> \o stmts[i]],
                       [i \in DOMAIN stmts |-> ParamCount(stmts[i])])
      parts == PartCount(flat, MaxPartSize)
      id == BatchId(c, b)
  IN IF c \notin Workers
     THEN <<[op |-> "batch", flen |-> Len(stmts), flatlist |-> flat,
             to |-> c, cbid |-> cbid + 1]>>
     ELSE <<[op |-> "batchStart", id |-> id, flen |-> Len(stmts)]>>
          \o [i \in 1..parts |->
                [op |-> "batchPart", id |-> id, part |-> Part(flat, MaxPartSize, i)]]
          \o <<[op |-> "batchRun", id |-> id,
                to |-> c, cbid |-> cbid + parts + 2]>>

\* Mutant of CallbackIds: batchid is counted after it is used.
CallbackIdsEarly(b, messages) ==
  [i \in DOMAIN messages |-> IF i = Len(messages) THEN b + 1 ELSE 0]

\* Every request takes a callback id; only the last one's callback is mycb.
CallbackIds(b, messages) ==
  [i \in DOMAIN messages |-> IF i = Len(messages) THEN b ELSE 0]

\* run() for each of lists, ids being the callback ids before.
Send(c, lists, ids) ==
  LET sent[k \in 0..Len(lists)] ==
        IF k = 0 THEN [messages |-> requests[c], ids |-> ids]
        ELSE LET b == Len(batches[c]) + k
                 ms == Messages(c, b, lists[k], Len(sent[k - 1].ids))
             IN [messages |-> sent[k - 1].messages \o ms,
                 ids      |-> sent[k - 1].ids \o CallbackIds(b, ms)]
  IN /\ requests' = [requests EXCEPT ![c] = sent[Len(lists)].messages]
     /\ aqcbmap' = [aqcbmap EXCEPT ![c] = sent[Len(lists)].ids]

\* What addStatement() for each of kinds makes of executes: whenever more than
\* MAX_SQL_CHUNK statements wait, it calls run().
Waiting(c, kinds) ==
  executes[c] \o [i \in DOMAIN kinds |-> <<added[c] + i, kinds[i]>>]
ChunkCount(c, stmts) ==
  IF c \in Chunking THEN Len(stmts) \div (MaxSqlChunk + 1) ELSE 0
Chunks(c, stmts) ==
  LET size == MaxSqlChunk + 1 IN
  [k \in 1..ChunkCount(c, stmts) |-> SubSeq(stmts, (k - 1) * size + 1, k * size)]
Rest(c, stmts) ==
  SubSeq(stmts, ChunkCount(c, stmts) * (MaxSqlChunk + 1) + 1, Len(stmts))

\* Statements of these kinds are added, and run() is called behind them if runs;
\* the handlers of batch b have been called.
Submit(c, kinds, runs, b) ==
  LET stmts == Waiting(c, kinds)
      lists == Chunks(c, stmts) \o IF runs THEN <<Rest(c, stmts)>> ELSE << >>
      others == [i \in DOMAIN batches[c] |-> IF i = b THEN << >> ELSE batches[c][i]]
  IN /\ added' = [added EXCEPT ![c] = @ + Len(kinds)]
     /\ executes' = [executes EXCEPT ![c] = IF runs THEN << >> ELSE Rest(c, stmts)]
     /\ batches' = [batches EXCEPT ![c] = others \o lists]
     /\ Send(c, lists, [i \in DOMAIN aqcbmap[c] |->
                          IF aqcbmap[c][i] = b THEN 0 ELSE aqcbmap[c][i]])

\* The transaction function adds its statements behind BEGIN, and start() calls
\* run() if some are left.
Start(c) ==
  /\ status[c] = "new"
  /\ Cardinality({d \in Contexts : status[d] # "new"}) < MaxTransactions
  /\ \E n \in 0..MaxStatements - users :
       LET kinds == <<"BEGIN">> \o Users(n) IN
       /\ users' = users + n
       /\ Submit(c, kinds, Rest(c, Waiting(c, kinds)) # << >>, 0)
  /\ status' = [status EXCEPT ![c] = "running"]
  /\ UNCHANGED <<platform, finalized, unrecovered, reports, answers, nativeVars>>

\* A worker is terminated during its transaction.  Of the requests it has made,
\* the first few may still be processed.
Terminate(c) ==
  /\ c \in Terminates /\ status[c] = "running"
  /\ status' = [status EXCEPT ![c] = "gone"]
  /\ executes' = [executes EXCEPT ![c] = << >>]
  /\ batches' = [batches EXCEPT ![c] = << >>]
  /\ aqcbmap' = [aqcbmap EXCEPT ![c] = << >>]
  /\ answers' = [answers EXCEPT ![c] = << >>]
  /\ \E n \in 0..Len(requests[c]) :
       requests' = [requests EXCEPT ![c] = SubSeq(@, 1, n)]
  /\ UNCHANGED <<platform, users, added, finalized, unrecovered, reports, nativeVars>>

-----------------------------------------------------------------------------
(* The native side takes requests. *)

Enqueue(msg, flen, flatlist) ==
  queue' = Append(queue, [to |-> msg.to, cbid |-> msg.cbid,
                          todo |-> Statements(flatlist, flen),
                          results |-> << >>, outcomes |-> << >>])

\* The page's call of backgroundExecuteSqlBatch.
TakeBatch(msg) ==
  /\ msg.op = "batch"
  /\ Enqueue(msg, msg.flen, msg.flatlist)
  /\ UNCHANGED batchmap

TakeStart(msg) ==
  /\ msg.op = "batchStart"
  /\ batchmap' = [id \in DOMAIN batchmap \cup {msg.id} |->
                    IF id = msg.id THEN [flen |-> msg.flen, flatlist |-> << >>]
                    ELSE batchmap[id]]
  /\ UNCHANGED queue

\* A part without a batch raises an exception that remapUri() swallows.
TakePart(msg) ==
  /\ msg.op = "batchPart"
  /\ batchmap' = [id \in DOMAIN batchmap |->
                    IF id = msg.id
                    THEN [batchmap[id] EXCEPT !.flatlist = @ \o msg.part]
                    ELSE batchmap[id]]
  /\ UNCHANGED queue

\* ... and so does a run.
TakeRun(msg) ==
  /\ msg.op = "batchRun"
  /\ batchmap' = [id \in DOMAIN batchmap \ {msg.id} |-> batchmap[id]]
  /\ IF msg.id \in DOMAIN batchmap
     THEN Enqueue(msg, batchmap[msg.id].flen, batchmap[msg.id].flatlist)
     ELSE UNCHANGED queue

\* Requests of one context are taken in order.  On iOS those of a worker are
\* taken in canInitWithRequest, which executes a batch before it returns.
TakeRequest(c) ==
  /\ requests[c] # << >>
  /\ (platform = "ios" /\ c \in Workers) =>
       \A b \in Range(queue) \cup executing : b.to # c
  /\ LET msg == Head(requests[c]) IN
       TakeBatch(msg) \/ TakeStart(msg) \/ TakePart(msg) \/ TakeRun(msg)
  /\ requests' = [requests EXCEPT ![c] = Tail(@)]
  /\ UNCHANGED <<platform, txVars, aqcbmap, answers, executing, executed>>

-----------------------------------------------------------------------------
(* ... and executes batches, one at a time. *)

\* Android has a queue for the database; on iOS the background blocks compete
\* for the lock.
TakeFromQueue ==
  /\ executing = {}
  /\ \E k \in DOMAIN queue :
       /\ platform = "android" => k = 1
       /\ executing' = {queue[k]}
       /\ queue' = RemoveAt(queue, k)
  /\ UNCHANGED <<platform, txVars, aqcbmap, requests, answers, batchmap, executed>>

Outcomes(sql) ==
  IF sql[3] # "user" THEN {<<"changes", 0>>, <<"error", 0>>}
  ELSE {<<"changes", 1>>, <<"rows", 1>>, <<"error", 0>>}
         \cup IF LateFailures THEN {<<"late", 1>>} ELSE {}

\* Mutant of Result: an exception of a failed statement is swallowed.
ResultSkipsErrors(b, outcome) ==
  [b EXCEPT !.todo = Tail(@),
            !.results = IF outcome[1] = "error" THEN @ ELSE @ \o Encode(outcome, platform),
            !.outcomes = Append(@, outcome)]

\* What is added to the results, and what really happened.
Result(b, outcome) ==
  [b EXCEPT !.todo = Tail(@), !.results = @ \o Encode(outcome, platform),
            !.outcomes = Append(@, outcome)]

\* executeSqlStatement, executeSql: a failed one does not keep the next from
\* being executed.
ExecuteStatement ==
  /\ \E b \in executing :
       /\ b.todo # << >>
       /\ LET c == Head(b.todo)[1] sql == Tail(Head(b.todo)) IN
            \E outcome \in Outcomes(Head(b.todo)) :
              /\ executed' = [executed EXCEPT ![c] = Append(@, sql)]
              /\ unrecovered' = [unrecovered EXCEPT ![c] =
                                   IF outcome[1] \in {"error", "late"} THEN @ \cup {sql} ELSE @]
              /\ executing' = {Result(b, outcome)}
  /\ UNCHANGED <<platform, status, users, added, executes, batches, finalized, reports,
                 aqcbmap, requests, answers, batchmap, queue>>

\* The results go to $AQCB[handler], and from there to the worker that is
\* registered by this name; or back to the page.
AnswerBatch ==
  /\ \E b \in executing :
       /\ b.todo = << >>
       /\ executing' = {}
       /\ answers' = [c \in Contexts |->
                       IF c = b.to /\ status[c] # "gone"
                       THEN Append(answers[c], [cbid |-> b.cbid, results |-> b.results,
                                                outcomes |-> b.outcomes])
                       ELSE answers[c]]
  /\ UNCHANGED <<platform, txVars, aqcbmap, requests, batchmap, queue, executed>>

-----------------------------------------------------------------------------
(* mycb, and the handlers run() has made. *)

Sqls(c, b, calls, what) ==
  {batches[c][b][calls[i][1]] :
     i \in {j \in DOMAIN calls : (calls[j][2][1] = "error") = (what = "error")}}

Kind(stmts) == {s[2] : s \in stmts}

\* Whether some handler throws: BEGIN has an error handler that does; a handler
\* of the application may, and an error handler by not returning false.
Throws(c, b, calls) ==
  LET failed == Sqls(c, b, calls, "error")
      succeeded == Sqls(c, b, calls, "success")
  IN {t \in BOOLEAN :
        IF t THEN "BEGIN" \in Kind(failed) \/ Kind(failed \cup succeeded) # {"BEGIN"}
        ELSE "BEGIN" \notin Kind(failed)}

\* Statements the handlers add; executeSql() refuses when finalized.
MoreStatements(c, b, calls) ==
  IF finalized[c] \/ \A i \in DOMAIN calls : batches[c][b][calls[i][1]][2] # "user"
  THEN {0}
  ELSE 0..MaxStatements - users

\* The last handler has been called, waiting is 0.
AllCalled(c, b, calls) == batches[c][b] # << >> /\ Len(calls) >= Len(batches[c][b])

\* Mutant of Decide: a failure is looked at only when nothing waits.
DecideRunsFirst(c, b, calls, throws, n) ==
  LET left == Rest(c, Waiting(c, Users(n))) # << >> IN
  \/ /\ AllCalled(c, b, calls) => finalized[c] /\ (throws \/ ~left)
     /\ Submit(c, Users(n), FALSE, b)
     /\ UNCHANGED finalized
  \/ /\ AllCalled(c, b, calls) /\ throws /\ ~left /\ ~finalized[c]
     /\ finalized' = [finalized EXCEPT ![c] = TRUE]
     /\ Submit(c, Append(Users(n), "ROLLBACK"), TRUE, b)
  \/ /\ AllCalled(c, b, calls) /\ left
     /\ Submit(c, Users(n), TRUE, b)
     /\ UNCHANGED finalized
  \/ /\ AllCalled(c, b, calls) /\ ~throws /\ ~left /\ ~finalized[c]
     /\ finalized' = [finalized EXCEPT ![c] = TRUE]
     /\ Submit(c, Append(Users(n), "COMMIT"), TRUE, b)

\* Mutant of Decide: $abort and $finish do not look at finalized.
DecideTwice(c, b, calls, throws, n) ==
  LET left == Rest(c, Waiting(c, Users(n))) # << >> IN
  \/ /\ ~AllCalled(c, b, calls)
     /\ Submit(c, Users(n), FALSE, b)
     /\ UNCHANGED finalized
  \/ /\ AllCalled(c, b, calls) /\ throws
     /\ finalized' = [finalized EXCEPT ![c] = TRUE]
     /\ Submit(c, Append(Users(n), "ROLLBACK"), TRUE, b)
  \/ /\ AllCalled(c, b, calls) /\ ~throws /\ left
     /\ Submit(c, Users(n), TRUE, b)
     /\ UNCHANGED finalized
  \/ /\ AllCalled(c, b, calls) /\ ~throws /\ ~left
     /\ finalized' = [finalized EXCEPT ![c] = TRUE]
     /\ Submit(c, Append(Users(n), "COMMIT"), TRUE, b)

\* How the last handler goes on: $abort, run(), or $finish; $abort and $finish
\* return when the transaction is finalized.
Decide(c, b, calls, throws, n) ==
  LET left == Rest(c, Waiting(c, Users(n))) # << >> IN
  \/ /\ AllCalled(c, b, calls) => finalized[c] /\ (throws \/ ~left)
     /\ Submit(c, Users(n), FALSE, b)
     /\ UNCHANGED finalized
  \/ /\ AllCalled(c, b, calls) /\ throws /\ ~finalized[c]
     /\ finalized' = [finalized EXCEPT ![c] = TRUE]
     /\ Submit(c, Append(Users(n), "ROLLBACK"), TRUE, b)
  \/ /\ AllCalled(c, b, calls) /\ ~throws /\ left
     /\ Submit(c, Users(n), TRUE, b)
     /\ UNCHANGED finalized
  \/ /\ AllCalled(c, b, calls) /\ ~throws /\ ~left /\ ~finalized[c]
     /\ finalized' = [finalized EXCEPT ![c] = TRUE]
     /\ Submit(c, Append(Users(n), "COMMIT"), TRUE, b)

\* What the handlers of COMMIT and ROLLBACK tell the application.
Told(c, b, calls) ==
  LET ended == {"COMMIT", "ROLLBACK"} \cap Kind(Sqls(c, b, calls, "error")) IN
  IF ended # {} \/ "ROLLBACK" \in Kind(Sqls(c, b, calls, "success")) THEN <<"error">>
  ELSE IF "COMMIT" \in Kind(Sqls(c, b, calls, "success")) THEN <<"success">>
  ELSE << >>

\* The answer of a batch is delivered.
Deliver(c) ==
  /\ answers[c] # << >>
  /\ status[c] \in {"running", "done"}
  /\ LET b == aqcbmap[c][Head(answers[c]).cbid]
         walk == Walk(Head(answers[c]).results, Len(batches[c][b]))
     IN /\ \E throws \in Throws(c, b, walk.calls), n \in MoreStatements(c, b, walk.calls) :
             /\ Decide(c, b, walk.calls, throws, n)
             /\ users' = users + n
             /\ unrecovered' = [unrecovered EXCEPT ![c] =
                                  IF throws THEN @ ELSE @ \ Sqls(c, b, walk.calls, "error")]
        /\ reports' = [reports EXCEPT ![c] = @ \o Told(c, b, walk.calls)]
        /\ status' = [status EXCEPT ![c] =
                        IF walk.end = "loops" THEN "stuck"
                        ELSE IF Told(c, b, walk.calls) # << >> THEN "done" ELSE @]
  /\ answers' = [answers EXCEPT ![c] = Tail(@)]
  /\ UNCHANGED <<platform, nativeVars>>

-----------------------------------------------------------------------------
Native == TakeFromQueue \/ ExecuteStatement \/ AnswerBatch

Next ==
  \/ \E c \in Contexts : Start(c) \/ Terminate(c) \/ TakeRequest(c) \/ Deliver(c)
  \/ Native

Spec == Init /\ [][Next]_vars

-----------------------------------------------------------------------------
(* Properties. *)

\* The type of every variable, and callback ids that belong to batches.
TypeOK ==
  /\ platform \in Platforms
  /\ status \in [Contexts -> {"new", "running", "done", "stuck", "gone"}]
  /\ users \in 0..MaxStatements
  /\ added \in [Contexts -> Nat]
  /\ executes \in [Contexts -> Seq(Nat \X Kinds)]
  /\ finalized \in [Contexts -> BOOLEAN]
  /\ reports \in [Contexts -> Seq({"success", "error"})]
  /\ aqcbmap \in [Contexts -> Seq(Nat)]
  /\ \A c \in Contexts : Range(aqcbmap[c]) \subseteq 0..Len(batches[c])

\* Batches of one transaction reach the database in the order they were sent:
\* as shipped there is only one at a time; Android has a queue.
InOrder(h) == h \notin Chunking \/ platform = "android"

\* Every handler is called once, in order, with what became of its own
\* statement.  (mycb finds the handler of a result by counting results.)
HandlersGetOwnResults ==
  \A c \in Contexts : \A k \in DOMAIN answers[c] :
    LET answer == answers[c][k]
        stmts == batches[c][aqcbmap[c][answer.cbid]]
    IN Walk(answer.results, Len(stmts)) =
         [calls |-> [i \in DOMAIN stmts |-> <<i, answer.outcomes[i]>>], end |-> "returns"]

\* The statements of a transaction are executed in the order they were added,
\* none twice and none left out, whatever batches and parts they travel in and
\* whichever workers come and go beside it.
ExecutedInOrder ==
  \A c \in Contexts : InOrder(c) => \A i \in DOMAIN executed[c] : executed[c][i][1] = i

\* When the application is told success, every statement has been executed, and
\* those that failed were recovered from.  (With MAX_SQL_CHUNK > 0 the first
\* chunk to be answered may commit before another one is looked at.)
SuccessIsComplete ==
  \A c \in Contexts \ Chunking :
    "success" \in Range(reports[c]) =>
      Len(executed[c]) = added[c] /\ unrecovered[c] = {}

\* The application is told the end once, and no statement is left behind it.
EndIsLast ==
  \A c \in Contexts :
    /\ Len(reports[c]) <= 1
    /\ reports[c] # << >> /\ InOrder(c) => executes[c] = << >> /\ Len(executed[c]) = added[c]

\* A transaction that has not ended has a batch on its way, so it will go on:
\* nothing is lost between JavaScript and the native side, and mycb returns.
RunningIsOnItsWay ==
  \A c \in Contexts : status[c] \in {"running", "stuck"} =>
    \/ requests[c] # << >> \/ answers[c] # << >>
    \/ \E b \in Range(queue) \cup executing : b.to = c

=============================================================================
