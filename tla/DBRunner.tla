------------------------------- MODULE DBRunner -------------------------------
(***************************************************************************)
(* The Android side of the plugin (io/sqlc/SQLitePlugin.java) for one      *)
(* database name: the requests that reach execute(), the static map        *)
(* dbrmap, and the DBRunner threads, each with a queue and a connection.   *)
(*                                                                         *)
(* A DBRunner is made by an open request and is named here by that         *)
(* request.  execute() is called on a bridge thread; it reads dbrmap and   *)
(* acts on what it found in a later step, since the runner, or another     *)
(* bridge thread, may change the map in between.  onDestroy() runs on a    *)
(* third kind of thread.                                                   *)
(*                                                                         *)
(* A batch is one request; what its statements do is in SQLitePlugin.      *)
(***************************************************************************)
EXTENDS Sequences, Functions

CONSTANTS
  Requests,   \* requests the application may make
  Bridges,    \* threads execute() is called on: the page's, a worker's
  None,       \* no runner, no request
  Stop,       \* the query onDestroy() puts into a queue
  OpenFails,  \* opening a connection may fail
  Destroys,   \* onDestroy() may be called
  Overlaps    \* what need not wait for what, a subset of AllOverlaps

AllOverlaps ==
  { "openOpening",     \* an open request, for an open request
    "callOpening",     \* any other request, for an open request
    "callClosing",     \* any request, for a close or delete request
    "retryOpen",       \* an open request is made again after one has failed
    "destroyOpening",  \* onDestroy(), for an open request and its runner
    "callDestroyed" }  \* requests go on after onDestroy() has begun

ASSUME DBRunnerAssumption ==
  /\ None \notin Requests /\ Stop \notin Requests /\ None # Stop
  /\ None \notin Bridges
  /\ OpenFails \in BOOLEAN /\ Destroys \in BOOLEAN
  /\ Overlaps \subseteq AllOverlaps

VARIABLES
  kind,        \* what each request asks for, "none" before it is made
  answers,     \* answers given to each request, in order
  bridge,      \* the request each bridge thread carries out, or None
  found,       \* the runner it has read from dbrmap
  dbrmap,      \* the runner in the map, or None
  pc,          \* where each runner is, see Places
  q,           \* the queue of each runner
  dbq,         \* the query each runner has taken
  connection,  \* of each runner: "none", "open" or "disposed"
  destroy      \* where onDestroy() is

callVars   == <<kind, answers>>
bridgeVars == <<bridge, found>>
runnerVars == <<pc, q, dbq, connection>>
vars == <<callVars, bridgeVars, dbrmap, runnerVars, destroy>>

Kinds == {"open", "close", "delete", "batch"}

Places ==
  { "none",     \* not created
    "start",    \* run() has not opened the connection
    "opened",   \* has a connection, the open is not answered
    "answered", \* ... is answered, mydbc is not assigned
    "failed",   \* the error is reported, the runner is still in the map
    "take",     \* waits for a query
    "execute",  \* has taken a batch
    "close", "remove", "answer",  \* has taken a close or delete request
    "end" }     \* the thread has ended

Init ==
  /\ kind = [r \in Requests |-> "none"]
  /\ answers = [r \in Requests |-> << >>]
  /\ bridge = [b \in Bridges |-> None]
  /\ found = [b \in Bridges |-> None]
  /\ dbrmap = None
  /\ pc = [r \in Requests |-> "none"]
  /\ q = [r \in Requests |-> << >>]
  /\ dbq = [r \in Requests |-> None]
  /\ connection = [r \in Requests |-> "none"]
  /\ destroy = "idle"

Reply(r, answer) == answers' = [answers EXCEPT ![r] = Append(@, answer)]

-----------------------------------------------------------------------------
(* Requests. *)

Unanswered(kinds) == \E r \in Requests : kind[r] \in kinds /\ answers[r] = << >>

\* Without Overlaps, the application makes a request only when every open,
\* close and delete before it is answered, and gives up after a failing open.
\* Batches go to a database that has been opened.
Allowed(k) ==
  /\ Unanswered({"open"}) =>
       (IF k = "open" THEN "openOpening" ELSE "callOpening") \in Overlaps
  /\ Unanswered({"close", "delete"}) => "callClosing" \in Overlaps
  /\ (k = "open" /\ \E r \in Requests : kind[r] = "open" /\ answers[r] = <<"error">>)
       => "retryOpen" \in Overlaps
  /\ destroy # "idle" => "callDestroyed" \in Overlaps
  /\ k = "batch" => \E r \in Requests : kind[r] = "open" /\ answers[r] = <<"success">>

\* execute() is called, and reads dbrmap.
Call(b, r, k) ==
  /\ bridge[b] = None
  /\ kind[r] = "none"
  /\ Allowed(k)
  /\ kind' = [kind EXCEPT ![r] = k]
  /\ bridge' = [bridge EXCEPT ![b] = r]
  /\ found' = [found EXCEPT ![b] = dbrmap]
  /\ UNCHANGED <<answers, dbrmap, runnerVars, destroy>>

Return(b) ==
  /\ bridge' = [bridge EXCEPT ![b] = None]
  /\ found' = [found EXCEPT ![b] = None]
  /\ UNCHANGED <<kind, destroy>>

\* Mutant of StartDatabase: always a new runner.
StartDatabaseAnew(b) ==
  /\ bridge[b] # None /\ kind[bridge[b]] = "open"
  /\ dbrmap' = bridge[b]
  /\ pc' = [pc EXCEPT ![bridge[b]] = "start"]
  /\ UNCHANGED <<answers, q, dbq, connection>>
  /\ Return(b)

\* startDatabase(): a runner that is there is used again, whatever it is about
\* to do; else a new one is put into the map and given to the thread pool.
StartDatabase(b) ==
  /\ bridge[b] # None /\ kind[bridge[b]] = "open"
  /\ IF found[b] # None
     THEN Reply(bridge[b], "success") /\ UNCHANGED <<dbrmap, pc>>
     ELSE /\ dbrmap' = bridge[b]
          /\ pc' = [pc EXCEPT ![bridge[b]] = "start"]
          /\ UNCHANGED answers
  /\ UNCHANGED <<q, dbq, connection>>
  /\ Return(b)

\* Mutant of PutQuery: the query is without its request.
PutQueryUnnamed(b) ==
  /\ bridge[b] # None /\ kind[bridge[b]] # "open"
  /\ found[b] # None
  /\ q' = [q EXCEPT ![found[b]] = Append(@, None)]
  /\ UNCHANGED <<answers, dbrmap, pc, dbq, connection>>
  /\ Return(b)

\* Mutant of PutQuery: a close is answered before it is carried out.
PutQueryAnswers(b) ==
  /\ bridge[b] # None /\ kind[bridge[b]] # "open"
  /\ found[b] # None
  /\ q' = [q EXCEPT ![found[b]] = Append(@, bridge[b])]
  /\ IF kind[bridge[b]] = "close" THEN Reply(bridge[b], "success") ELSE UNCHANGED answers
  /\ UNCHANGED <<dbrmap, pc, dbq, connection>>
  /\ Return(b)

\* A batch, a close or a delete goes into the queue of the runner that was
\* found, also when that one has ended in the meantime.
PutQuery(b) ==
  /\ bridge[b] # None /\ kind[bridge[b]] # "open"
  /\ found[b] # None
  /\ q' = [q EXCEPT ![found[b]] = Append(@, bridge[b])]
  /\ UNCHANGED <<answers, dbrmap, pc, dbq, connection>>
  /\ Return(b)

AnswersWithoutRunner(k) ==
  CASE k = "batch" -> {"error"}
    [] k = "close" -> {"success"}
    [] OTHER       -> {"success", "error"}

\* No runner: a batch is refused, a close has nothing to do, and a delete is
\* carried out at once.
AnswerWithoutRunner(b) ==
  /\ bridge[b] # None /\ kind[bridge[b]] # "open"
  /\ found[b] = None
  /\ \E answer \in AnswersWithoutRunner(kind[bridge[b]]) : Reply(bridge[b], answer)
  /\ UNCHANGED <<dbrmap, pc, q, dbq, connection>>
  /\ Return(b)

-----------------------------------------------------------------------------
(* DBRunner.run(). *)

\* mydbc of a runner is assigned, so others can dispose it.
HasMydbc(r) == connection[r] # "none" /\ pc[r] \notin {"opened", "answered"}

GoTo(r, place) == pc' = [pc EXCEPT ![r] = place]

OpenDatabase(r) ==
  /\ pc[r] = "start"
  /\ connection' = [connection EXCEPT ![r] = "open"]
  /\ GoTo(r, "opened")
  /\ UNCHANGED <<callVars, bridgeVars, dbrmap, q, dbq, destroy>>

\* ... answers before it returns the connection, ...
AnswerOpen(r) ==
  /\ pc[r] = "opened"
  /\ Reply(r, "success")
  /\ GoTo(r, "answered")
  /\ UNCHANGED <<kind, bridgeVars, dbrmap, q, dbq, connection, destroy>>

\* ... which run() assigns, and goes on to its queue.
AssignMydbc(r) ==
  /\ pc[r] = "answered"
  /\ GoTo(r, "take")
  /\ UNCHANGED <<callVars, bridgeVars, dbrmap, q, dbq, connection, destroy>>

\* Mutant of OpenDatabaseFails: run() does not return.
OpenDatabaseFailsGoesOn(r) ==
  /\ OpenFails
  /\ pc[r] = "start"
  /\ Reply(r, "error")
  /\ GoTo(r, "take")
  /\ UNCHANGED <<kind, bridgeVars, dbrmap, q, dbq, connection, destroy>>

\* The connection cannot be made: the error goes out first, ...
OpenDatabaseFails(r) ==
  /\ OpenFails
  /\ pc[r] = "start"
  /\ Reply(r, "error")
  /\ GoTo(r, "failed")
  /\ UNCHANGED <<kind, bridgeVars, dbrmap, q, dbq, connection, destroy>>

\* ... then run() removes what is in the map under its name, and returns.
RemoveFailed(r) ==
  /\ pc[r] = "failed"
  /\ dbrmap' = None
  /\ GoTo(r, "end")
  /\ UNCHANGED <<callVars, bridgeVars, q, dbq, connection, destroy>>

\* What run() does with a query; a stop that is no close just ends the thread.
PlaceFor(query) ==
  IF query = Stop THEN "end"
  ELSE IF kind[query] = "batch" THEN "execute" ELSE "close"

Take(r) ==
  /\ pc[r] = "take" /\ q[r] # << >>
  /\ q' = [q EXCEPT ![r] = Tail(@)]
  /\ dbq' = [dbq EXCEPT ![r] = Head(q[r])]
  /\ GoTo(r, PlaceFor(Head(q[r])))
  /\ UNCHANGED <<callVars, bridgeVars, dbrmap, connection, destroy>>

\* executeSqlBatch() answers with the results, which are errors when the
\* connection has been disposed.
ExecuteBatch(r) ==
  /\ pc[r] = "execute"
  /\ Reply(dbq[r], "success")
  /\ GoTo(r, "take")
  /\ UNCHANGED <<kind, bridgeVars, dbrmap, q, dbq, connection, destroy>>

\* Mutant of Dispose: nothing is disposed.
DisposeNothing == UNCHANGED connection

\* closeDatabaseNow(dbname): disposes the connection of the runner that is in
\* the map, if it is assigned.
Dispose ==
  connection' = [r \in Requests |->
    IF r = dbrmap /\ HasMydbc(r) THEN "disposed" ELSE connection[r]]

CloseDatabaseNow(r) ==
  /\ pc[r] = "close"
  /\ Dispose
  /\ GoTo(r, "remove")
  /\ UNCHANGED <<callVars, bridgeVars, dbrmap, q, dbq, destroy>>

\* Mutant of RemoveItself: the runner stays in the map.
RemoveItselfNot(r) ==
  /\ pc[r] = "remove"
  /\ GoTo(r, "answer")
  /\ UNCHANGED <<callVars, bridgeVars, dbrmap, q, dbq, connection, destroy>>

\* dbrmap.remove(dbname), "(should) remove ourself".
RemoveItself(r) ==
  /\ pc[r] = "remove"
  /\ dbrmap' = None
  /\ GoTo(r, "answer")
  /\ UNCHANGED <<callVars, bridgeVars, q, dbq, connection, destroy>>

\* The request is answered, after deleteDatabaseNow() when it is a delete.
AnswerClose(r) ==
  /\ pc[r] = "answer"
  /\ \E answer \in IF kind[dbq[r]] = "delete" THEN {"success", "error"} ELSE {"success"} :
       Reply(dbq[r], answer)
  /\ GoTo(r, "end")
  /\ UNCHANGED <<kind, bridgeVars, dbrmap, q, dbq, connection, destroy>>

-----------------------------------------------------------------------------
(* onDestroy(): as long as the map is not empty, close the connection, stop *)
(* the runner, and remove it from the map.                                  *)

Destroy ==
  /\ Destroys /\ destroy = "idle"
  /\ Unanswered({"open"}) \/ (\E r \in Requests : pc[r] = "answered")
       => "destroyOpening" \in Overlaps
  /\ destroy' = "check"
  /\ UNCHANGED <<callVars, bridgeVars, dbrmap, runnerVars>>

\* The map may have become empty since isEmpty(): next() would then throw.
DestroyCheck ==
  /\ destroy = "check"
  /\ destroy' = IF dbrmap = None THEN "done" ELSE "next"
  /\ UNCHANGED <<callVars, bridgeVars, dbrmap, runnerVars>>

DestroyClose ==
  /\ destroy = "next"
  /\ IF dbrmap = None
     THEN destroy' = "thrown" /\ UNCHANGED connection
     ELSE destroy' = "stop" /\ Dispose
  /\ UNCHANGED <<callVars, bridgeVars, dbrmap, pc, q, dbq>>

\* (A runner that is no longer there: the exception is caught.)
DestroyStop ==
  /\ destroy = "stop"
  /\ q' = [r \in Requests |-> IF r = dbrmap THEN Append(q[r], Stop) ELSE q[r]]
  /\ destroy' = "remove"
  /\ UNCHANGED <<callVars, bridgeVars, dbrmap, pc, dbq, connection>>

DestroyRemove ==
  /\ destroy = "remove"
  /\ dbrmap' = None
  /\ destroy' = "check"
  /\ UNCHANGED <<callVars, bridgeVars, runnerVars>>

-----------------------------------------------------------------------------
Run(r) ==
  \/ OpenDatabase(r) \/ AnswerOpen(r) \/ AssignMydbc(r)
  \/ OpenDatabaseFails(r) \/ RemoveFailed(r)
  \/ Take(r) \/ ExecuteBatch(r)
  \/ CloseDatabaseNow(r) \/ RemoveItself(r) \/ AnswerClose(r)

Act(b) == StartDatabase(b) \/ PutQuery(b) \/ AnswerWithoutRunner(b)

OnDestroy == DestroyCheck \/ DestroyClose \/ DestroyStop \/ DestroyRemove

Next ==
  \/ \E b \in Bridges : (\E r \in Requests, k \in Kinds : Call(b, r, k)) \/ Act(b)
  \/ \E r \in Requests : Run(r)
  \/ Destroy \/ OnDestroy

Spec == Init /\ [][Next]_vars

\* Threads run: a runner with something to do, a bridge call under way.
FairSpec ==
  /\ Spec
  /\ \A r \in Requests : WF_vars(Run(r))
  /\ \A b \in Bridges : WF_vars(Act(b))

-----------------------------------------------------------------------------
(* Properties. *)

\* The type of every variable.
TypeOK ==
  /\ kind \in [Requests -> Kinds \cup {"none"}]
  /\ answers \in [Requests -> Seq({"success", "error"})]
  /\ bridge \in [Bridges -> Requests \cup {None}]
  /\ found \in [Bridges -> Requests \cup {None}]
  /\ dbrmap \in Requests \cup {None}
  /\ pc \in [Requests -> Places]
  /\ q \in [Requests -> Seq(Requests \cup {Stop})]
  /\ dbq \in [Requests -> Requests \cup {Stop, None}]
  /\ connection \in [Requests -> {"none", "open", "disposed"}]
  /\ destroy \in {"idle", "check", "next", "stop", "remove", "done", "thrown"}

\* One background thread per database: two runners never have a connection to
\* the same database open.  (startDatabase() puts a runner into the map only
\* when it found none; a runner removes itself only when it has closed.)
OneConnection ==
  \A r, s \in Requests : connection[r] = "open" /\ connection[s] = "open" => r = s

\* The runner in the map is the one whose thread is alive: it will get to what
\* is put into its queue, and what is removed by name is the runner itself.
MapIsAlive ==
  \A r \in Requests :
    dbrmap = r <=> pc[r] \in {"start", "opened", "answered", "failed",
                              "take", "execute", "close", "remove"}

\* A batch is executed on a connection that is open, and a runner waits for
\* queries with its connection open.
ExecutesOnOpenConnection ==
  \A r \in Requests : pc[r] \in {"take", "execute"} => connection[r] = "open"

\* No request is answered twice.
AnsweredAtMostOnce == \A r \in Requests : Len(answers[r]) <= 1

\* An open that is answered with success leaves the application with an open
\* connection.  (openDatabase() of a new runner, or the runner that
\* startDatabase() found.)
OpenAnswerIsTrue ==
  [][\A r \in Requests :
       kind[r] = "open" /\ answers'[r] # answers[r] /\ answers'[r] = <<"success">>
         => \E s \in Requests : connection'[s] = "open"]_vars

\* Every request is answered in the end, unless the open it was made behind has
\* failed or the activity is destroyed.
EveryRequestAnswered ==
  \/ <>(destroy # "idle")
  \/ <>(\E r \in Requests : kind[r] = "open" /\ "error" \in Range(answers[r]))
  \/ \A r \in Requests : kind[r] # "none" ~> answers[r] # << >>

\* When onDestroy() has run, and no request was made since it began, no
\* connection is open.
DestroyClosesAll == destroy = "done" => \A r \in Requests : connection[r] # "open"

=============================================================================
