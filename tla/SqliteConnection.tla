--------------------------- MODULE SqliteConnection ---------------------------
(***************************************************************************)
(* Connections of src/common/sqlite3.c to one database: what BEGIN,        *)
(* COMMIT, ROLLBACK and statements that read or write do to the            *)
(* auto-commit flag and to the pager, with locks that are not given,       *)
(* errors of a statement, errors of the disk, the death of the process and *)
(* the loss of power.                                                      *)
(*                                                                         *)
(* Statements of one connection do not overlap: the plugin steps each one  *)
(* to its end and finalizes it before it prepares the next.                *)
(***************************************************************************)
EXTENDS Pager

CONSTANTS
  IoErrors,     \* the disk may report errors
  MaxCrashes    \* bound: crashes and losses of power

ASSUME SqliteConnectionAssumption ==
  IoErrors \in BOOLEAN /\ MaxCrashes \in Nat

VARIABLES
  autoCommit,   \* db->autoCommit of each connection
  stmt,         \* the statement it executes, see Statements
  saved,        \* the statement journal: the pages the transaction had written
                \*   when the statement began
  crashes       \* crashes and losses of power so far

stmtVars == <<autoCommit, stmt, saved>>
vars == <<pagerVars, stmtVars, crashes>>

Statements ==
  { "none", "read", "write",
    "autocommit",   \* a write statement that is done and commits
    "COMMIT",       \* a COMMIT that commits
    "ROLLBACK" }    \* whatever rolls the transaction back

Init ==
  /\ PagerInit
  /\ autoCommit = [c \in Conns |-> TRUE]
  /\ stmt = [c \in Conns |-> "none"]
  /\ saved = [c \in Conns |-> << >>]
  /\ crashes = 0

\* The pages the transaction of c has written, with their content.
Written(c) == IF Journaling(c) THEN Restrict(cache[c], DOMAIN journal) ELSE << >>

\* The next statement, with a statement journal if it writes.
Is(c, s) ==
  /\ stmt' = [stmt EXCEPT ![c] = s]
  /\ saved' = [saved EXCEPT ![c] = IF s = "write" THEN Written(c) ELSE << >>]

SetAutoCommit(c, flag) == autoCommit' = [autoCommit EXCEPT ![c] = flag]

-----------------------------------------------------------------------------
(* Statements. *)

\* OP_AutoCommit 0.
Begin(c) ==
  /\ stmt[c] = "none" /\ autoCommit[c]
  /\ SetAutoCommit(c, FALSE)
  /\ UNCHANGED <<pagerVars, stmt, saved, crashes>>

Step(c, s) ==
  /\ stmt[c] = "none" /\ s \in {"read", "write"}
  /\ Is(c, s)
  /\ UNCHANGED <<pagerVars, autoCommit, crashes>>

\* sqlite3BtreeBeginTrans: the shared lock, then, to write, the reserved one.
BeginTrans(c) ==
  /\ \/ stmt[c] \in {"read", "write"} /\ (SharedLock(c) \/ JournalExists(c) \/ CheckReservedLock(c)
                                           \/ LockHot(c) \/ Validate(c))
     \/ stmt[c] = "write" /\ PagerBegin(c)
  /\ UNCHANGED <<stmtVars, crashes>>

\* sqlite3BtreeBeginTrans that finds a lock held: the statement fails.  What it
\* has locked is unlocked, unless the transaction had a lock before.
Busy(c) ==
  /\ \/ /\ stmt[c] \in {"read", "write"} /\ eState[c] = "OPEN"
        /\ \/ step[c] = "none" /\ Others(c, {"PENDING", "EXCLUSIVE"})
           \/ step[c] = "hot" /\ Others(c, Locks \ {"NO"})
     \/ /\ stmt[c] = "write" /\ eState[c] = "READER"
        /\ Others(c, AboveShared)
  /\ Is(c, "none")
  /\ IF eState[c] = "READER" /\ step[c] = "none"
     THEN UNCHANGED <<lock, eState, txn, step>>
     ELSE PagerUnlock(c)
  /\ UNCHANGED <<fileVars, cacheVars, todo, transactions, autoCommit, crashes>>

\* The statement has its locks and runs.
Runs(c) ==
  \/ stmt[c] = "read" /\ eState[c] # "OPEN" /\ step[c] \in {"none", "begin"}
  \/ stmt[c] = "write" /\ Writing(c) /\ step[c] = "none"

Read(c, p) ==
  /\ Runs(c) /\ ReadPage(c, p)
  /\ UNCHANGED <<stmtVars, crashes>>

Write(c, p) ==
  /\ stmt[c] = "write" /\ Runs(c)
  /\ p \in DOMAIN cache[c] => cache[c][p] # txn[c]
  /\ PagerWrite(c, p, txn[c])
  /\ UNCHANGED <<lock, step, stmtVars, crashes>>

\* pagerStress: a page leaves the cache before the transaction ends.
Spill(c) ==
  /\ stmt[c] = "write" /\ Runs(c) /\ Journaling(c)
  /\ \/ /\ dirty[c] \subseteq counted /\ lock[c] = "EXCLUSIVE"
        /\ \E p \in dirty[c] : WriteOut(c, p)
     \/ /\ ~dirty[c] \subseteq counted
        /\ ExclusiveLock(c)
        /\ IF lock'[c] = "EXCLUSIVE"
           THEN CountRecords(c) /\ GoTo(c, "spill")
           ELSE UNCHANGED <<fileVars, step>>
        /\ UNCHANGED <<eState, cacheVars, txn, todo, transactions>>
  /\ UNCHANGED <<stmtVars, crashes>>

SpillSync(c) ==
  /\ step[c] = "spill"
  /\ SyncRecords(c) /\ GoTo(c, "none")
  /\ UNCHANGED <<stmtVars, crashes>>

-----------------------------------------------------------------------------
(* sqlite3VdbeHalt. *)

\* The statement is done.  Outside a transaction a write commits, a read
\* unlocks.
HaltOk(c) ==
  /\ Runs(c)
  /\ Is(c, IF autoCommit[c] /\ stmt[c] = "write" THEN "autocommit" ELSE "none")
  /\ IF autoCommit[c] /\ stmt[c] = "read"
     THEN PagerUnlock(c)
     ELSE GoTo(c, "none") /\ UNCHANGED <<lock, eState, txn>>
  /\ UNCHANGED <<fileVars, cacheVars, todo, transactions, autoCommit, crashes>>

\* sqlite3RollbackAll; the auto-commit flag is set.
RollbackAll(c) ==
  /\ PagerRollback(c)
  /\ SetAutoCommit(c, TRUE)
  /\ Is(c, IF Journaling(c) THEN "ROLLBACK" ELSE "none")
  /\ UNCHANGED crashes

\* A statement fails (OE_Abort): in a transaction, pagerPlaybackSavepoint takes
\* its own changes back, in the cache and, where a page has been written out,
\* in the file; else everything.
HaltAbort(c) ==
  /\ stmt[c] = "write" /\ Runs(c)
  /\ IF autoCommit[c] \/ ~Journaling(c)
     THEN IF autoCommit[c] THEN RollbackAll(c)
          ELSE Is(c, "none") /\ UNCHANGED <<pagerVars, autoCommit, crashes>>
     ELSE LET before == Over(saved[c], journal)
              changed == {p \in DOMAIN before : cache[c][p] # before[p]}
              written == IF eState[c] \in Modified THEN changed \cap counted ELSE {}
          IN /\ cache' = [cache EXCEPT ![c] = Over(before, @)]
             /\ db' = [p \in Pages |-> IF p \in written THEN before[p] ELSE db[p]]
             /\ disk' = [p \in Pages |->
                           IF p \in written THEN disk[p] \cup {before[p]} ELSE disk[p]]
             /\ Is(c, "none")
             /\ dirty' = [dirty EXCEPT ![c] = @ \ written]
             /\ UNCHANGED <<journalVars, lock, eState, dbFileVers, txn, step, todo,
                            transactions, autoCommit, crashes>>

\* An error of the disk, or no room on it: the transaction is rolled back.
HaltSpecial(c) ==
  /\ IoErrors /\ stmt[c] \in {"read", "write"} /\ Runs(c)
  /\ RollbackAll(c)

-----------------------------------------------------------------------------
(* COMMIT and ROLLBACK. *)

\* OP_AutoCommit 1: without a write transaction there is nothing but to unlock.
Commit(c) ==
  /\ stmt[c] = "none" /\ ~autoCommit[c]
  /\ SetAutoCommit(c, TRUE)
  /\ IF Writing(c)
     THEN Is(c, "COMMIT") /\ UNCHANGED <<lock, eState, txn, step>>
     ELSE PagerUnlock(c) /\ UNCHANGED <<stmt, saved>>
  /\ UNCHANGED <<fileVars, cacheVars, todo, transactions, crashes>>

Committing(c) == stmt[c] \in {"autocommit", "COMMIT"}

\* vdbeCommit takes the exclusive lock.  If it is not given, a COMMIT is BUSY
\* and the transaction stays open, a statement of its own is rolled back.
CommitBusy(c) ==
  /\ Committing(c) /\ step[c] = "none"
  /\ Others(c, Locks \ {"NO"})
  /\ IF stmt[c] = "COMMIT"
     THEN /\ ExclusiveLock(c)
          /\ SetAutoCommit(c, FALSE)
          /\ Is(c, "none")
          /\ UNCHANGED <<fileVars, eState, cacheVars, txn, step, todo, transactions, crashes>>
     ELSE RollbackAll(c)

\* A transaction that has not written a page only unlocks; any other one counts
\* its commit on page 1 (pager_incr_changecounter).
CommitStart(c) ==
  /\ Committing(c) /\ step[c] = "none"
  /\ ~Others(c, Locks \ {"NO"})
  /\ IF Journaling(c)
     THEN /\ ExclusiveLock(c)
          /\ PagerWrite(c, 1, cache[c][1] + 1)
          /\ GoTo(c, "count")
          /\ UNCHANGED <<stmt, saved>>
     ELSE /\ PagerUnlock(c)
          /\ Is(c, "none")
          /\ UNCHANGED <<fileVars, cacheVars, todo, transactions>>
  /\ UNCHANGED <<autoCommit, crashes>>

CommitCount(c) ==
  /\ step[c] = "count"
  /\ CountRecords(c) /\ GoTo(c, "counted")
  /\ UNCHANGED <<lock, eState, cacheVars, txn, todo, transactions, stmtVars, crashes>>

CommitSync(c) ==
  /\ step[c] = "counted"
  /\ SyncRecords(c) /\ GoTo(c, "write")
  /\ UNCHANGED <<stmtVars, crashes>>

CommitWrite(c, p) ==
  /\ step[c] = "write" /\ WriteOut(c, p)
  /\ UNCHANGED <<stmtVars, crashes>>

\* Mutant of CommitFinish: the database file is not synced.
CommitFinishUnsynced(c) ==
  /\ step[c] = "write" /\ dirty[c] = {}
  /\ eState' = [eState EXCEPT ![c] = "WRITER_FINISHED"]
  /\ GoTo(c, "commit")
  /\ UNCHANGED <<fileVars, lock, cacheVars, txn, todo, transactions, stmtVars, crashes>>

CommitFinish(c) ==
  /\ step[c] = "write" /\ dirty[c] = {}
  /\ SyncFile
  /\ eState' = [eState EXCEPT ![c] = "WRITER_FINISHED"]
  /\ GoTo(c, "commit")
  /\ UNCHANGED <<journalVars, lock, cacheVars, txn, todo, transactions,
                 stmtVars, crashes>>

\* sqlite3PagerCommitPhaseTwo: the journal is deleted.
CommitEnd(c) ==
  /\ step[c] = "commit"
  /\ DeleteJournal
  /\ PagerUnlock(c)
  /\ Is(c, "none")
  /\ UNCHANGED <<cacheVars, todo, transactions, autoCommit, crashes>>

\* An error in the first phase: everything is rolled back.  In the second: the
\* journal stays, and is hot.
CommitFails(c) ==
  /\ IoErrors
  /\ \/ /\ step[c] \in {"count", "counted", "write"}
        /\ RollbackAll(c)
     \/ /\ step[c] = "commit"
        /\ PagerError(c)
        /\ Is(c, "none")
        /\ UNCHANGED <<autoCommit, crashes>>

\* ROLLBACK, or sqlite3_close.
Rollback(c) ==
  /\ stmt[c] = "none" /\ ~autoCommit[c]
  /\ RollbackAll(c)

-----------------------------------------------------------------------------
(* pager_playback, of a ROLLBACK or of a hot journal. *)

Playback(c) ==
  /\ \/ (\E p \in todo[c] : PlayPage(c, p)) \/ PlaySync(c)
     \/ eState[c] = "OPEN" /\ PlayEnd(c)
  /\ UNCHANGED <<stmtVars, crashes>>

RollbackEnd(c) ==
  /\ eState[c] # "OPEN" /\ PlayEnd(c)
  /\ Is(c, "none")
  /\ UNCHANGED <<autoCommit, crashes>>

PlaybackFails(c) ==
  /\ IoErrors /\ step[c] \in {"play", "finalize"}
  /\ PagerError(c)
  /\ Is(c, "none")
  /\ UNCHANGED <<autoCommit, crashes>>

-----------------------------------------------------------------------------
(* Crashes. *)

\* The process ends; another one opens the database again.
Restart ==
  /\ crashes < MaxCrashes
  /\ crashes' = crashes + 1
  /\ lock' = [c \in Conns |-> "NO"]
  /\ eState' = [c \in Conns |-> "OPEN"]
  /\ cache' = [c \in Conns |-> << >>]
  /\ dirty' = [c \in Conns |-> {}]
  /\ dbFileVers' = [c \in Conns |-> 0]
  /\ txn' = [c \in Conns |-> 0]
  /\ step' = [c \in Conns |-> "none"]
  /\ todo' = [c \in Conns |-> {}]
  /\ autoCommit' = [c \in Conns |-> TRUE]
  /\ stmt' = [c \in Conns |-> "none"]
  /\ saved' = [c \in Conns |-> << >>]
  /\ UNCHANGED transactions

Crash == Restart /\ UNCHANGED fileVars

\* The files a loss of power may leave.
Disks == {f \in [Pages -> UNION Range(disk)] : \A p \in Pages : f[p] \in disk[p]}

PowerLoss ==
  /\ Restart
  /\ \E f \in Disks, r \in journalDisk :
       /\ db' = f
       /\ disk' = [p \in Pages |-> {f[p]}]
       /\ journal' = r /\ counted' = DOMAIN r
       /\ journalDisk' = {r}

-----------------------------------------------------------------------------
Statement(c) ==
  \/ Begin(c) \/ Step(c, "read") \/ Step(c, "write") \/ BeginTrans(c) \/ Busy(c)
  \/ \E p \in Pages : Read(c, p)
  \/ \E p \in Pages \ {1} : Write(c, p)
  \/ Spill(c) \/ SpillSync(c)
  \/ HaltOk(c) \/ HaltAbort(c) \/ HaltSpecial(c)

End(c) ==
  \/ Commit(c) \/ CommitBusy(c) \/ CommitStart(c) \/ CommitCount(c) \/ CommitSync(c)
  \/ \E p \in Pages : CommitWrite(c, p)
  \/ CommitFinish(c) \/ CommitEnd(c) \/ CommitFails(c)
  \/ Rollback(c) \/ Playback(c) \/ RollbackEnd(c) \/ PlaybackFails(c)

Next == (\E c \in Conns : Statement(c) \/ End(c)) \/ Crash \/ PowerLoss

Spec == Init /\ [][Next]_vars

=============================================================================
