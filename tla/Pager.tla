-------------------------------- MODULE Pager --------------------------------
(***************************************************************************)
(* The pager of src/common/sqlite3.c in its default mode: a rollback       *)
(* journal that is deleted at the end of a transaction, full               *)
(* synchronisation, no busy handler, no shared cache.  Several connections *)
(* (each a Pager object) of one process use one database file.             *)
(*                                                                         *)
(* Of a file the operating system has what was written to it, the disk     *)
(* what was written up to the last sync, and of each page possibly more.   *)
(* Page 1 is its change counter; of any other page the content is the      *)
(* number of the write transaction it comes from.                          *)
(*                                                                         *)
(* The actions here are the steps of a pager; SqliteConnection says when   *)
(* they are taken.                                                         *)
(***************************************************************************)
EXTENDS Naturals, FiniteSets, Functions

CONSTANTS
  Conns,            \* connections to the database
  LastPage,         \* the pages are 1 .. LastPage
  MaxTransactions   \* bound: write transactions

Pages == 1 .. LastPage

ASSUME PagerAssumption ==
  /\ LastPage \in Nat \ {0}
  /\ MaxTransactions \in Nat

VARIABLES
  db,           \* the content of each page in the database file
  disk,         \* the contents of it that a power loss may leave
  journal,      \* the journal file: original pages; << >> if there is none
  counted,      \* which of them its headers count (nRec)
  journalDisk,  \* the counted pages of the journals a power loss may leave
  lock,         \* unixFile.eFileLock of each connection
  eState,       \* Pager.eState
  cache,        \* the page cache: a function on the pages in it
  dirty,        \* the pages in it that are not in the file
  dbFileVers,   \* Pager.dbFileVers: the change counter the cache belongs to
  txn,          \* the number of the connection's latest write transaction
  step,         \* what a call that takes several steps does next, see Steps
  todo,         \* the pages pager_playback has yet to write to the file
  transactions  \* write transactions so far

journalVars == <<journal, counted, journalDisk>>
fileVars == <<db, disk, journalVars>>
cacheVars == <<cache, dirty, dbFileVers>>
pagerVars == <<fileVars, lock, eState, cacheVars, txn, step, todo, transactions>>

Locks == {"NO", "SHARED", "RESERVED", "PENDING", "EXCLUSIVE"}

AboveShared == {"RESERVED", "PENDING", "EXCLUSIVE"}

\* PAGER_ERROR is left in the call that enters it: no statement that could hold
\* a page is running.
States ==
  {"OPEN", "READER", "WRITER_LOCKED", "WRITER_CACHEMOD", "WRITER_DBMOD", "WRITER_FINISHED"}

Steps ==
  { "none",
    "exists", "reserved", "hot",   \* hasHotJournal, and a hot journal is found
    "validate", "begin",           \* the cache is checked, a write begins
    "play", "finalize",            \* pager_playback, hot or not
    "spill",                       \* syncJournal, for a page to leave the cache
    "count", "counted", "write", "commit" }  \* sqlite3PagerCommitPhaseOne, Two

Modified == {"WRITER_DBMOD", "WRITER_FINISHED"}

Writing(c) == eState[c] \notin {"OPEN", "READER"}

\* The connection has a journal of its own.
Journaling(c) == eState[c] \in {"WRITER_CACHEMOD"} \cup Modified

PagerInit ==
  /\ db = [p \in Pages |-> 0]
  /\ disk = [p \in Pages |-> {0}]
  /\ journal = << >> /\ counted = {} /\ journalDisk = {<< >>}
  /\ lock = [c \in Conns |-> "NO"]
  /\ eState = [c \in Conns |-> "OPEN"]
  /\ cache = [c \in Conns |-> << >>]
  /\ dirty = [c \in Conns |-> {}]
  /\ dbFileVers = [c \in Conns |-> 0]
  /\ txn = [c \in Conns |-> 0]
  /\ step = [c \in Conns |-> "none"]
  /\ todo = [c \in Conns |-> {}]
  /\ transactions = 0

\* f where it is defined, and g elsewhere.
Over(f, g) == [p \in DOMAIN f \cup DOMAIN g |-> IF p \in DOMAIN f THEN f[p] ELSE g[p]]

Single(p, value) == [x \in {p} |-> value]

Others(c, locks) == \E d \in Conns \ {c} : lock[d] \in locks

\* The pages a hot journal puts back.
Counted == Restrict(journal, counted)

\* What the file holds once a hot journal with these pages is played back.
Recovered(records, file) == Over(records, file)

Content == Recovered(Counted, db)

GoTo(c, place) == step' = [step EXCEPT ![c] = place]

WriteFile(p, value) ==
  /\ db' = [db EXCEPT ![p] = value]
  /\ disk' = [disk EXCEPT ![p] = @ \cup {value}]

SyncFile == disk' = [p \in Pages |-> {db[p]}] /\ UNCHANGED db

-----------------------------------------------------------------------------
(* sqlite3PagerSharedLock. *)

SharedLock(c) ==
  /\ eState[c] = "OPEN" /\ step[c] = "none"
  /\ ~Others(c, {"PENDING", "EXCLUSIVE"})
  /\ lock' = [lock EXCEPT ![c] = "SHARED"]
  /\ GoTo(c, "exists")
  /\ UNCHANGED <<fileVars, eState, cacheVars, txn, todo, transactions>>

\* hasHotJournal looks for the file, then for a RESERVED lock, and in between
\* the journal may go.
JournalExists(c) ==
  /\ step[c] = "exists"
  /\ GoTo(c, IF journal = << >> THEN "validate" ELSE "reserved")
  /\ UNCHANGED <<fileVars, lock, eState, cacheVars, txn, todo, transactions>>

CheckReservedLock(c) ==
  /\ step[c] = "reserved"
  /\ GoTo(c, IF Others(c, AboveShared) THEN "validate" ELSE "hot")
  /\ UNCHANGED <<fileVars, lock, eState, cacheVars, txn, todo, transactions>>

\* The EXCLUSIVE lock is taken without a RESERVED one; a journal that is still
\* there is synced, then played back.
LockHot(c) ==
  /\ step[c] = "hot"
  /\ ~Others(c, Locks \ {"NO"})
  /\ IF journal = << >>
     THEN /\ lock' = [lock EXCEPT ![c] = "SHARED"]
          /\ GoTo(c, "validate")
          /\ UNCHANGED <<journalDisk, cache, todo>>
     ELSE /\ lock' = [lock EXCEPT ![c] = "EXCLUSIVE"]
          /\ GoTo(c, "play")
          /\ journalDisk' = {Counted}
          /\ cache' = [cache EXCEPT ![c] = << >>]
          /\ todo' = [todo EXCEPT ![c] = counted]
  /\ UNCHANGED <<db, disk, journal, counted, eState, dirty, dbFileVers, txn, transactions>>

\* Mutant of Validate: the change counter is not looked at.
ValidateAlways(c) ==
  /\ step[c] = "validate"
  /\ eState' = [eState EXCEPT ![c] = "READER"]
  /\ cache' = [cache EXCEPT ![c] = Over(Single(1, db[1]), @)]
  /\ dbFileVers' = [dbFileVers EXCEPT ![c] = db[1]]
  /\ GoTo(c, "begin")
  /\ UNCHANGED <<fileVars, lock, dirty, txn, todo, transactions>>

\* The cache is kept if no other connection has changed the file.  (Then
\* lockBtree reads page 1.)
Validate(c) ==
  /\ step[c] = "validate"
  /\ eState' = [eState EXCEPT ![c] = "READER"]
  /\ cache' = [cache EXCEPT ![c] =
                 Over(Single(1, db[1]), IF dbFileVers[c] = db[1] THEN @ ELSE << >>)]
  /\ dbFileVers' = [dbFileVers EXCEPT ![c] = db[1]]
  /\ GoTo(c, "begin")
  /\ UNCHANGED <<fileVars, lock, dirty, txn, todo, transactions>>

\* readDbPage.
ReadPage(c, p) ==
  /\ eState[c] # "OPEN" /\ p \notin DOMAIN cache[c]
  /\ cache' = [cache EXCEPT ![c] = Over(Single(p, db[p]), @)]
  /\ UNCHANGED <<fileVars, lock, eState, dirty, dbFileVers, txn, step, todo, transactions>>

-----------------------------------------------------------------------------
(* A write transaction. *)

\* sqlite3PagerBegin.
PagerBegin(c) ==
  /\ eState[c] = "READER" /\ step[c] \in {"none", "begin"}
  /\ ~Others(c, AboveShared)
  /\ transactions < MaxTransactions
  /\ transactions' = transactions + 1
  /\ txn' = [txn EXCEPT ![c] = transactions + 1]
  /\ lock' = [lock EXCEPT ![c] = "RESERVED"]
  /\ eState' = [eState EXCEPT ![c] = "WRITER_LOCKED"]
  /\ GoTo(c, "none")
  /\ UNCHANGED <<fileVars, cacheVars, todo>>

\* Mutant of PagerWrite: only the first page is put into the journal.
PagerWriteOnce(c, p, value) ==
  LET old == IF p \in DOMAIN cache[c] THEN cache[c][p] ELSE db[p]
  IN /\ journal' = IF Journaling(c) THEN journal ELSE Single(p, old)
     /\ counted' = IF Journaling(c) THEN counted ELSE {}
     /\ journalDisk' = IF Journaling(c) THEN journalDisk ELSE journalDisk \cup {<< >>}
     /\ cache' = [cache EXCEPT ![c] = Over(Single(p, value), @)]
     /\ dirty' = [dirty EXCEPT ![c] = @ \cup {p}]
     /\ eState' = [eState EXCEPT ![c] = IF Journaling(c) THEN @ ELSE "WRITER_CACHEMOD"]
     /\ UNCHANGED <<db, disk, dbFileVers, txn, todo, transactions>>

\* pager_write of a page and its new content, pager_open_journal before the
\* first one.  The new file, and what it overwrites, may or may not survive a
\* power loss.
PagerWrite(c, p, value) ==
  LET before == IF Journaling(c) THEN journal ELSE << >>
      old == IF p \in DOMAIN cache[c] THEN cache[c][p] ELSE db[p]
  IN /\ journal' = Over(before, Single(p, old))
     /\ counted' = IF Journaling(c) THEN counted ELSE {}
     /\ journalDisk' = IF Journaling(c) THEN journalDisk ELSE journalDisk \cup {<< >>}
     /\ cache' = [cache EXCEPT ![c] = Over(Single(p, value), @)]
     /\ dirty' = [dirty EXCEPT ![c] = @ \cup {p}]
     /\ eState' = [eState EXCEPT ![c] = IF Journaling(c) THEN @ ELSE "WRITER_CACHEMOD"]
     /\ UNCHANGED <<db, disk, dbFileVers, txn, todo, transactions>>

\* sqlite3PagerExclusiveLock: a lock that is not given leaves the PENDING one.
ExclusiveLock(c) ==
  lock' = [lock EXCEPT ![c] =
             IF Others(c, Locks \ {"NO"}) THEN "PENDING" ELSE "EXCLUSIVE"]

\* syncJournal, first half: the records are synced, then nRec is written.
CountRecords(c) ==
  /\ counted' = DOMAIN journal
  /\ journalDisk' = journalDisk \cup {journal}
  /\ UNCHANGED <<db, disk, journal>>

\* syncJournal, second half: the header is synced, the directory with it.
SyncRecords(c) ==
  /\ eState' = [eState EXCEPT ![c] = "WRITER_DBMOD"]
  /\ journalDisk' = {journal}
  /\ UNCHANGED <<db, disk, journal, counted, lock, cacheVars, txn, todo, transactions>>

\* pager_write_pagelist, one page.
WriteOut(c, p) ==
  /\ p \in dirty[c] /\ p \in counted
  /\ WriteFile(p, cache[c][p])
  /\ dirty' = [dirty EXCEPT ![c] = @ \ {p}]
  /\ dbFileVers' = [dbFileVers EXCEPT ![c] = IF p = 1 THEN cache[c][1] ELSE @]
  /\ UNCHANGED <<journalVars, lock, eState, cache, txn, step, todo, transactions>>

\* sqlite3OsDelete without a directory sync: a power loss may bring the journal
\* back.
DeleteJournal ==
  /\ journal' = << >> /\ counted' = {}
  /\ journalDisk' = journalDisk \cup {<< >>}
  /\ UNCHANGED <<db, disk>>

-----------------------------------------------------------------------------
(* The end of a transaction. *)

\* pager_unlock, for btreeEndTransaction.
PagerUnlock(c) ==
  /\ lock' = [lock EXCEPT ![c] = "NO"]
  /\ eState' = [eState EXCEPT ![c] = "OPEN"]
  /\ txn' = [txn EXCEPT ![c] = 0]
  /\ GoTo(c, "none")

\* The error state: the cache is dropped, and the journal left to be played
\* back by whoever locks the database next.
PagerError(c) ==
  /\ PagerUnlock(c)
  /\ cache' = [cache EXCEPT ![c] = << >>]
  /\ dirty' = [dirty EXCEPT ![c] = {}]
  /\ todo' = [todo EXCEPT ![c] = {}]
  /\ UNCHANGED <<fileVars, dbFileVers, transactions>>

\* sqlite3PagerRollback: pager_playback if there is a journal.  The file is
\* written only if it may have been modified, and only with synced records.
PagerRollback(c) ==
  IF Journaling(c)
  THEN /\ GoTo(c, "play")
       /\ todo' = [todo EXCEPT ![c] = IF eState[c] \in Modified THEN counted ELSE {}]
       /\ UNCHANGED <<fileVars, lock, eState, cacheVars, txn, transactions>>
  ELSE /\ PagerUnlock(c)
       /\ UNCHANGED <<fileVars, cacheVars, todo, transactions>>

\* pager_playback_one_page.
PlayPage(c, p) ==
  /\ step[c] = "play" /\ p \in todo[c]
  /\ WriteFile(p, journal[p])
  /\ todo' = [todo EXCEPT ![c] = @ \ {p}]
  /\ UNCHANGED <<journalVars, lock, eState, cacheVars, txn, step, transactions>>

\* Mutant of PlaySync: the journal is deleted before what it put back is synced.
PlaySyncNot(c) ==
  /\ step[c] = "play" /\ todo[c] = {}
  /\ GoTo(c, "finalize")
  /\ UNCHANGED <<fileVars, lock, eState, cacheVars, txn, todo, transactions>>

PlaySync(c) ==
  /\ step[c] = "play" /\ todo[c] = {}
  /\ IF eState[c] \in Modified \cup {"OPEN"} THEN SyncFile ELSE UNCHANGED <<db, disk>>
  /\ GoTo(c, "finalize")
  /\ UNCHANGED <<journalVars, lock, eState, cacheVars, txn, todo, transactions>>

\* pager_end_transaction after a playback: a hot one goes on to read, a ROLLBACK
\* has put its own pages back into the cache and unlocks.
PlayEnd(c) ==
  /\ step[c] = "finalize"
  /\ DeleteJournal
  /\ IF eState[c] = "OPEN"
     THEN /\ lock' = [lock EXCEPT ![c] = "SHARED"]
          /\ GoTo(c, "validate")
          /\ UNCHANGED <<eState, cacheVars, txn>>
     ELSE /\ PagerUnlock(c)
          /\ cache' = [cache EXCEPT ![c] = Over(journal, @)]
          /\ dirty' = [dirty EXCEPT ![c] = {}]
          /\ dbFileVers' = [dbFileVers EXCEPT ![c] =
                              IF 1 \in DOMAIN journal THEN journal[1] ELSE @]
  /\ UNCHANGED <<todo, transactions>>

=============================================================================
