----------------------------- MODULE SqliteProofs -----------------------------
(***************************************************************************)
(* Proofs about SqliteConnection and its refinement, for any number of     *)
(* connections, pages, transactions and crashes.                           *)
(***************************************************************************)
EXTENDS SqliteRefinement, TLAPS

-----------------------------------------------------------------------------
(* The inductive invariant. *)

\* The committed content of a page, and what the page is when the journal r is
\* played back.
Committed(p) == IF p \in counted THEN journal[p] ELSE db[p]

After(r, p) == IF p \in DOMAIN r THEN r[p] ELSE db[p]

Synced == \A p \in Pages : disk[p] = {db[p]}

Clean == Synced /\ \A p \in Pages : db[p] = Committed(p)

Playing(c) == step[c] \in {"play", "finalize"}

LockInv ==
  \A c, d \in Conns : c # d =>
    /\ lock[c] \in AboveShared => lock[d] \notin AboveShared
    /\ lock[c] = "EXCLUSIVE" => lock[d] = "NO"

\* The state of the pager, what it does next, and its lock.
Place(c) ==
  \/ eState[c] = "OPEN" /\ step[c] = "none" /\ lock[c] = "NO"
  \/ /\ eState[c] = "OPEN" /\ step[c] \in {"exists", "reserved", "hot", "validate"}
     /\ lock[c] = "SHARED"
  \/ eState[c] = "OPEN" /\ Playing(c) /\ lock[c] = "EXCLUSIVE" /\ DOMAIN journal # {}
  \/ eState[c] = "READER" /\ step[c] \in {"none", "begin"} /\ lock[c] = "SHARED"
  \/ eState[c] = "WRITER_LOCKED" /\ step[c] = "none" /\ lock[c] \in AboveShared
  \/ /\ eState[c] = "WRITER_CACHEMOD" /\ (step[c] = "none" \/ Playing(c))
     /\ lock[c] \in AboveShared /\ DOMAIN journal # {}
  \/ /\ eState[c] = "WRITER_CACHEMOD" /\ step[c] \in {"spill", "count", "counted"}
     /\ lock[c] = "EXCLUSIVE" /\ DOMAIN journal # {}
  \/ /\ eState[c] = "WRITER_DBMOD"
     /\ step[c] \in {"none", "spill", "count", "counted", "write"} \/ Playing(c)
     /\ lock[c] = "EXCLUSIVE" /\ DOMAIN journal # {}
  \/ /\ eState[c] = "WRITER_FINISHED" /\ step[c] = "commit"
     /\ lock[c] = "EXCLUSIVE" /\ DOMAIN journal # {}

StateInv ==
  \A c \in Conns :
    /\ Place(c)
    /\ stmt[c] = "none" => step[c] = "none"
    /\ Committing(c) => Writing(c)
    /\ autoCommit[c] =>
         /\ stmt[c] = "none" => eState[c] = "OPEN"
         /\ stmt[c] = "read" => ~Writing(c)
         /\ eState[c] = "READER" => step[c] = "begin"

\* The journal has what the pages were, and a page it does not count is not
\* written to the file.
JournalInv ==
  /\ counted \subseteq DOMAIN journal /\ journalDisk # {}
  /\ \A p \in DOMAIN journal \ counted : db[p] = journal[p]

\* A connection and its own journal.
WriterInv ==
  \A c \in Conns :
    IF Journaling(c)
    THEN /\ DOMAIN journal \ counted \subseteq dirty[c]
         /\ dirty[c] \subseteq DOMAIN journal
         /\ DOMAIN journal \subseteq DOMAIN cache[c]
         /\ stmt[c] = "write" => DOMAIN saved[c] \subseteq DOMAIN journal
         /\ ~Playing(c) => \A p \in DOMAIN journal \ dirty[c] : cache[c][p] = db[p]
         /\ eState[c] = "WRITER_CACHEMOD" /\ step[c] \in {"none", "count"}
              => counted = {}
         /\ step[c] \in {"spill", "counted", "write", "commit"}
              => counted = DOMAIN journal
         /\ step[c] \in {"none", "spill"} => 1 \notin DOMAIN journal
         /\ step[c] \in {"count", "counted", "write", "commit"}
              => 1 \in DOMAIN journal /\ cache[c][1] = Committed(1) + 1
         /\ step[c] = "commit" => dirty[c] = {} /\ Synced
    ELSE dirty[c] = {} /\ (stmt[c] = "write" => DOMAIN saved[c] = {})

\* Playing back gives the committed content.
PlayInv ==
  \A c \in Conns : Playing(c) =>
    /\ todo[c] \subseteq counted
    /\ \A p \in Pages \ todo[c] : db[p] = Committed(p)
    /\ step[c] = "finalize" => todo[c] = {} /\ Synced

\* Whoever reads finds the committed content in the file.
CleanInv ==
  \A c \in Conns :
    eState[c] \in {"READER", "WRITER_LOCKED", "WRITER_CACHEMOD"} \/ step[c] = "validate"
      => Clean

\* What a loss of power may leave: what is not synced, or not committed, is in
\* every journal, and all journals give the committed content, or all that do
\* not give one other content.
DiskInv ==
  /\ \A p \in Pages :
       /\ db[p] \in disk[p]
       /\ disk[p] # {db[p]} => p \in counted
       /\ disk[p] # {db[p]} \/ db[p] # Committed(p) => \A r \in journalDisk : p \in DOMAIN r
  /\ \A r, s \in journalDisk :
       \/ \A p \in Pages : After(r, p) = Committed(p)
       \/ \A p \in Pages : After(s, p) = Committed(p)
       \/ \A p \in Pages : After(r, p) = After(s, p)
  /\ \A c \in Conns : eState[c] \in Modified =>
       /\ \A r \in journalDisk : \A p \in Pages : After(r, p) = Committed(p)
       /\ step[c] \in {"none", "count", "write", "commit"}
            => \A r \in journalDisk : counted \subseteq DOMAIN r

CacheInv ==
  \A c \in Conns :
    IF eState[c] = "OPEN"
    THEN DOMAIN cache[c] # {} =>
           /\ dbFileVers[c] <= Committed(1)
           /\ dbFileVers[c] = Committed(1) =>
                \A p \in DOMAIN cache[c] : cache[c][p] = Committed(p)
    ELSE /\ 1 \in DOMAIN cache[c]
         /\ ~Playing(c) \/ 1 \notin DOMAIN journal => dbFileVers[c] = db[1]
         /\ \A p \in DOMAIN cache[c] :
              (Journaling(c) => p \notin DOMAIN journal) => cache[c][p] = Committed(p)

Inv ==
  /\ Types /\ LockInv /\ StateInv /\ JournalInv /\ WriterInv /\ PlayInv /\ CleanInv
  /\ DiskInv /\ CacheInv

\* A step that leaves what is committed, and what each journal would make of it.
ImagesKept ==
  /\ journalDisk' = journalDisk
  /\ \A p \in Pages : Committed(p)' = Committed(p)
  /\ \A r \in journalDisk : \A p \in Pages : After(r, p)' = After(r, p)

-----------------------------------------------------------------------------
(* Lemmas about images. *)

LEMMA EmptyImage == IsImage(<< >>) /\ DOMAIN << >> = {}
  BY DEF IsImage

LEMMA SingleImage ==
  ASSUME NEW p \in Pages, NEW v \in Nat
  PROVE  IsImage(Single(p, v)) /\ DOMAIN Single(p, v) = {p} /\ Single(p, v)[p] = v
  BY DEF IsImage, Single

LEMMA OverImage ==
  ASSUME NEW f, NEW g, IsImage(f), IsImage(g)
  PROVE  /\ IsImage(Over(f, g)) /\ DOMAIN Over(f, g) = DOMAIN f \cup DOMAIN g
         /\ \A p \in DOMAIN f : Over(f, g)[p] = f[p]
         /\ \A p \in DOMAIN g \ DOMAIN f : Over(f, g)[p] = g[p]
  BY DEF IsImage, Over

LEMMA RestrictImage ==
  ASSUME NEW f, IsImage(f), NEW S, S \subseteq DOMAIN f
  PROVE  /\ IsImage(Restrict(f, S)) /\ DOMAIN Restrict(f, S) = S
         /\ \A p \in S : Restrict(f, S)[p] = f[p]
  BY DEF IsImage, Restrict

LEMMA EmptyUnique == ASSUME NEW f, IsImage(f), DOMAIN f = {} PROVE f = << >>
<1>1. f \in [{} -> Nat]
  BY DEF IsImage
<1> QED BY <1>1

\* A page is put into an image.
LEMMA PutImage ==
  ASSUME NEW p \in Pages, NEW v \in Nat, NEW f, IsImage(f)
  PROVE  /\ IsImage(Over(Single(p, v), f)) /\ DOMAIN Over(Single(p, v), f) = {p} \cup DOMAIN f
         /\ Over(Single(p, v), f)[p] = v
         /\ \A x \in DOMAIN f \ {p} : Over(Single(p, v), f)[x] = f[x]
  BY DEF IsImage, Over, Single

LEMMA FirstPage == 1 \in Pages
  BY PagerAssumption DEF Pages

LEMMA InitInv == Init => Inv
<1> SUFFICES ASSUME Init PROVE Inv
  OBVIOUS
<1> USE PagerAssumption, SqliteConnectionAssumption, EmptyImage DEF Init, PagerInit
<1>1. Types
  BY DEF Types, Pages, Locks, States, Steps, Statements
<1>2. LockInv /\ StateInv /\ JournalInv /\ WriterInv /\ PlayInv /\ CleanInv
  BY DEF LockInv, AboveShared, StateInv, Place, Committing, Writing, JournalInv, WriterInv, Journaling,
     Modified, PlayInv, Playing, CleanInv
<1>3. DiskInv /\ CacheInv
  BY DEF DiskInv, Committed, After, Modified, CacheInv
<1> QED BY <1>1, <1>2, <1>3 DEF Inv

LEMMA BeginStep == ASSUME Inv, NEW c \in Conns, Begin(c) PROVE Inv'
<1> USE DEF Inv, Begin, pagerVars, fileVars, journalVars, cacheVars
<1>1. Types' /\ LockInv' /\ JournalInv'
  BY DEF Types, SetAutoCommit, LockInv, JournalInv
<1>2. StateInv'
  BY DEF Types, SetAutoCommit, StateInv, Place, Committing, Writing, Playing
<1>4. WriterInv' /\ PlayInv' /\ CleanInv'
  BY DEF WriterInv, Journaling, Committed, PlayInv, Playing, CleanInv, Clean, Synced
<1>3. DiskInv' /\ CacheInv'
  BY DEF DiskInv, Committed, After, CacheInv, Journaling, Playing
<1> QED BY <1>1, <1>2, <1>3, <1>4

LEMMA SharedLockStep ==
  ASSUME Inv, NEW c \in Conns, stmt[c] \in {"read", "write"}, SharedLock(c), UNCHANGED <<stmtVars, crashes>>
  PROVE  Inv'
<1> USE DEF Inv, SharedLock, fileVars, journalVars, cacheVars, stmtVars
<1>1. Types'
  BY DEF Types, GoTo, Steps, Locks
<1>2. LockInv'
  BY DEF Types, GoTo, LockInv, AboveShared, Others
<1>3. StateInv'
  BY DEF Types, GoTo, StateInv, Place, Committing, Writing, Playing
<1>4. JournalInv' /\ WriterInv' /\ PlayInv' /\ CleanInv'
  BY DEF Types, GoTo, JournalInv, WriterInv, Journaling, Modified, Committed, PlayInv, Playing, CleanInv, Clean, Synced
<1>5. DiskInv' /\ CacheInv'
  BY DEF Types, GoTo, DiskInv, Committed, After, CacheInv, Journaling, Modified, Playing
<1> QED BY <1>1, <1>2, <1>3, <1>4, <1>5

LEMMA StepStep ==
  ASSUME Inv, NEW c \in Conns, NEW s \in {"read", "write"}, Step(c, s) PROVE Inv'
<1> USE DEF Inv, Step, Is, pagerVars, fileVars, journalVars, cacheVars
<1>1. IsImage(Written(c)) /\ DOMAIN Written(c) = IF Journaling(c) THEN DOMAIN journal ELSE {}
  BY EmptyImage, RestrictImage DEF Types, Written, WriterInv
<1>2. Types' /\ LockInv' /\ JournalInv'
  BY <1>1, EmptyImage DEF Types, LockInv, JournalInv, Statements
<1>3. StateInv' /\ PlayInv' /\ CleanInv'
  BY DEF Types, StateInv, Place, Committing, Writing, Committed, PlayInv, Playing, CleanInv,
     Clean, Synced
<1>4. WriterInv'
  BY <1>1 DEF Types, WriterInv, Journaling, Modified, Committed, Playing, Synced
<1>5. DiskInv' /\ CacheInv'
  BY DEF DiskInv, Committed, After, CacheInv, Journaling, Modified, Playing
<1> QED BY <1>2, <1>3, <1>4, <1>5

LEMMA JournalExistsStep ==
  ASSUME Inv, NEW c \in Conns, stmt[c] \in {"read", "write"}, JournalExists(c),
         UNCHANGED <<stmtVars, crashes>>
  PROVE  Inv'
<1> USE DEF Inv, JournalExists, fileVars, journalVars, cacheVars, stmtVars
<1>1. Types' /\ LockInv'
  BY DEF Types, GoTo, Steps, LockInv
<1>2. StateInv'
  BY DEF Types, GoTo, StateInv, Place, Committing, Writing, Playing
<1>3. journal = << >> => Clean
  BY EmptyImage DEF JournalInv, DiskInv, Clean, Synced, Committed
<1>4. JournalInv' /\ WriterInv' /\ PlayInv'
  BY DEF Types, GoTo, JournalInv, WriterInv, Journaling, Modified, Committed, PlayInv, Playing,
     Synced, StateInv, Place
<1>5. CleanInv'
  BY <1>3 DEF Types, GoTo, Committed, CleanInv, Clean, Synced
<1>6. DiskInv' /\ CacheInv'
  BY DEF Types, GoTo, DiskInv, Committed, After, CacheInv, Journaling, Modified, Playing,
     StateInv, Place
<1> QED BY <1>1, <1>2, <1>4, <1>5, <1>6

LEMMA CheckReservedLockStep ==
  ASSUME Inv, NEW c \in Conns, stmt[c] \in {"read", "write"}, CheckReservedLock(c),
         UNCHANGED <<stmtVars, crashes>>
  PROVE  Inv'
<1> USE DEF Inv, CheckReservedLock, fileVars, journalVars, cacheVars, stmtVars
<1>1. Types' /\ LockInv'
  BY DEF Types, GoTo, Steps, LockInv
<1>2. StateInv'
  BY DEF Types, GoTo, StateInv, Place, Committing, Writing, Playing
<1>3. Others(c, AboveShared) => Clean
  <2> SUFFICES ASSUME NEW d \in Conns \ {c}, lock[d] \in AboveShared PROVE Clean
    BY DEF Others
  <2>1. lock[c] = "SHARED" /\ lock[d] # "EXCLUSIVE"
    BY DEF StateInv, Place, Playing, LockInv
  <2>2. eState[d] \in {"WRITER_LOCKED", "WRITER_CACHEMOD"}
    BY <2>1 DEF StateInv, Place, AboveShared
  <2> QED BY <2>2 DEF CleanInv
<1>4. JournalInv' /\ WriterInv' /\ PlayInv'
  BY DEF Types, GoTo, JournalInv, WriterInv, Journaling, Modified, Committed, PlayInv, Playing,
     Synced, StateInv, Place
<1>5. CleanInv'
  BY <1>3 DEF Types, GoTo, Committed, CleanInv, Clean, Synced
<1>6. DiskInv' /\ CacheInv'
  BY DEF Types, GoTo, DiskInv, Committed, After, CacheInv, Journaling, Modified, Playing,
     StateInv, Place
<1> QED BY <1>1, <1>2, <1>4, <1>5, <1>6

LEMMA LockHotStep ==
  ASSUME Inv, NEW c \in Conns, stmt[c] \in {"read", "write"}, LockHot(c),
         UNCHANGED <<stmtVars, crashes>>
  PROVE  Inv'
<1> USE DEF Inv, LockHot, fileVars, journalVars, cacheVars, stmtVars
<1>1. IsImage(Counted) /\ DOMAIN Counted = counted /\ \A p \in counted : Counted[p] = journal[p]
  BY RestrictImage DEF Types, JournalInv, Counted
<1>2. eState[c] = "OPEN" /\ \A d \in Conns \ {c} : lock[d] = "NO"
  BY DEF StateInv, Place, Playing, Types, Others
<1>3. \A d \in Conns \ {c} : eState[d] = "OPEN" /\ step[d] = "none"
  BY <1>2 DEF StateInv, Place, AboveShared
<1>4. journal = << >> => Clean
  BY EmptyImage DEF JournalInv, DiskInv, Clean, Synced, Committed
<1>5. journal # << >> => DOMAIN journal # {}
  BY EmptyUnique DEF Types
<1>12. /\ lock' = [lock EXCEPT ![c] = IF journal = << >> THEN "SHARED" ELSE "EXCLUSIVE"]
       /\ step' = [step EXCEPT ![c] = IF journal = << >> THEN "validate" ELSE "play"]
       /\ todo' = IF journal = << >> THEN todo ELSE [todo EXCEPT ![c] = counted]
       /\ cache' = IF journal = << >> THEN cache ELSE [cache EXCEPT ![c] = << >>]
       /\ journalDisk' = IF journal = << >> THEN journalDisk ELSE {Counted}
       /\ UNCHANGED <<db, disk, journal, counted, eState, dirty, dbFileVers, txn, transactions,
                      autoCommit, stmt, saved, crashes>>
  BY DEF GoTo
<1> HIDE DEF LockHot
<1>6. Types'
  <2>1. /\ lock' \in [Conns -> Locks] /\ step' \in [Conns -> Steps]
        /\ todo' \in [Conns -> SUBSET Pages]
    BY <1>12 DEF Types, Locks, Steps
  <2>2. /\ DOMAIN cache' = Conns /\ \A d \in Conns : IsImage(cache'[d])
        /\ \A r \in journalDisk' : IsImage(r)
    BY <1>1, <1>12, EmptyImage DEF Types
  <2> QED BY <1>12, <2>1, <2>2 DEF Types
<1>11. LockInv' /\ JournalInv'
  BY <1>2, <1>12 DEF Types, LockInv, AboveShared, JournalInv
<1>7. StateInv'
  BY <1>2, <1>3, <1>5, <1>12 DEF Types, StateInv, Place, Committing, Writing, Playing
<1>8. WriterInv' /\ PlayInv' /\ CleanInv'
  <2>1. \A d \in Conns : eState'[d] = "OPEN"
    BY <1>2, <1>3, <1>12
  <2>2. WriterInv'
    BY <1>3, <1>12, <2>1 DEF WriterInv, Journaling, Modified
  <2>3. PlayInv'
    BY <1>2, <1>3, <1>12 DEF Types, PlayInv, Playing, Committed, Synced
  <2>4. CleanInv'
    BY <1>2, <1>3, <1>4, <1>12, <2>1 DEF Types, CleanInv, Clean, Synced, Committed
  <2> QED BY <2>2, <2>3, <2>4
<1>9. DiskInv'
  <2>1. \A d \in Conns : eState'[d] \notin Modified
    BY <1>2, <1>3, <1>12 DEF Modified
  <2>2. CASE journal = << >>
    BY <1>12, <2>1, <2>2 DEF DiskInv, Committed, After
  <2>3. CASE journal # << >>
    <3>1. \A p \in Pages : After(Counted, p) = Committed(p)
      BY <1>1 DEF After, Committed
    <3> QED BY <1>1, <1>12, <2>1, <2>3, <3>1 DEF DiskInv, Committed, After
  <2> QED BY <2>2, <2>3
<1>10. CacheInv'
  BY <1>2, <1>3, <1>12, EmptyImage DEF Types, CacheInv, Committed, Journaling, Modified, Playing
<1> QED BY <1>6, <1>7, <1>8, <1>9, <1>10, <1>11

LEMMA ValidateStep ==
  ASSUME Inv, NEW c \in Conns, stmt[c] \in {"read", "write"}, Validate(c),
         UNCHANGED <<stmtVars, crashes>>
  PROVE  Inv'
<1> USE DEF Inv, Validate, fileVars, journalVars, cacheVars, stmtVars
<1>1. PICK kept :
        /\ IsImage(kept) /\ cache' = [cache EXCEPT ![c] = Over(Single(1, db[1]), kept)]
        /\ (kept = cache[c] /\ dbFileVers[c] = db[1]) \/ kept = << >>
  BY EmptyImage DEF Types
<1>2. Clean /\ eState[c] = "OPEN" /\ lock[c] = "SHARED"
  BY DEF CleanInv, StateInv, Place, Playing
<1>3. \A p \in DOMAIN kept : kept[p] = Committed(p)
  BY <1>1, <1>2, FirstPage, EmptyImage DEF CacheInv, Clean
<1>4. /\ DOMAIN cache' = DOMAIN cache /\ IsImage(cache'[c]) /\ 1 \in DOMAIN cache'[c]
      /\ \A p \in DOMAIN cache'[c] : cache'[c][p] = Committed(p)
      /\ \A d \in Conns \ {c} : cache'[d] = cache[d]
  <2>1. db[1] \in Nat
    BY FirstPage DEF Types
  <2>2. /\ IsImage(Over(Single(1, db[1]), kept))
        /\ DOMAIN Over(Single(1, db[1]), kept) = {1} \cup DOMAIN kept
        /\ Over(Single(1, db[1]), kept)[1] = db[1]
        /\ \A p \in DOMAIN kept \ {1} : Over(Single(1, db[1]), kept)[p] = kept[p]
    BY <1>1, <2>1, FirstPage DEF IsImage, Over, Single
  <2> QED BY <1>1, <1>2, <1>3, <2>2, FirstPage DEF Types, Clean
<1>5. Types' /\ LockInv' /\ JournalInv'
  BY <1>4, FirstPage DEF Types, GoTo, Steps, States, LockInv, JournalInv
<1>6. StateInv'
  BY <1>2 DEF Types, GoTo, StateInv, Place, Committing, Writing, Playing
<1>7. WriterInv' /\ PlayInv' /\ CleanInv'
  BY <1>2, <1>4 DEF Types, GoTo, WriterInv, Journaling, Modified, Committed, PlayInv, Playing,
     CleanInv, Clean, Synced
<1>8. DiskInv'
  BY <1>2 DEF Types, GoTo, DiskInv, Committed, After, Modified
<1>9. CacheInv'
  BY <1>2, <1>4 DEF Types, GoTo, CacheInv, Committed, Journaling, Modified, Playing
<1> QED BY <1>5, <1>6, <1>7, <1>8, <1>9

LEMMA PagerBeginStep ==
  ASSUME Inv, NEW c \in Conns, stmt[c] = "write", PagerBegin(c), UNCHANGED <<stmtVars, crashes>>
  PROVE  Inv'
<1> USE DEF Inv, PagerBegin, fileVars, journalVars, cacheVars, stmtVars
<1>1. Types'
  BY DEF Types, GoTo, Steps, States, Locks
<1>2. lock[c] = "SHARED" /\ \A d \in Conns \ {c} : lock[d] \notin AboveShared
  BY DEF StateInv, Place, Others
<1>3. LockInv' /\ JournalInv'
  BY <1>2 DEF Types, LockInv, AboveShared, JournalInv
<1>4. StateInv'
  BY DEF Types, GoTo, StateInv, Place, Committing, Writing, Playing, AboveShared
<1>5. WriterInv' /\ PlayInv' /\ CleanInv'
  BY DEF Types, GoTo, WriterInv, Journaling, Modified, Committed, PlayInv, Playing,
     CleanInv, Clean, Synced
<1>6. DiskInv' /\ CacheInv'
  BY DEF Types, GoTo, DiskInv, Committed, After, Modified, CacheInv, Journaling, Playing
<1> QED BY <1>1, <1>3, <1>4, <1>5, <1>6

\* A connection that has changed nothing ends its transaction.
LEMMA UnlockStep ==
  ASSUME Inv, NEW c \in Conns, eState[c] \in {"OPEN", "READER", "WRITER_LOCKED"},
         eState[c] = "OPEN" => step[c] \in {"none", "exists", "reserved", "hot"},
         PagerUnlock(c), UNCHANGED <<fileVars, cacheVars, todo, transactions, crashes>>,
         autoCommit' \in [Conns -> BOOLEAN],
         stmt' = [stmt EXCEPT ![c] = "none"], DOMAIN saved' = Conns, IsImage(saved'[c]),
         \A d \in Conns \ {c} : saved'[d] = saved[d] /\ autoCommit'[d] = autoCommit[d]
  PROVE  Inv'
<1> USE DEF Inv, fileVars, journalVars, cacheVars
<1>1. /\ eState'[c] = "OPEN" /\ step'[c] = "none" /\ lock'[c] = "NO" /\ stmt'[c] = "none"
      /\ \A d \in Conns \ {c} : /\ eState'[d] = eState[d] /\ step'[d] = step[d]
                                /\ lock'[d] = lock[d] /\ stmt'[d] = stmt[d]
  BY DEF Types, PagerUnlock, GoTo
<1>2. Types'
  BY DEF Types, PagerUnlock, GoTo, Steps, States, Locks, Statements
<1>3. LockInv' /\ JournalInv'
  BY <1>1 DEF LockInv, AboveShared, JournalInv
<1>4. StateInv'
  BY <1>1 DEF StateInv, Place, Committing, Writing, Playing
<1>5. WriterInv'
  BY <1>1 DEF WriterInv, Journaling, Modified, Committed, Playing, Synced
<1>6. PlayInv' /\ CleanInv'
  BY <1>1 DEF PlayInv, Playing, CleanInv, Clean, Committed, Synced
<1>7. DiskInv'
  BY <1>1 DEF DiskInv, Committed, After, Modified
<1>8. CacheInv'
  <2>1. eState[c] # "OPEN" => Clean /\ ~Journaling(c) /\ ~Playing(c)
    BY DEF CleanInv, Journaling, Modified, StateInv, Place, Playing
  <2> QED BY <1>1, <2>1, FirstPage DEF Types, Committed, CacheInv, Journaling, Playing, Clean
<1> QED BY <1>2, <1>3, <1>4, <1>5, <1>6, <1>7, <1>8

LEMMA IsEffect ==
  ASSUME Inv, NEW c \in Conns, NEW s \in Statements \ {"write"}, Is(c, s)
  PROVE  /\ stmt' = [stmt EXCEPT ![c] = s] /\ stmt' \in [Conns -> Statements] /\ stmt'[c] = s
         /\ DOMAIN saved' = Conns /\ IsImage(saved'[c])
         /\ \A d \in Conns \ {c} : saved'[d] = saved[d] /\ stmt'[d] = stmt[d]
  BY EmptyImage DEF Inv, Types, Is

LEMMA BusyStep == ASSUME Inv, NEW c \in Conns, Busy(c) PROVE Inv'
<1> USE DEF Inv, Busy, fileVars, journalVars, cacheVars
<1>1. /\ stmt' = [stmt EXCEPT ![c] = "none"] /\ stmt' \in [Conns -> Statements] /\ stmt'[c] = "none"
      /\ DOMAIN saved' = Conns /\ IsImage(saved'[c])
      /\ \A d \in Conns \ {c} : saved'[d] = saved[d] /\ stmt'[d] = stmt[d]
  BY IsEffect DEF Statements
<1>2. CASE eState[c] = "READER" /\ step[c] = "none"
  <2>1. UNCHANGED <<lock, eState, txn, step>>
    BY <1>2
  <2>2. Types' /\ LockInv' /\ JournalInv' /\ PlayInv' /\ CleanInv'
    BY <1>1, <2>1
    DEF Types, LockInv, JournalInv, PlayInv, Playing, CleanInv, Clean, Committed, Synced
  <2>3. StateInv'
    BY <1>1, <1>2, <2>1 DEF StateInv, Place, Committing, Writing, Playing
  <2>4. WriterInv'
    BY <1>1, <2>1 DEF WriterInv, Journaling, Committed, Playing, Synced
  <2>5. DiskInv' /\ CacheInv'
    BY <2>1 DEF DiskInv, Committed, After, CacheInv, Journaling, Playing
  <2> QED BY <2>2, <2>3, <2>4, <2>5
<1>3. CASE ~(eState[c] = "READER" /\ step[c] = "none")
  <2>1. /\ eState[c] \in {"OPEN", "READER", "WRITER_LOCKED"}
        /\ eState[c] = "OPEN" => step[c] \in {"none", "exists", "reserved", "hot"}
        /\ autoCommit' = autoCommit /\ UNCHANGED <<fileVars, cacheVars, todo, transactions, crashes>>
    OBVIOUS
  <2>2. PagerUnlock(c)
    BY <1>3
  <2> QED BY <1>1, <2>1, <2>2, UnlockStep DEF Types
<1> QED BY <1>2, <1>3

LEMMA ReadStep == ASSUME Inv, NEW c \in Conns, NEW p \in Pages, Read(c, p) PROVE Inv'
<1> USE DEF Inv, Read, ReadPage, fileVars, journalVars, cacheVars, stmtVars
<1>1. db[p] \in Nat /\ eState[c] # "OPEN" /\ p \notin DOMAIN cache[c] /\ IsImage(cache[c])
  BY DEF Types
<1>2. /\ DOMAIN cache' = Conns /\ IsImage(cache'[c]) /\ DOMAIN cache'[c] = {p} \cup DOMAIN cache[c]
      /\ cache'[c][p] = db[p]
      /\ \A x \in DOMAIN cache[c] : cache'[c][x] = cache[c][x]
      /\ \A d \in Conns \ {c} : cache'[d] = cache[d]
  BY <1>1 DEF Types, IsImage, Over, Single
<1>3. (Journaling(c) => p \notin DOMAIN journal) /\ db[p] = Committed(p)
  <2>1. Journaling(c) => p \notin DOMAIN journal
    BY <1>1 DEF WriterInv
  <2>2. CASE Journaling(c)
    BY <2>1, <2>2 DEF JournalInv, Committed
  <2>3. CASE ~Journaling(c)
    BY <1>1, <2>3 DEF CleanInv, Clean, Journaling, Modified, StateInv, Place
  <2> QED BY <2>1, <2>2, <2>3
<1>4. Types' /\ LockInv' /\ JournalInv'
  BY <1>2 DEF Types, LockInv, JournalInv
<1>5. StateInv' /\ PlayInv' /\ CleanInv'
  BY DEF StateInv, Place, Committing, Writing, Playing, PlayInv, CleanInv, Clean, Committed, Synced
<1>6. WriterInv'
  BY <1>1, <1>2, FirstPage DEF WriterInv, Journaling, Committed, Playing, Synced, Types
<1>7. DiskInv'
  BY DEF DiskInv, Committed, After
<1>8. CacheInv'
  BY <1>1, <1>2, <1>3 DEF CacheInv, Committed, Journaling, Playing
<1> QED BY <1>4, <1>5, <1>6, <1>7, <1>8

\* What pager_write does: the journal gets what the page was.
LEMMA PagerWriteEffect ==
  ASSUME Inv, NEW c \in Conns, NEW p \in Pages, NEW v \in Nat,
         eState[c] \in {"WRITER_LOCKED", "WRITER_CACHEMOD", "WRITER_DBMOD"}, step[c] = "none",
         PagerWrite(c, p, v)
  PROVE  /\ IsImage(journal')
         /\ DOMAIN journal' = (IF Journaling(c) THEN DOMAIN journal ELSE {}) \cup {p}
         /\ \A x \in DOMAIN journal' :
              journal'[x] = IF Journaling(c) /\ x \in DOMAIN journal THEN journal[x] ELSE db[x]
         /\ counted' = (IF Journaling(c) THEN counted ELSE {})
         /\ journalDisk' = (IF Journaling(c) THEN journalDisk ELSE journalDisk \cup {<< >>})
         /\ \A x \in Pages : Committed(x)' = Committed(x)
         /\ DOMAIN cache' = Conns /\ IsImage(cache'[c]) /\ DOMAIN cache'[c] = {p} \cup DOMAIN cache[c]
         /\ cache'[c][p] = v
         /\ \A x \in DOMAIN cache[c] \ {p} : cache'[c][x] = cache[c][x]
         /\ \A d \in Conns \ {c} : cache'[d] = cache[d]
         /\ dirty' = [dirty EXCEPT ![c] = @ \cup {p}]
         /\ eState' = [eState EXCEPT ![c] = IF Journaling(c) THEN @ ELSE "WRITER_CACHEMOD"]
         /\ UNCHANGED <<db, disk, dbFileVers, txn, todo, transactions>>
         /\ ~Journaling(c) => Clean
         /\ \A d \in Conns \ {c} : ~Journaling(d) /\ ~Playing(d)
<1> DEFINE before == IF Journaling(c) THEN journal ELSE << >>
           old == IF p \in DOMAIN cache[c] THEN cache[c][p] ELSE db[p]
<1>1. ~Journaling(c) => Clean
  BY DEF Inv, CleanInv, Journaling, Modified
<1>2. \A d \in Conns \ {c} : ~Journaling(d) /\ ~Playing(d)
  <2>1. lock[c] \in AboveShared
    BY DEF Inv, StateInv, Place, AboveShared
  <2>2. \A d \in Conns \ {c} : lock[d] \notin AboveShared
    BY <2>1 DEF Inv, LockInv
  <2> QED BY <2>2 DEF Inv, StateInv, Place, Playing, Journaling, Modified, AboveShared
<1>3. ~(Journaling(c) /\ p \in DOMAIN journal) => old = db[p]
  BY <1>1 DEF Inv, CacheInv, Committed, Clean, JournalInv
<1>4. db[p] \in Nat /\ IsImage(before) /\ IsImage(cache[c])
  BY EmptyImage DEF Inv, Types
<1>5. /\ journal' = Over(before, Single(p, old))
      /\ counted' = (IF Journaling(c) THEN counted ELSE {})
      /\ journalDisk' = (IF Journaling(c) THEN journalDisk ELSE journalDisk \cup {<< >>})
      /\ cache' = [cache EXCEPT ![c] = Over(Single(p, v), @)]
      /\ dirty' = [dirty EXCEPT ![c] = @ \cup {p}]
      /\ eState' = [eState EXCEPT ![c] = IF Journaling(c) THEN @ ELSE "WRITER_CACHEMOD"]
      /\ UNCHANGED <<db, disk, dbFileVers, txn, todo, transactions>>
  BY DEF PagerWrite
<1>6. /\ DOMAIN cache' = Conns /\ IsImage(cache'[c]) /\ DOMAIN cache'[c] = {p} \cup DOMAIN cache[c]
      /\ cache'[c][p] = v
      /\ \A x \in DOMAIN cache[c] \ {p} : cache'[c][x] = cache[c][x]
      /\ \A d \in Conns \ {c} : cache'[d] = cache[d]
  BY <1>4, <1>5 DEF Inv, Types, IsImage, Over, Single
<1>7. old \in Nat
  BY <1>4 DEF IsImage
<1>8. DOMAIN before = IF Journaling(c) THEN DOMAIN journal ELSE {}
  BY EmptyImage
<1>9. /\ IsImage(journal') /\ DOMAIN journal' = DOMAIN before \cup {p}
      /\ \A x \in DOMAIN before : journal'[x] = before[x]
      /\ p \notin DOMAIN before => journal'[p] = old
  <2> HIDE DEF before, old
  <2> QED BY <1>4, <1>5, <1>7 DEF IsImage, Over, Single
<1>10. \A x \in DOMAIN journal' :
         journal'[x] = IF Journaling(c) /\ x \in DOMAIN journal THEN journal[x] ELSE db[x]
  <2> HIDE DEF old
  <2> QED BY <1>3, <1>8, <1>9
<1>11. \A x \in Pages : Committed(x)' = Committed(x)
  <2>1. CASE Journaling(c)
    BY <1>5, <1>8, <1>9, <2>1 DEF Committed, Inv, JournalInv
  <2>2. CASE ~Journaling(c)
    BY <1>1, <1>5, <2>2 DEF Committed, Clean
  <2> QED BY <2>1, <2>2
<1> QED BY <1>1, <1>2, <1>5, <1>6, <1>8, <1>9, <1>10, <1>11

LEMMA WriteStep == ASSUME Inv, NEW c \in Conns, NEW p \in Pages \ {1}, Write(c, p) PROVE Inv'
<1>1. /\ eState[c] \in {"WRITER_LOCKED", "WRITER_CACHEMOD", "WRITER_DBMOD"} /\ step[c] = "none"
      /\ stmt[c] = "write" /\ PagerWrite(c, p, txn[c]) /\ txn[c] \in Nat
      /\ UNCHANGED <<lock, step, stmt, saved, autoCommit, crashes>>
  BY DEF Write, Runs, Writing, Inv, StateInv, Place, Playing, stmtVars, Types
<1>2. PICK v \in Nat : PagerWrite(c, p, v)
  BY <1>1
<1>3. /\ IsImage(journal')
      /\ DOMAIN journal' = (IF Journaling(c) THEN DOMAIN journal ELSE {}) \cup {p}
      /\ \A x \in DOMAIN journal' :
           journal'[x] = IF Journaling(c) /\ x \in DOMAIN journal THEN journal[x] ELSE db[x]
      /\ counted' = (IF Journaling(c) THEN counted ELSE {})
      /\ journalDisk' = (IF Journaling(c) THEN journalDisk ELSE journalDisk \cup {<< >>})
      /\ \A x \in Pages : Committed(x)' = Committed(x)
  BY <1>1, <1>2, PagerWriteEffect
<1>4. /\ DOMAIN cache' = Conns /\ IsImage(cache'[c]) /\ DOMAIN cache'[c] = {p} \cup DOMAIN cache[c]
      /\ \A x \in DOMAIN cache[c] \ {p} : cache'[c][x] = cache[c][x]
      /\ \A d \in Conns \ {c} : cache'[d] = cache[d]
      /\ dirty' = [dirty EXCEPT ![c] = @ \cup {p}]
      /\ eState' = [eState EXCEPT ![c] = IF Journaling(c) THEN @ ELSE "WRITER_CACHEMOD"]
      /\ UNCHANGED <<db, disk, dbFileVers, txn, todo, transactions>>
  BY <1>1, <1>2, PagerWriteEffect
<1>5. (~Journaling(c) => Clean) /\ \A d \in Conns \ {c} : ~Journaling(d) /\ ~Playing(d)
  BY <1>1, <1>2, PagerWriteEffect
<1>6. Journaling(c)' /\ ~Playing(c)' /\ \A d \in Conns \ {c} : ~Journaling(d)' /\ ~Playing(d)'
  BY <1>1, <1>4, <1>5 DEF Journaling, Modified, Playing, Inv, Types
<1>14. /\ eState'[c] = IF Journaling(c) THEN eState[c] ELSE "WRITER_CACHEMOD"
       /\ dirty'[c] = dirty[c] \cup {p}
       /\ \A d \in Conns \ {c} : eState'[d] = eState[d] /\ dirty'[d] = dirty[d]
  BY <1>4 DEF Inv, Types
<1>15. DOMAIN journal' # {} /\ p # 1
  BY <1>3
<1>16. Journaling(c) => eState[c] \in {"WRITER_CACHEMOD", "WRITER_DBMOD"}
  BY <1>1 DEF Journaling, Modified
<1> USE DEF Inv
<1>7. Types'
  <2>1. eState' \in [Conns -> States] /\ dirty' \in [Conns -> SUBSET Pages]
    BY <1>4 DEF Types, States
  <2>2. \A d \in Conns : IsImage(cache'[d])
    BY <1>4 DEF Types
  <2>3. counted' \in SUBSET Pages /\ \A r \in journalDisk' : IsImage(r)
    BY <1>3, EmptyImage DEF Types
  <2> QED BY <1>1, <1>3, <1>4, <2>1, <2>2, <2>3 DEF Types
<1>8. LockInv' /\ JournalInv'
  BY <1>1, <1>3, <1>4 DEF LockInv, JournalInv
<1>9. StateInv'
  <2> SUFFICES ASSUME NEW d \in Conns PROVE StateInv!(d)'
    BY DEF StateInv
  <2>1. CASE d = c
    BY <1>1, <1>14, <1>15, <1>16, <2>1 DEF StateInv, Place, Committing, Writing, AboveShared, Playing
  <2>2. CASE d # c
    BY <1>1, <1>14, <1>15, <2>2 DEF StateInv, Place, Committing, Writing, Playing
  <2> QED BY <2>1, <2>2
<1>10. WriterInv'
  <2> SUFFICES ASSUME NEW d \in Conns PROVE WriterInv!(d)'
    BY DEF WriterInv
  <2>1. CASE d # c
    BY <1>1, <1>4, <1>5, <1>6, <2>1 DEF WriterInv, Types
  <2>2. CASE d = c
    <3>1. CASE Journaling(c)
      <4>1. /\ DOMAIN journal' \ counted' \subseteq dirty'[c] /\ dirty'[c] \subseteq DOMAIN journal'
            /\ DOMAIN journal' \subseteq DOMAIN cache'[c] /\ DOMAIN saved'[c] \subseteq DOMAIN journal'
        BY <1>1, <1>3, <1>4, <1>14, <3>1 DEF WriterInv
      <4>2. \A x \in DOMAIN journal' \ dirty'[c] : cache'[c][x] = db'[x]
        BY <1>1, <1>3, <1>4, <1>14, <3>1 DEF WriterInv, Playing
      <4>3. /\ eState'[c] = "WRITER_CACHEMOD" => counted' = {}
            /\ 1 \notin DOMAIN journal' /\ step'[c] = "none"
        BY <1>1, <1>3, <1>14, <1>15, <3>1 DEF WriterInv
      <4> QED BY <1>6, <2>2, <4>1, <4>2, <4>3
    <3>2. CASE ~Journaling(c)
      BY <1>1, <1>3, <1>4, <1>6, <1>14, <1>15, <2>2, <3>2 DEF WriterInv
    <3> QED BY <3>1, <3>2
  <2> QED BY <2>1, <2>2
<1>11. PlayInv' /\ CleanInv'
  BY <1>1, <1>3, <1>4, <1>5, <1>6 DEF PlayInv, CleanInv, Clean, Synced, Types, Journaling, Modified,
     StateInv, Place, Playing
<1>12. DiskInv'
  <2>1. \A r : \A x \in Pages : After(r, x)' = After(r, x)
    BY <1>4 DEF After
  <2>2. \A x \in Pages : After(<< >>, x) = db[x]
    BY EmptyImage DEF After
  <2>3. CASE Journaling(c)
    BY <1>1, <1>3, <1>4, <1>14, <2>1, <2>3 DEF DiskInv, Modified
  <2>4. CASE ~Journaling(c)
    <3>1. \A x \in Pages : disk[x] = {db[x]} /\ db[x] = Committed(x)
      BY <1>5, <2>4 DEF Clean, Synced
    <3>2. \A d \in Conns : eState'[d] \notin Modified
      BY <1>5, <1>14, <2>4 DEF Modified, Journaling
    <3> QED BY <1>3, <1>4, <2>1, <2>2, <2>4, <3>1, <3>2 DEF DiskInv
  <2> QED BY <2>3, <2>4
<1>13. CacheInv'
  <2> SUFFICES ASSUME NEW d \in Conns PROVE CacheInv!(d)'
    BY DEF CacheInv
  <2>1. CASE d # c
    <3>1. \A x \in DOMAIN cache[d] : x \in Pages
      BY DEF Types, IsImage
    <3> QED BY <1>3, <1>4, <1>5, <1>6, <1>14, <2>1, <3>1, FirstPage DEF CacheInv
  <2>2. CASE d = c
    <3>1. eState'[c] # "OPEN" /\ eState[c] # "OPEN"
      BY <1>1, <1>14
    <3>2. 1 \in DOMAIN cache'[c] /\ dbFileVers'[c] = db'[1]
      BY <1>1, <1>4, <3>1 DEF CacheInv, Playing
    <3>3. ASSUME NEW x \in DOMAIN cache'[c], x \notin DOMAIN journal'
          PROVE  cache'[c][x] = Committed(x)'
      <4>1. x \in Pages /\ x \in DOMAIN cache[c] /\ x # p
        BY <1>3, <1>4, <3>3 DEF IsImage
      <4>2. Journaling(c) => x \notin DOMAIN journal
        BY <1>3, <3>3
      <4> QED BY <1>3, <1>4, <3>1, <4>1, <4>2 DEF CacheInv
    <3> QED BY <1>6, <2>2, <3>1, <3>2, <3>3
  <2> QED BY <2>1, <2>2
<1> QED BY <1>7, <1>8, <1>9, <1>10, <1>11, <1>12, <1>13

\* No other connection has a lock, so it does nothing.
LEMMA AloneWith ==
  ASSUME Inv, NEW c \in Conns, \A d \in Conns \ {c} : lock[d] = "NO"
  PROVE  \A d \in Conns \ {c} : eState[d] = "OPEN" /\ step[d] = "none" /\ ~Journaling(d)
  BY DEF Inv, StateInv, Place, AboveShared, Playing, Journaling, Modified

LEMMA OthersNone ==
  ASSUME Inv, NEW c \in Conns, ~Others(c, Locks \ {"NO"})
  PROVE  \A d \in Conns \ {c} : lock[d] = "NO"
  BY DEF Inv, Types, Others

LEMMA CommitStartStep == ASSUME Inv, NEW c \in Conns, CommitStart(c) PROVE Inv'
<1>1. Committing(c) /\ step[c] = "none" /\ Writing(c)
  BY DEF CommitStart, Inv, StateInv
<1>2. eState[c] \in {"WRITER_LOCKED", "WRITER_CACHEMOD", "WRITER_DBMOD"}
  BY <1>1 DEF Writing, Inv, StateInv, Place, Playing
<1>3. \A d \in Conns \ {c} : lock[d] = "NO"
  BY OthersNone DEF CommitStart
<1>4. CASE ~Journaling(c)
  <2>1. /\ eState[c] = "WRITER_LOCKED" /\ PagerUnlock(c) /\ Is(c, "none")
        /\ UNCHANGED <<fileVars, cacheVars, todo, transactions, crashes, autoCommit>>
    BY <1>2, <1>4 DEF CommitStart, Journaling, Modified
  <2> QED BY <2>1, IsEffect, UnlockStep DEF Statements, Inv, Types
<1>5. CASE Journaling(c)
  <2>1. PICK v \in Nat : v = cache[c][1] + 1 /\ PagerWrite(c, 1, v)
    <3>1. cache[c][1] \in Nat
      BY <1>2 DEF Inv, CacheInv, Types, IsImage
    <3> QED BY <1>5, <3>1 DEF CommitStart
  <2>2. /\ IsImage(journal')
        /\ DOMAIN journal' = DOMAIN journal \cup {1}
        /\ \A x \in DOMAIN journal' :
             journal'[x] = IF x \in DOMAIN journal THEN journal[x] ELSE db[x]
        /\ counted' = counted /\ journalDisk' = journalDisk
        /\ \A x \in Pages : Committed(x)' = Committed(x)
        /\ DOMAIN cache' = Conns /\ IsImage(cache'[c]) /\ DOMAIN cache'[c] = {1} \cup DOMAIN cache[c]
        /\ cache'[c][1] = v
        /\ \A x \in DOMAIN cache[c] \ {1} : cache'[c][x] = cache[c][x]
        /\ \A d \in Conns \ {c} : cache'[d] = cache[d]
        /\ dirty' = [dirty EXCEPT ![c] = @ \cup {1}]
        /\ eState' = [eState EXCEPT ![c] = @]
        /\ UNCHANGED <<db, disk, dbFileVers, txn, todo, transactions>>
    <3>1. PICK p \in Pages : p = 1
      BY FirstPage
    <3>2. PagerWrite(c, p, v)
      BY <2>1, <3>1
    <3>3. /\ IsImage(journal')
          /\ DOMAIN journal' = DOMAIN journal \cup {p}
          /\ \A x \in DOMAIN journal' :
               journal'[x] = IF x \in DOMAIN journal THEN journal[x] ELSE db[x]
          /\ counted' = counted /\ journalDisk' = journalDisk
          /\ \A x \in Pages : Committed(x)' = Committed(x)
      BY <1>1, <1>2, <1>5, <3>2, PagerWriteEffect
    <3>4. /\ DOMAIN cache' = Conns /\ IsImage(cache'[c]) /\ DOMAIN cache'[c] = {p} \cup DOMAIN cache[c]
          /\ cache'[c][p] = v
          /\ \A x \in DOMAIN cache[c] \ {p} : cache'[c][x] = cache[c][x]
          /\ \A d \in Conns \ {c} : cache'[d] = cache[d]
          /\ dirty' = [dirty EXCEPT ![c] = @ \cup {p}]
          /\ eState' = [eState EXCEPT ![c] = @]
          /\ UNCHANGED <<db, disk, dbFileVers, txn, todo, transactions>>
      BY <1>1, <1>2, <1>5, <3>2, PagerWriteEffect
    <3> QED BY <3>1, <3>3, <3>4
  <2>3. /\ lock' = [lock EXCEPT ![c] = "EXCLUSIVE"] /\ step' = [step EXCEPT ![c] = "count"]
        /\ UNCHANGED <<stmt, saved, autoCommit, crashes>>
    BY <1>5 DEF CommitStart, ExclusiveLock, GoTo
  <2>4. \A d \in Conns \ {c} : eState[d] = "OPEN" /\ step[d] = "none" /\ ~Journaling(d)
    BY <1>3, AloneWith
  <2>5. /\ eState' = eState /\ step'[c] = "count" /\ lock'[c] = "EXCLUSIVE"
        /\ \A d \in Conns \ {c} : step'[d] = "none" /\ lock'[d] = "NO" /\ dirty'[d] = dirty[d]
        /\ dirty'[c] = dirty[c] \cup {1}
    BY <1>3, <2>2, <2>3, <2>4 DEF Inv, Types
  <2>6. 1 \notin DOMAIN journal /\ 1 \in DOMAIN cache[c] /\ v = Committed(1) + 1
    BY <1>1, <1>2, <1>5, <2>1 DEF Inv, WriterInv, CacheInv
  <2>7. eState[c] \in {"WRITER_CACHEMOD", "WRITER_DBMOD"}
    BY <1>2, <1>5 DEF Journaling, Modified
  <2>8. Types'
    <3>1. \A d \in Conns : IsImage(cache'[d])
      BY <2>2 DEF Inv, Types
    <3>2. /\ lock' \in [Conns -> Locks] /\ step' \in [Conns -> Steps]
          /\ dirty' \in [Conns -> SUBSET Pages]
      BY <2>2, <2>3, FirstPage DEF Inv, Types, Locks, Steps
    <3> QED BY <2>2, <2>3, <2>5, <3>1, <3>2 DEF Inv, Types
  <2> USE DEF Inv
  <2>9. LockInv' /\ JournalInv'
    BY <2>2, <2>5 DEF LockInv, AboveShared, JournalInv
  <2>10. StateInv'
    <3> SUFFICES ASSUME NEW d \in Conns PROVE StateInv!(d)'
      BY DEF StateInv
    <3>1. CASE d = c
      BY <1>1, <2>2, <2>3, <2>5, <2>7, <3>1 DEF StateInv, Place, Committing, Writing
    <3>2. CASE d # c
      BY <2>3, <2>4, <2>5, <3>2 DEF StateInv, Place, Committing, Writing
    <3> QED BY <3>1, <3>2
  <2>11. WriterInv'
    <3> SUFFICES ASSUME NEW d \in Conns PROVE WriterInv!(d)'
      BY DEF WriterInv
    <3>1. CASE d # c
      BY <2>3, <2>4, <2>5, <3>1 DEF WriterInv, Journaling
    <3>2. CASE d = c
      <4>1. /\ DOMAIN journal' \ counted' \subseteq dirty'[c] /\ dirty'[c] \subseteq DOMAIN journal'
            /\ DOMAIN journal' \subseteq DOMAIN cache'[c]
            /\ stmt'[c] = "write" => DOMAIN saved'[c] \subseteq DOMAIN journal'
        BY <1>5, <2>2, <2>3, <2>5 DEF WriterInv
      <4>2. \A x \in DOMAIN journal' \ dirty'[c] : cache'[c][x] = db'[x]
        BY <1>1, <1>5, <2>2, <2>5, <2>6 DEF WriterInv, Playing
      <4>3. /\ eState'[c] = "WRITER_CACHEMOD" => counted' = {}
            /\ 1 \in DOMAIN journal' /\ cache'[c][1] = Committed(1)' + 1 /\ Journaling(c)'
        BY <1>1, <1>5, <2>2, <2>5, <2>6, FirstPage DEF WriterInv, Journaling
      <4> QED BY <2>5, <3>2, <4>1, <4>2, <4>3
    <3> QED BY <3>1, <3>2
  <2>12. PlayInv' /\ CleanInv'
    BY <1>1, <2>2, <2>4, <2>5 DEF PlayInv, Playing, CleanInv, Clean, Synced
  <2>13. DiskInv'
    <3>1. \A r : \A x \in Pages : After(r, x)' = After(r, x)
      BY <2>2 DEF After
    <3> QED BY <1>1, <2>2, <2>4, <2>5, <3>1 DEF DiskInv, Modified
  <2>14. CacheInv'
    <3> SUFFICES ASSUME NEW d \in Conns PROVE CacheInv!(d)'
      BY DEF CacheInv
    <3>1. CASE d # c
      <4>1. \A x \in DOMAIN cache[d] : x \in Pages
        BY DEF Types, IsImage
      <4> QED BY <2>2, <2>4, <2>5, <3>1, <4>1, FirstPage DEF CacheInv
    <3>2. CASE d = c
      <4>1. 1 \in DOMAIN cache'[c] /\ dbFileVers'[c] = db'[1] /\ eState'[c] # "OPEN"
        BY <1>1, <2>2, <2>5, <2>7 DEF CacheInv, Playing
      <4>2. ASSUME NEW x \in DOMAIN cache'[c], x \notin DOMAIN journal'
            PROVE  cache'[c][x] = Committed(x)'
        <5>1. x \in Pages /\ x \in DOMAIN cache[c] /\ x # 1 /\ x \notin DOMAIN journal
          BY <2>2, <4>2 DEF IsImage
        <5> QED BY <2>2, <2>7, <5>1 DEF CacheInv
      <4>3. Journaling(c)'
        BY <2>5, <2>7 DEF Journaling, Modified
      <4> QED BY <3>2, <4>1, <4>2, <4>3
    <3> QED BY <3>1, <3>2
  <2> QED BY <2>8, <2>9, <2>10, <2>11, <2>12, <2>13, <2>14
<1> QED BY <1>4, <1>5

\* The records are counted, for a page to be spilled or for the commit.
LEMMA CountRecordsStep ==
  ASSUME Inv, NEW c \in Conns, Journaling(c), stmt[c] # "none", NEW t,
         (step[c] = "none" /\ t = "spill") \/ (step[c] = "count" /\ t = "counted"),
         CountRecords(c), lock' = [lock EXCEPT ![c] = "EXCLUSIVE"],
         \A d \in Conns \ {c} : lock[d] = "NO",
         GoTo(c, t), UNCHANGED <<eState, cacheVars, txn, todo, transactions, stmtVars, crashes>>
  PROVE  Inv'
<1> USE DEF Inv, CountRecords, cacheVars, stmtVars
<1>1. \A d \in Conns \ {c} : eState[d] = "OPEN" /\ step[d] = "none" /\ ~Journaling(d)
  BY AloneWith
<1>2. /\ step'[c] = t /\ lock'[c] = "EXCLUSIVE"
      /\ \A d \in Conns \ {c} : step'[d] = step[d] /\ lock'[d] = lock[d]
  BY DEF Types, GoTo
<1>3. eState[c] \in {"WRITER_CACHEMOD", "WRITER_DBMOD"} /\ DOMAIN journal # {}
  BY DEF StateInv, Place, Journaling, Modified, Playing
<1>4. \A x \in Pages : Committed(x)' = Committed(x)
  BY DEF Committed, JournalInv
<1>5. Types'
  <2>1. lock' \in [Conns -> Locks] /\ step' \in [Conns -> Steps]
    BY DEF Types, GoTo, Locks, Steps
  <2>2. counted' \in SUBSET Pages
    BY DEF Types, IsImage
  <2>3. \A r \in journalDisk' : IsImage(r)
    BY DEF Types
  <2> QED BY <2>1, <2>2, <2>3 DEF Types
<1>6. LockInv' /\ JournalInv'
  BY <1>2 DEF LockInv, AboveShared, JournalInv
<1>7. StateInv'
  <2> SUFFICES ASSUME NEW d \in Conns PROVE StateInv!(d)'
    BY DEF StateInv
  <2>1. CASE d = c
    BY <1>2, <1>3, <2>1 DEF StateInv, Place, Committing, Writing, Playing
  <2>2. CASE d # c
    BY <1>1, <1>2, <2>2 DEF StateInv, Place, Committing, Writing, Playing
  <2> QED BY <2>1, <2>2
<1>8. WriterInv'
  <2> SUFFICES ASSUME NEW d \in Conns PROVE WriterInv!(d)'
    BY DEF WriterInv
  <2>1. CASE d = c
    <3>1. 1 \in DOMAIN journal <=> t = "counted"
      BY DEF WriterInv
    <3>2. t = "counted" => cache[c][1] = Committed(1)' + 1
      BY <1>4, FirstPage DEF WriterInv
    <3> QED BY <1>2, <1>3, <2>1, <3>1, <3>2 DEF WriterInv, Journaling, Modified, Playing
  <2>2. CASE d # c
    BY <1>1, <2>2 DEF WriterInv, Journaling
  <2> QED BY <2>1, <2>2
<1>9. PlayInv'
  BY <1>1, <1>2 DEF PlayInv, Playing
<1>10. CleanInv'
  BY <1>1, <1>2, <1>4 DEF CleanInv, Clean, Synced
<1>11. DiskInv'
  <2>1. \A r : \A x \in Pages : After(r, x)' = After(r, x)
    BY DEF After
  <2>2. (\A x \in Pages : After(journal, x) = Committed(x)) /\ counted \subseteq DOMAIN journal
    BY DEF After, JournalInv, Committed
  <2>3. \A x \in Pages : disk[x] # {db[x]} \/ db[x] # Committed(x) => x \in DOMAIN journal
    BY <2>2 DEF DiskInv, Committed
  <2> QED BY <1>1, <1>2, <1>4, <2>1, <2>2, <2>3 DEF DiskInv, Modified
<1>12. CacheInv'
  <2>1. \A d \in Conns : \A x \in DOMAIN cache[d] : x \in Pages
    BY DEF Types, IsImage
  <2> QED BY <1>2, <1>4, <2>1, FirstPage DEF CacheInv, Journaling, Playing
<1> QED BY <1>5, <1>6, <1>7, <1>8, <1>9, <1>10, <1>11, <1>12

LEMMA SyncRecordsStep ==
  ASSUME Inv, NEW c \in Conns, NEW t,
         (step[c] = "spill" /\ t = "none") \/ (step[c] = "counted" /\ t = "write"),
         SyncRecords(c), GoTo(c, t), UNCHANGED <<stmtVars, crashes>>
  PROVE  Inv'
<1> USE DEF Inv, SyncRecords, cacheVars, stmtVars
<1>1. /\ step'[c] = t /\ eState'[c] = "WRITER_DBMOD"
      /\ \A d \in Conns \ {c} : step'[d] = step[d] /\ eState'[d] = eState[d]
  BY DEF Types, GoTo
<1>2. /\ eState[c] \in {"WRITER_CACHEMOD", "WRITER_DBMOD"} /\ lock[c] = "EXCLUSIVE"
      /\ DOMAIN journal # {} /\ Journaling(c)
  BY DEF StateInv, Place, Playing, Journaling, Modified
<1>3. counted = DOMAIN journal
  BY <1>2 DEF WriterInv
<1>4. \A d \in Conns \ {c} : eState[d] = "OPEN" /\ step[d] = "none" /\ ~Journaling(d)
  BY <1>2, AloneWith DEF LockInv
<1>5. \A x \in Pages : Committed(x)' = Committed(x)
  BY DEF Committed
<1>6. Types'
  <2>1. eState' \in [Conns -> States] /\ step' \in [Conns -> Steps]
    BY DEF Types, GoTo, States, Steps
  <2> QED BY <2>1 DEF Types
<1>7. LockInv' /\ JournalInv'
  BY DEF LockInv, JournalInv
<1>8. StateInv'
  <2> SUFFICES ASSUME NEW d \in Conns PROVE StateInv!(d)'
    BY DEF StateInv
  <2>1. CASE d = c
    BY <1>1, <1>2, <2>1 DEF StateInv, Place, Committing, Writing, Playing
  <2>2. CASE d # c
    BY <1>1, <1>4, <2>2 DEF StateInv, Place, Committing, Writing, Playing
  <2> QED BY <2>1, <2>2
<1>9. WriterInv'
  <2> SUFFICES ASSUME NEW d \in Conns PROVE WriterInv!(d)'
    BY DEF WriterInv
  <2>1. CASE d = c
    BY <1>1, <1>2, <1>5, <2>1, FirstPage DEF WriterInv, Journaling, Modified, Playing
  <2>2. CASE d # c
    BY <1>1, <1>4, <2>2 DEF WriterInv, Journaling
  <2> QED BY <2>1, <2>2
<1>10. PlayInv' /\ CleanInv'
  BY <1>1, <1>4 DEF PlayInv, Playing, CleanInv
<1>11. DiskInv'
  <2>1. \A r : \A x \in Pages : After(r, x)' = After(r, x)
    BY DEF After
  <2>2. \A x \in Pages : After(journal, x) = Committed(x)
    BY <1>3 DEF After, Committed
  <2>3. \A x \in Pages : disk[x] # {db[x]} \/ db[x] # Committed(x) => x \in DOMAIN journal
    BY <1>3 DEF DiskInv, Committed
  <2> QED BY <1>1, <1>3, <1>4, <1>5, <2>1, <2>2, <2>3 DEF DiskInv, Modified
<1>12. CacheInv'
  BY <1>1, <1>2, <1>4, <1>5 DEF CacheInv, Committed, Journaling, Modified, Playing
<1> QED BY <1>6, <1>7, <1>8, <1>9, <1>10, <1>11, <1>12

\* A page is written to the file: every journal has what it was.
LEMMA WriteOutStep ==
  ASSUME Inv, NEW c \in Conns, NEW p \in Pages, WriteOut(c, p), eState[c] = "WRITER_DBMOD",
         step[c] \in {"none", "write"}, UNCHANGED <<stmtVars, crashes>>
  PROVE  Inv' /\ ImagesKept
<1> USE DEF Inv, WriteOut, journalVars, stmtVars
<1>1. lock[c] = "EXCLUSIVE" /\ Journaling(c)
  BY DEF StateInv, Place, Journaling, Modified
<1>2. \A d \in Conns \ {c} : eState[d] = "OPEN" /\ step[d] = "none" /\ ~Journaling(d)
  BY <1>1, AloneWith DEF LockInv
<1>3. p \in DOMAIN journal /\ p \in DOMAIN cache[c] /\ cache[c][p] \in Nat
  BY <1>1 DEF JournalInv, WriterInv, Types, IsImage
<1>4. /\ db' = [db EXCEPT ![p] = cache[c][p]]
      /\ disk' = [disk EXCEPT ![p] = @ \cup {cache[c][p]}]
      /\ dirty' = [dirty EXCEPT ![c] = @ \ {p}]
  BY DEF WriteFile
<1>5. /\ db'[p] = cache[c][p] /\ \A x \in Pages \ {p} : db'[x] = db[x] /\ disk'[x] = disk[x]
      /\ disk'[p] = disk[p] \cup {cache[c][p]}
      /\ dirty'[c] = dirty[c] \ {p} /\ \A d \in Conns \ {c} : dirty'[d] = dirty[d]
  BY <1>4 DEF Types
<1>6. \A r \in journalDisk : counted \subseteq DOMAIN r /\ p \in DOMAIN r
  BY DEF DiskInv, Modified
<1>7. \A x \in Pages : Committed(x)' = Committed(x)
  BY <1>5 DEF Committed
<1>8. \A r \in journalDisk : \A x \in Pages : After(r, x)' = After(r, x)
  BY <1>5, <1>6 DEF After
<1>9. /\ \A d \in Conns \ {c} : dbFileVers'[d] = dbFileVers[d]
      /\ dbFileVers'[c] = IF p = 1 THEN db'[1] ELSE dbFileVers[c]
  BY <1>5 DEF Types
<1>10. Types'
  <2>1. /\ db' \in [Pages -> Nat] /\ disk' \in [Pages -> SUBSET Nat]
        /\ dirty' \in [Conns -> SUBSET Pages]
    BY <1>3, <1>4 DEF Types
  <2>2. dbFileVers' \in [Conns -> Nat]
    BY <1>3 DEF Types
  <2> QED BY <2>1, <2>2 DEF Types
<1>11. LockInv' /\ StateInv'
  BY DEF LockInv, StateInv, Place, Committing, Writing, Playing
<1>12. JournalInv'
  <2>1. \A x \in DOMAIN journal : x \in Pages
    BY DEF Types, IsImage
  <2> QED BY <1>5, <2>1 DEF JournalInv
<1>13. WriterInv'
  <2> SUFFICES ASSUME NEW d \in Conns PROVE WriterInv!(d)'
    BY DEF WriterInv
  <2>1. CASE d = c
    <3>1. \A x \in DOMAIN journal : x \in Pages
      BY DEF Types, IsImage
    <3>2. \A x \in DOMAIN journal \ dirty'[c] : cache[c][x] = db'[x]
      BY <1>1, <1>5, <3>1 DEF WriterInv, Playing
    <3> QED BY <1>1, <1>5, <1>7, <2>1, <3>2, FirstPage DEF WriterInv, Journaling, Playing
  <2>2. CASE d # c
    BY <1>2, <1>5, <2>2 DEF WriterInv, Journaling
  <2> QED BY <2>1, <2>2
<1>14. PlayInv' /\ CleanInv'
  BY <1>2 DEF PlayInv, Playing, CleanInv
<1>15. DiskInv'
  <2>1. \A x \in Pages : disk'[x] # {db'[x]} \/ db'[x] # Committed(x) =>
          \A r \in journalDisk : x \in DOMAIN r
    BY <1>5, <1>6 DEF DiskInv
  <2> QED BY <1>2, <1>5, <1>7, <1>8, <2>1 DEF DiskInv, Modified
<1>16. CacheInv'
  <2>1. \A d \in Conns : \A x \in DOMAIN cache[d] : x \in Pages
    BY DEF Types, IsImage
  <2>2. dbFileVers'[c] = db'[1]
    BY <1>5, <1>9, FirstPage DEF CacheInv, Playing
  <2> QED BY <1>2, <1>7, <1>9, <2>1, <2>2, FirstPage DEF CacheInv, Journaling, Playing
<1>17. ImagesKept
  BY <1>7, <1>8 DEF ImagesKept
<1> QED BY <1>10, <1>11, <1>12, <1>13, <1>14, <1>15, <1>16, <1>17

\* A lock that is not given, with the connection as it was.
LEMMA PendingStep ==
  ASSUME Inv, NEW c \in Conns, lock[c] \in AboveShared, eState[c] # "OPEN",
         Others(c, Locks \ {"NO"}), ExclusiveLock(c),
         UNCHANGED <<fileVars, eState, cacheVars, txn, step, todo, transactions, crashes>>,
         step[c] = "none", Writing(c), \A d \in Conns \ {c} : stmt'[d] = stmt[d]
                                         /\ saved'[d] = saved[d] /\ autoCommit'[d] = autoCommit[d],
         stmt' \in [Conns -> Statements], DOMAIN saved' = Conns, IsImage(saved'[c]),
         autoCommit' \in [Conns -> BOOLEAN],
         (stmt'[c] = stmt[c] /\ saved'[c] = saved[c] /\ autoCommit'[c] = autoCommit[c])
           \/ (stmt'[c] = "none" /\ ~autoCommit'[c])
  PROVE  Inv'
<1> USE DEF Inv, fileVars, journalVars, cacheVars
<1>1. lock'[c] = "PENDING" /\ \A d \in Conns \ {c} : lock'[d] = lock[d]
  BY DEF ExclusiveLock, Types
<1>2. lock[c] # "EXCLUSIVE"
  BY DEF Others, LockInv
<1>3. Types'
  <2>1. lock' \in [Conns -> Locks]
    BY DEF Types, ExclusiveLock, Locks
  <2> QED BY <2>1 DEF Types
<1>4. LockInv' /\ JournalInv'
  BY <1>1 DEF LockInv, JournalInv, AboveShared
<1>5. StateInv'
  BY <1>1, <1>2 DEF StateInv, Place, Committing, Writing, Playing, AboveShared
<1>6. WriterInv'
  BY DEF WriterInv, Journaling, Committed, Playing, Synced
<1>7. PlayInv' /\ CleanInv'
  BY DEF PlayInv, Playing, CleanInv, Clean, Committed, Synced
<1>8. DiskInv' /\ CacheInv'
  BY DEF DiskInv, Committed, After, CacheInv, Journaling, Playing
<1> QED BY <1>3, <1>4, <1>5, <1>6, <1>7, <1>8

LEMMA SpillStep == ASSUME Inv, NEW c \in Conns, Spill(c) PROVE Inv'
<1>1. /\ stmt[c] = "write" /\ step[c] = "none" /\ Journaling(c) /\ Writing(c)
      /\ UNCHANGED <<stmtVars, crashes>>
  BY DEF Spill, Runs
<1>2. eState[c] \in {"WRITER_CACHEMOD", "WRITER_DBMOD"} /\ lock[c] \in AboveShared
  BY <1>1 DEF Inv, StateInv, Place, Journaling, Modified, AboveShared
<1>3. CASE dirty[c] \subseteq counted /\ \E p \in dirty[c] : WriteOut(c, p)
  <2>1. PICK p \in dirty[c] : WriteOut(c, p)
    BY <1>3
  <2>2. p \in Pages /\ p \in counted
    BY <1>3 DEF Inv, Types
  <2>3. eState[c] = "WRITER_DBMOD"
    BY <1>1, <1>2, <2>2 DEF Inv, WriterInv
  <2> QED BY <1>1, <2>1, <2>2, <2>3, WriteOutStep
<1>4. CASE ~(dirty[c] \subseteq counted /\ \E p \in dirty[c] : WriteOut(c, p))
  <2>1. /\ ExclusiveLock(c)
        /\ IF lock'[c] = "EXCLUSIVE"
           THEN CountRecords(c) /\ GoTo(c, "spill")
           ELSE UNCHANGED <<fileVars, step>>
        /\ UNCHANGED <<eState, cacheVars, txn, todo, transactions>>
    BY <1>4 DEF Spill
  <2>2. CASE Others(c, Locks \ {"NO"})
    <3>1. lock'[c] = "PENDING"
      BY <2>1, <2>2 DEF ExclusiveLock, Inv, Types
    <3> QED BY <1>1, <1>2, <2>1, <2>2, <3>1, PendingStep DEF stmtVars, Inv, Types
  <2>3. CASE ~Others(c, Locks \ {"NO"})
    <3>1. lock' = [lock EXCEPT ![c] = "EXCLUSIVE"] /\ lock'[c] = "EXCLUSIVE"
      BY <2>1, <2>3 DEF ExclusiveLock, Inv, Types
    <3>2. \A d \in Conns \ {c} : lock[d] = "NO"
      BY <2>3, OthersNone
    <3> QED BY <1>1, <2>1, <3>1, <3>2, CountRecordsStep
  <2> QED BY <2>2, <2>3
<1> QED BY <1>3, <1>4

LEMMA HaltOkStep == ASSUME Inv, NEW c \in Conns, HaltOk(c) PROVE Inv'
<1> USE DEF Inv, fileVars, journalVars, cacheVars
<1> DEFINE s == IF autoCommit[c] /\ stmt[c] = "write" THEN "autocommit" ELSE "none"
<1>1. /\ stmt' = [stmt EXCEPT ![c] = s] /\ stmt' \in [Conns -> Statements] /\ stmt'[c] = s
      /\ DOMAIN saved' = Conns /\ IsImage(saved'[c])
      /\ \A d \in Conns \ {c} : saved'[d] = saved[d] /\ stmt'[d] = stmt[d]
  BY IsEffect DEF HaltOk, Statements
<1>2. /\ UNCHANGED <<fileVars, cacheVars, todo, transactions, autoCommit, crashes>>
      /\ stmt[c] \in {"read", "write"} /\ eState[c] # "OPEN" /\ step[c] \in {"none", "begin"}
      /\ stmt[c] = "write" => Writing(c) /\ step[c] = "none"
  BY DEF HaltOk, Runs, Writing
<1>3. CASE autoCommit[c] /\ stmt[c] = "read"
  <2>1. PagerUnlock(c) /\ s = "none" /\ eState[c] = "READER"
    BY <1>2, <1>3 DEF HaltOk, StateInv, Writing, Types, States
  <2> QED BY <1>1, <1>2, <2>1, UnlockStep DEF Types
<1>4. CASE ~(autoCommit[c] /\ stmt[c] = "read")
  <2>1. GoTo(c, "none") /\ UNCHANGED <<lock, eState, txn>>
    BY <1>4 DEF HaltOk
  <2>2. step'[c] = "none" /\ \A d \in Conns \ {c} : step'[d] = step[d]
    BY <2>1 DEF GoTo, Types
  <2>3. Types'
    <3>1. step' \in [Conns -> Steps]
      BY <2>1 DEF Types, GoTo, Steps
    <3> QED BY <1>1, <1>2, <2>1, <3>1 DEF Types
  <2>4. LockInv' /\ JournalInv'
    BY <1>2, <2>1 DEF LockInv, JournalInv
  <2>5. StateInv'
    <3> SUFFICES ASSUME NEW d \in Conns PROVE StateInv!(d)'
      BY DEF StateInv
    <3>1. CASE d = c
      BY <1>1, <1>2, <1>4, <2>1, <2>2, <3>1 DEF StateInv, Place, Committing, Writing, Playing
    <3>2. CASE d # c
      BY <1>1, <1>2, <2>1, <2>2, <3>2 DEF StateInv, Place, Committing, Writing, Playing
    <3> QED BY <3>1, <3>2
  <2>6. WriterInv'
    <3>1. step[c] = "begin" => ~Journaling(c)
      BY DEF StateInv, Place, Playing, Journaling, Modified
    <3> QED BY <1>1, <1>2, <2>1, <2>2, <3>1 DEF WriterInv, Journaling, Committed, Playing, Synced
  <2>7. PlayInv' /\ CleanInv'
    BY <1>2, <2>1, <2>2 DEF PlayInv, Playing, CleanInv, Clean, Committed, Synced
  <2>8. DiskInv'
    <3>1. eState[c] \in Modified => step[c] = "none"
      BY <1>2 DEF StateInv, Place, Playing, Modified
    <3> QED BY <1>2, <2>1, <2>2, <3>1 DEF DiskInv, Committed, After
  <2>9. CacheInv'
    BY <1>2, <2>1, <2>2 DEF CacheInv, Committed, Journaling, Playing
  <2> QED BY <2>3, <2>4, <2>5, <2>6, <2>7, <2>8, <2>9
<1> QED BY <1>3, <1>4

\* A rollback, from where the code makes one.
LEMMA RollbackAllStep ==
  ASSUME Inv, NEW c \in Conns, RollbackAll(c),
         step[c] \in {"none", "begin", "count", "counted", "write"}
  PROVE  Inv'
<1> USE DEF Inv, RollbackAll, PagerRollback
<1> DEFINE s == IF Journaling(c) THEN "ROLLBACK" ELSE "none"
<1>1. /\ stmt' = [stmt EXCEPT ![c] = s] /\ stmt' \in [Conns -> Statements] /\ stmt'[c] = s
      /\ DOMAIN saved' = Conns /\ IsImage(saved'[c])
      /\ \A d \in Conns \ {c} : saved'[d] = saved[d] /\ stmt'[d] = stmt[d]
  BY IsEffect DEF Statements
<1>2. /\ autoCommit' \in [Conns -> BOOLEAN] /\ autoCommit'[c] = TRUE
      /\ \A d \in Conns \ {c} : autoCommit'[d] = autoCommit[d]
  BY DEF SetAutoCommit, Types
<1>3. CASE ~Journaling(c)
  <2>1. eState[c] \in {"OPEN", "READER", "WRITER_LOCKED"}
    BY <1>3 DEF Types, States, Journaling, Modified
  <2>2. eState[c] = "OPEN" => step[c] = "none"
    BY DEF StateInv, Place, Playing
  <2> QED BY <1>1, <1>2, <1>3, <2>1, <2>2, UnlockStep DEF fileVars, cacheVars
<1>4. CASE Journaling(c)
  <2>1. /\ GoTo(c, "play")
        /\ todo' = [todo EXCEPT ![c] = IF eState[c] \in Modified THEN counted ELSE {}]
        /\ UNCHANGED <<fileVars, lock, eState, cacheVars, txn, transactions, crashes>>
    BY <1>4
  <2>2. /\ step'[c] = "play" /\ todo'[c] = (IF eState[c] \in Modified THEN counted ELSE {})
        /\ \A d \in Conns \ {c} : step'[d] = step[d] /\ todo'[d] = todo[d]
    BY <2>1 DEF GoTo, Types
  <2>3. eState[c] \in {"WRITER_CACHEMOD", "WRITER_DBMOD"}
    BY <1>4 DEF StateInv, Place, Journaling, Modified, Playing
  <2> USE DEF fileVars, journalVars, cacheVars
  <2>4. Types'
    <3>1. step' \in [Conns -> Steps] /\ todo' \in [Conns -> SUBSET Pages]
      BY <2>1 DEF Types, GoTo, Steps
    <3> QED BY <1>1, <1>2, <2>1, <3>1 DEF Types
  <2>5. LockInv' /\ JournalInv'
    BY <2>1 DEF LockInv, JournalInv
  <2>6. StateInv'
    <3> SUFFICES ASSUME NEW d \in Conns PROVE StateInv!(d)'
      BY DEF StateInv
    <3>1. CASE d = c
      <4>1. /\ lock[c] \in AboveShared /\ DOMAIN journal # {}
            /\ eState[c] = "WRITER_DBMOD" => lock[c] = "EXCLUSIVE"
        BY <2>3 DEF StateInv, Place, AboveShared
      <4>2. Place(c)'
        BY <2>1, <2>2, <2>3, <4>1 DEF Place, Playing
      <4>3. stmt'[c] = "ROLLBACK"
        BY <1>1, <1>4
      <4> QED BY <2>1, <2>3, <3>1, <4>2, <4>3 DEF Committing
    <3>2. CASE d # c
      BY <1>1, <1>2, <2>1, <2>2, <3>2 DEF StateInv, Place, Committing, Writing, Playing
    <3> QED BY <3>1, <3>2
  <2>7. WriterInv'
    <3> SUFFICES ASSUME NEW d \in Conns PROVE WriterInv!(d)'
      BY DEF WriterInv
    <3>1. CASE d = c
      BY <1>1, <1>4, <2>1, <2>2, <3>1 DEF WriterInv, Journaling, Playing
    <3>2. CASE d # c
      BY <1>1, <2>1, <2>2, <3>2 DEF WriterInv, Journaling, Committed, Playing, Synced
    <3> QED BY <3>1, <3>2
  <2>8. PlayInv'
    <3>1. eState[c] = "WRITER_CACHEMOD" => \A x \in Pages : db[x] = Committed(x)
      BY DEF CleanInv, Clean
    <3>2. \A x \in Pages \ counted : db[x] = Committed(x)
      BY DEF Committed
    <3> QED BY <2>1, <2>2, <2>3, <3>1, <3>2 DEF PlayInv, Playing, Committed, Synced, Modified
  <2>9. CleanInv'
    BY <2>1, <2>2 DEF CleanInv, Clean, Committed, Synced
  <2>10. DiskInv'
    BY <2>1, <2>2 DEF DiskInv, Committed, After
  <2>11. CacheInv'
    <3>1. ~Playing(c)
      BY DEF Playing
    <3> QED BY <2>1, <2>2, <2>3, <3>1 DEF CacheInv, Committed, Journaling, Playing
  <2> QED BY <2>4, <2>5, <2>6, <2>7, <2>8, <2>9, <2>10, <2>11
<1> QED BY <1>3, <1>4

\* A statement that fails takes its own changes back.
LEMMA StatementUndone ==
  ASSUME Inv, NEW c \in Conns, HaltAbort(c), ~autoCommit[c], Journaling(c)
  PROVE  /\ Inv' /\ ImagesKept /\ eState' = eState
         /\ \A d \in Conns \ {c} : ~Journaling(d)
<1>a. ~autoCommit[c] /\ Journaling(c)
  OBVIOUS
<1>b. stmt[c] = "write" /\ step[c] = "none" /\ Writing(c)
  BY DEF HaltAbort, Runs
<1> DEFINE before == Over(saved[c], journal)
           changed == {p \in DOMAIN before : cache[c][p] # before[p]}
           written == IF eState[c] \in Modified THEN changed \cap counted ELSE {}
<1>1. /\ cache' = [cache EXCEPT ![c] = Over(before, @)]
      /\ db' = [p \in Pages |-> IF p \in written THEN before[p] ELSE db[p]]
      /\ disk' = [p \in Pages |-> IF p \in written THEN disk[p] \cup {before[p]} ELSE disk[p]]
      /\ Is(c, "none")
      /\ dirty' = [dirty EXCEPT ![c] = @ \ written]
      /\ UNCHANGED <<journalVars, lock, eState, dbFileVers, txn, step, todo, transactions,
                     autoCommit, crashes>>
  BY <1>a DEF HaltAbort
<1>2. /\ stmt' \in [Conns -> Statements] /\ stmt'[c] = "none"
      /\ DOMAIN saved' = Conns /\ IsImage(saved'[c])
      /\ \A d \in Conns \ {c} : saved'[d] = saved[d] /\ stmt'[d] = stmt[d]
  BY <1>1, IsEffect DEF Statements
<1>3. IsImage(before) /\ DOMAIN before = DOMAIN journal
  <2>1. DOMAIN saved[c] \subseteq DOMAIN journal
    BY <1>b, <1>a DEF Inv, WriterInv
  <2>2. IsImage(saved[c]) /\ IsImage(journal)
    BY DEF Inv, Types
  <2> QED BY <2>1, <2>2 DEF IsImage, Over
<1>4. PICK old : /\ IsImage(old) /\ DOMAIN old = DOMAIN journal
                 /\ cache' = [cache EXCEPT ![c] = Over(old, @)] /\ old = before
  BY <1>1, <1>3
<1>5. PICK W \in SUBSET Pages :
        /\ W \subseteq counted /\ W \subseteq DOMAIN journal /\ (W # {} => eState[c] \in Modified)
        /\ \A p \in DOMAIN journal \ W :
             eState[c] \in Modified /\ p \in counted => cache[c][p] = old[p]
        /\ db' = [p \in Pages |-> IF p \in W THEN old[p] ELSE db[p]]
        /\ disk' = [p \in Pages |-> IF p \in W THEN disk[p] \cup {old[p]} ELSE disk[p]]
        /\ dirty' = [dirty EXCEPT ![c] = @ \ W]
  <2>1. DOMAIN journal \subseteq Pages
    BY DEF Inv, Types, IsImage
  <2>2. /\ written \in SUBSET Pages /\ written \subseteq counted /\ written \subseteq DOMAIN journal
        /\ written # {} => eState[c] \in Modified
        /\ \A p \in DOMAIN journal \ written :
             eState[c] \in Modified /\ p \in counted => cache[c][p] = old[p]
    BY <1>3, <1>4, <2>1
  <2> HIDE DEF written
  <2> QED BY <1>1, <1>4, <2>2
<1> HIDE DEF before
<1>6. /\ DOMAIN cache' = Conns /\ IsImage(cache'[c]) /\ DOMAIN cache'[c] = DOMAIN cache[c]
      /\ \A p \in DOMAIN journal : cache'[c][p] = old[p]
      /\ \A p \in DOMAIN cache[c] \ DOMAIN journal : cache'[c][p] = cache[c][p]
      /\ \A d \in Conns \ {c} : cache'[d] = cache[d]
  <2>1. DOMAIN journal \subseteq DOMAIN cache[c] /\ IsImage(cache[c]) /\ DOMAIN cache = Conns
    BY <1>a DEF Inv, WriterInv, Types
  <2> QED BY <1>4, <2>1 DEF IsImage, Over
<1>7. /\ dirty'[c] = dirty[c] \ W /\ \A d \in Conns \ {c} : dirty'[d] = dirty[d]
      /\ \A p \in W : db'[p] = old[p] /\ disk'[p] = disk[p] \cup {old[p]}
      /\ \A p \in Pages \ W : db'[p] = db[p] /\ disk'[p] = disk[p]
  BY <1>5 DEF Inv, Types
<1>8. eState[c] \in {"WRITER_CACHEMOD", "WRITER_DBMOD"}
  BY <1>b, <1>a DEF Inv, StateInv, Place, Playing, Journaling, Modified
<1>9. \A d \in Conns \ {c} : ~Journaling(d) /\ ~Playing(d)
  <2>1. lock[c] \in AboveShared
    BY <1>8 DEF Inv, StateInv, Place, AboveShared
  <2>2. \A d \in Conns \ {c} : lock[d] \notin AboveShared
    BY <2>1 DEF Inv, LockInv
  <2> QED BY <2>2 DEF Inv, StateInv, Place, Playing, Journaling, Modified, AboveShared
<1>10. W # {} => \A d \in Conns \ {c} : eState[d] = "OPEN" /\ step[d] = "none"
  <2>1. eState[c] \in Modified => lock[c] = "EXCLUSIVE"
    BY <1>8 DEF Inv, StateInv, Place, Modified
  <2> QED BY <1>5, <2>1, AloneWith DEF Inv, LockInv
<1>11. \A p \in Pages : Committed(p)' = Committed(p)
  BY <1>1, <1>5, <1>7 DEF Committed, journalVars
<1>12. 1 \notin DOMAIN journal
  BY <1>b, <1>a DEF Inv, WriterInv
<1>13. \A r \in journalDisk : W \subseteq DOMAIN r
  BY <1>b, <1>5 DEF Inv, DiskInv
<1>14. \A r \in journalDisk : \A p \in Pages : After(r, p)' = After(r, p)
  BY <1>7, <1>13 DEF After
<1>15. UNCHANGED <<journal, counted, journalDisk, lock, eState, dbFileVers, txn, step, todo,
                   transactions, autoCommit, crashes>>
  BY <1>1 DEF journalVars
<1> USE DEF Inv
<1>16. Types'
  <2>1. \A p \in W : old[p] \in Nat
    BY <1>4, <1>5 DEF IsImage
  <2>2. db' \in [Pages -> Nat] /\ disk' \in [Pages -> SUBSET Nat]
    BY <1>5, <2>1 DEF Types
  <2>3. dirty' \in [Conns -> SUBSET Pages]
    BY <1>5 DEF Types
  <2> QED BY <1>2, <1>6, <1>15, <2>2, <2>3 DEF Types
<1>17. LockInv' /\ StateInv'
  BY <1>b, <1>a, <1>2, <1>15 DEF LockInv, StateInv, Place, Committing, Writing, Playing
<1>18. JournalInv'
  <2>1. \A p \in DOMAIN journal \ counted : p \in Pages /\ p \notin W
    BY <1>5 DEF Types, IsImage
  <2> QED BY <1>7, <1>15, <2>1 DEF JournalInv
<1>19. WriterInv'
  <2> SUFFICES ASSUME NEW d \in Conns PROVE WriterInv!(d)'
    BY DEF WriterInv
  <2>1. CASE d = c
    <3>1. ASSUME NEW p \in DOMAIN journal, p \notin dirty'[c] PROVE cache'[c][p] = db'[p]
      <4>1. p \in Pages
        BY DEF Types, IsImage
      <4>2. CASE p \in W
        BY <1>6, <1>7, <4>2
      <4>3. CASE p \notin W
        <5>1. p \notin dirty[c] /\ p \in counted
          BY <1>a, <1>7, <3>1, <4>3 DEF WriterInv
        <5>2. eState[c] = "WRITER_DBMOD" /\ cache[c][p] = db[p]
          BY <1>b, <1>a, <1>8, <5>1 DEF WriterInv, Playing
        <5> QED BY <1>5, <1>6, <1>7, <4>1, <4>3, <5>1, <5>2 DEF Modified
      <4> QED BY <4>2, <4>3
    <3>2. /\ DOMAIN journal \ counted \subseteq dirty'[c] /\ dirty'[c] \subseteq DOMAIN journal
          /\ DOMAIN journal \subseteq DOMAIN cache'[c]
      BY <1>a, <1>5, <1>6, <1>7 DEF WriterInv
    <3> QED BY <1>b, <1>a, <1>2, <1>12, <1>15, <2>1, <3>1, <3>2 DEF WriterInv, Journaling
  <2>2. CASE d # c
    BY <1>2, <1>7, <1>9, <1>15, <2>2 DEF WriterInv, Journaling
  <2> QED BY <2>1, <2>2
<1>20. PlayInv'
  BY <1>b, <1>9, <1>15 DEF PlayInv, Playing
<1>21. CleanInv'
  <2>1. W = {} => db' = db /\ disk' = disk
    BY <1>5 DEF Types
  <2>2. W # {} => \A d \in Conns : /\ eState[d] \notin {"READER", "WRITER_LOCKED", "WRITER_CACHEMOD"}
                                   /\ step[d] # "validate"
    BY <1>b, <1>5, <1>10 DEF Modified
  <2> QED BY <1>11, <1>15, <2>1, <2>2 DEF CleanInv, Clean, Synced
<1>22. DiskInv'
  <2>1. \A p \in Pages : db'[p] \in disk'[p] /\ (disk'[p] # {db'[p]} => p \in counted)
    BY <1>5, <1>7 DEF DiskInv
  <2>2. \A p \in Pages : disk'[p] # {db'[p]} \/ db'[p] # Committed(p) =>
          \A r \in journalDisk : p \in DOMAIN r
    BY <1>7, <1>13 DEF DiskInv
  <2> QED BY <1>11, <1>14, <1>15, <2>1, <2>2 DEF DiskInv
<1>23. CacheInv'
  <2>1. 1 \notin W /\ db'[1] = db[1]
    BY <1>5, <1>7, <1>12, FirstPage
  <2>2. \A d \in Conns : \A p \in DOMAIN cache[d] : p \in Pages
    BY DEF Types, IsImage
  <2> SUFFICES ASSUME NEW d \in Conns PROVE CacheInv!(d)'
    BY DEF CacheInv
  <2>3. CASE d = c
    <3>1. eState'[c] # "OPEN" /\ Journaling(c)' /\ ~Playing(c)
      BY <1>b, <1>8, <1>15 DEF Journaling, Modified, Playing
    <3>2. 1 \in DOMAIN cache'[c] /\ dbFileVers'[c] = db'[1]
      BY <1>6, <1>8, <1>15, <2>1, <3>1 DEF CacheInv
    <3>3. ASSUME NEW p \in DOMAIN cache'[c], p \notin DOMAIN journal'
          PROVE  cache'[c][p] = Committed(p)'
      <4>1. p \in Pages /\ p \in DOMAIN cache[c] \ DOMAIN journal
        BY <1>6, <1>15, <2>2, <3>3
      <4> QED BY <1>6, <1>8, <1>11, <4>1 DEF CacheInv
    <3> QED BY <2>3, <3>1, <3>2, <3>3
  <2>4. CASE d # c
    <3>1. \A p \in DOMAIN cache[d] : Committed(p)' = Committed(p)
      BY <1>11, <2>2
    <3> QED BY <1>6, <1>9, <1>11, <1>15, <2>1, <2>4, <3>1, FirstPage DEF CacheInv, Journaling, Playing
  <2> QED BY <2>3, <2>4
<1>24. ImagesKept
  BY <1>11, <1>14, <1>15 DEF ImagesKept
<1> QED BY <1>9, <1>15, <1>16, <1>17, <1>18, <1>19, <1>20, <1>21, <1>22, <1>23, <1>24

LEMMA HaltAbortStep == ASSUME Inv, NEW c \in Conns, HaltAbort(c) PROVE Inv'
<1>1. stmt[c] = "write" /\ step[c] = "none" /\ Writing(c)
  BY DEF HaltAbort, Runs
<1>2. CASE autoCommit[c]
  <2>1. RollbackAll(c)
    BY <1>2 DEF HaltAbort
  <2> QED BY <1>1, <2>1, RollbackAllStep
<1>3. CASE ~autoCommit[c] /\ ~Journaling(c)
  <2>1. Is(c, "none") /\ UNCHANGED <<pagerVars, autoCommit, crashes>>
    BY <1>3 DEF HaltAbort
  <2>2. /\ stmt' \in [Conns -> Statements] /\ stmt'[c] = "none"
        /\ DOMAIN saved' = Conns /\ IsImage(saved'[c])
        /\ \A d \in Conns \ {c} : saved'[d] = saved[d] /\ stmt'[d] = stmt[d]
    BY <2>1, IsEffect DEF Statements
  <2> USE DEF Inv, pagerVars, fileVars, journalVars, cacheVars
  <2>3. Types' /\ LockInv' /\ JournalInv'
    BY <2>1, <2>2 DEF Types, LockInv, JournalInv
  <2>4. StateInv'
    BY <1>1, <1>3, <2>1, <2>2 DEF StateInv, Place, Committing, Writing, Playing
  <2>5. WriterInv'
    BY <1>3, <2>1, <2>2 DEF WriterInv, Journaling, Committed, Playing, Synced
  <2>6. PlayInv' /\ CleanInv' /\ DiskInv' /\ CacheInv'
    BY <2>1 DEF PlayInv, Playing, CleanInv, Clean, Committed, Synced, DiskInv, After, CacheInv,
       Journaling
  <2> QED BY <2>3, <2>4, <2>5, <2>6
<1>4. CASE ~autoCommit[c] /\ Journaling(c)
  BY <1>4, StatementUndone
<1> QED BY <1>2, <1>3, <1>4

LEMMA HaltSpecialStep == ASSUME Inv, NEW c \in Conns, HaltSpecial(c) PROVE Inv'
  BY RollbackAllStep DEF HaltSpecial, Runs

LEMMA CommitStep == ASSUME Inv, NEW c \in Conns, Commit(c) PROVE Inv'
<1> USE DEF Inv, Commit
<1>1. stmt[c] = "none" /\ ~autoCommit[c] /\ step[c] = "none"
  BY DEF StateInv
<1>2. /\ autoCommit' \in [Conns -> BOOLEAN]
      /\ \A d \in Conns \ {c} : autoCommit'[d] = autoCommit[d]
  BY DEF SetAutoCommit, Types
<1>3. CASE ~Writing(c)
  <2>1. /\ eState[c] \in {"OPEN", "READER", "WRITER_LOCKED"} /\ PagerUnlock(c)
        /\ stmt' = [stmt EXCEPT ![c] = "none"] /\ DOMAIN saved' = Conns /\ IsImage(saved'[c])
        /\ saved' = saved
    BY <1>1, <1>3 DEF Writing, Types
  <2> QED BY <1>1, <1>2, <2>1, UnlockStep
<1>4. CASE Writing(c)
  <2>1. /\ stmt' \in [Conns -> Statements] /\ stmt'[c] = "COMMIT"
        /\ DOMAIN saved' = Conns /\ IsImage(saved'[c])
        /\ \A d \in Conns \ {c} : saved'[d] = saved[d] /\ stmt'[d] = stmt[d]
    BY <1>4, IsEffect DEF Statements
  <2>2. UNCHANGED <<fileVars, lock, eState, cacheVars, txn, step, todo, transactions, crashes>>
    BY <1>4
  <2> USE DEF fileVars, journalVars, cacheVars
  <2>3. Types' /\ LockInv' /\ JournalInv' /\ PlayInv' /\ CleanInv'
    BY <1>2, <2>1, <2>2
    DEF Types, LockInv, JournalInv, PlayInv, Playing, CleanInv, Clean, Committed, Synced
  <2>4. StateInv'
    <3> SUFFICES ASSUME NEW d \in Conns PROVE StateInv!(d)'
      BY DEF StateInv
    <3>1. CASE d = c
      BY <1>1, <1>4, <2>1, <2>2, <3>1 DEF StateInv, Place, Committing, Writing, Playing
    <3>2. CASE d # c
      BY <1>2, <2>1, <2>2, <3>2 DEF StateInv, Place, Committing, Writing, Playing
    <3> QED BY <3>1, <3>2
  <2>5. WriterInv'
    BY <2>1, <2>2 DEF WriterInv, Journaling, Committed, Playing, Synced
  <2>6. DiskInv' /\ CacheInv'
    BY <2>2 DEF DiskInv, Committed, After, CacheInv, Journaling, Playing
  <2> QED BY <2>3, <2>4, <2>5, <2>6
<1> QED BY <1>3, <1>4

LEMMA RollbackStep == ASSUME Inv, NEW c \in Conns, Rollback(c) PROVE Inv'
  BY RollbackAllStep DEF Rollback, Inv, StateInv

LEMMA CommitBusyStep == ASSUME Inv, NEW c \in Conns, CommitBusy(c) PROVE Inv'
<1>1. step[c] = "none" /\ Committing(c) /\ Writing(c) /\ Others(c, Locks \ {"NO"})
  BY DEF CommitBusy, Inv, StateInv
<1>2. CASE stmt[c] # "COMMIT"
  <2>1. RollbackAll(c)
    BY <1>2 DEF CommitBusy
  <2> QED BY <1>1, <2>1, RollbackAllStep
<1>3. CASE stmt[c] = "COMMIT"
  <2>1. /\ ExclusiveLock(c) /\ SetAutoCommit(c, FALSE) /\ Is(c, "none")
        /\ UNCHANGED <<fileVars, eState, cacheVars, txn, step, todo, transactions, crashes>>
    BY <1>3 DEF CommitBusy
  <2>2. /\ stmt' \in [Conns -> Statements] /\ stmt'[c] = "none"
        /\ DOMAIN saved' = Conns /\ IsImage(saved'[c])
        /\ \A d \in Conns \ {c} : saved'[d] = saved[d] /\ stmt'[d] = stmt[d]
    BY <2>1, IsEffect DEF Statements
  <2>3. /\ autoCommit' \in [Conns -> BOOLEAN] /\ ~autoCommit'[c]
        /\ \A d \in Conns \ {c} : autoCommit'[d] = autoCommit[d]
    BY <2>1 DEF SetAutoCommit, Inv, Types
  <2>4. lock[c] \in AboveShared /\ eState[c] # "OPEN"
    BY <1>1 DEF Writing, Inv, StateInv, Place, AboveShared
  <2> QED BY <1>1, <2>1, <2>2, <2>3, <2>4, PendingStep
<1> QED BY <1>2, <1>3

LEMMA CommitCountStep == ASSUME Inv, NEW c \in Conns, CommitCount(c) PROVE Inv'
<1>1. /\ step[c] = "count" /\ CountRecords(c) /\ GoTo(c, "counted") /\ lock' = lock
      /\ UNCHANGED <<eState, cacheVars, txn, todo, transactions, stmtVars, crashes>>
  BY DEF CommitCount
<1>2. lock[c] = "EXCLUSIVE" /\ Journaling(c) /\ stmt[c] # "none"
  BY <1>1 DEF Inv, StateInv, Place, Playing, Journaling, Modified
<1>3. \A d \in Conns \ {c} : lock[d] = "NO"
  BY <1>2 DEF Inv, LockInv
<1>4. lock' = [lock EXCEPT ![c] = "EXCLUSIVE"]
  BY <1>1, <1>2 DEF Inv, Types
<1> QED BY <1>1, <1>2, <1>3, <1>4, CountRecordsStep

LEMMA CommitSyncStep == ASSUME Inv, NEW c \in Conns, CommitSync(c) PROVE Inv'
  BY SyncRecordsStep DEF CommitSync

LEMMA SpillSyncStep == ASSUME Inv, NEW c \in Conns, SpillSync(c) PROVE Inv'
  BY SyncRecordsStep DEF SpillSync

LEMMA CommitWriteStep == ASSUME Inv, NEW c \in Conns, NEW p \in Pages, CommitWrite(c, p) PROVE Inv'
<1>1. eState[c] = "WRITER_DBMOD"
  BY DEF CommitWrite, Inv, StateInv, Place, Playing
<1> QED BY <1>1, WriteOutStep DEF CommitWrite

LEMMA CommitFinishStep == ASSUME Inv, NEW c \in Conns, CommitFinish(c) PROVE Inv'
<1> USE DEF Inv, journalVars, cacheVars, stmtVars
<1>1. /\ step[c] = "write" /\ dirty[c] = {} /\ db' = db /\ disk' = [p \in Pages |-> {db[p]}]
      /\ eState' = [eState EXCEPT ![c] = "WRITER_FINISHED"] /\ step' = [step EXCEPT ![c] = "commit"]
      /\ UNCHANGED <<journalVars, lock, cacheVars, txn, todo, transactions, stmtVars, crashes>>
  BY DEF CommitFinish, SyncFile, GoTo
<1>2. /\ eState'[c] = "WRITER_FINISHED" /\ step'[c] = "commit"
      /\ \A d \in Conns \ {c} : eState'[d] = eState[d] /\ step'[d] = step[d]
  BY <1>1 DEF Types
<1>3. /\ eState[c] = "WRITER_DBMOD" /\ lock[c] = "EXCLUSIVE" /\ DOMAIN journal # {}
      /\ Journaling(c) /\ Journaling(c)' /\ ~Playing(c) /\ ~Playing(c)'
  BY <1>1, <1>2 DEF StateInv, Place, Playing, Journaling, Modified
<1>4. \A d \in Conns \ {c} : eState[d] = "OPEN" /\ step[d] = "none" /\ ~Journaling(d)
  BY <1>3, AloneWith DEF LockInv
<1>5. Types'
  <2>1. eState' \in [Conns -> States] /\ step' \in [Conns -> Steps]
    BY <1>1 DEF Types, States, Steps
  <2>2. disk' \in [Pages -> SUBSET Nat]
    BY <1>1 DEF Types
  <2> QED BY <1>1, <2>1, <2>2 DEF Types
<1>6. LockInv' /\ JournalInv'
  BY <1>1 DEF LockInv, JournalInv
<1>7. StateInv'
  <2> SUFFICES ASSUME NEW d \in Conns PROVE StateInv!(d)'
    BY DEF StateInv
  <2>1. CASE d = c
    BY <1>1, <1>2, <1>3, <2>1 DEF StateInv, Place, Committing, Writing, Playing
  <2>2. CASE d # c
    BY <1>1, <1>2, <1>4, <2>2 DEF StateInv, Place, Committing, Writing, Playing
  <2> QED BY <2>1, <2>2
<1>8. \A p \in Pages : Committed(p)' = Committed(p)
  BY <1>1 DEF Committed
<1>13. Synced'
  BY <1>1 DEF Synced
<1>9. WriterInv'
  <2> SUFFICES ASSUME NEW d \in Conns PROVE WriterInv!(d)'
    BY DEF WriterInv
  <2>1. CASE d = c
    BY <1>1, <1>2, <1>3, <1>8, <1>13, <2>1, FirstPage DEF WriterInv
  <2>2. CASE d # c
    BY <1>1, <1>2, <1>4, <2>2 DEF WriterInv, Journaling
  <2> QED BY <2>1, <2>2
<1>10. PlayInv' /\ CleanInv'
  BY <1>2, <1>4 DEF PlayInv, Playing, CleanInv
<1>11. DiskInv'
  <2>1. \A r : \A p \in Pages : After(r, p)' = After(r, p)
    BY <1>1 DEF After
  <2>2. \A p \in Pages : disk'[p] = {db'[p]}
    BY <1>1
  <2> QED BY <1>1, <1>2, <1>3, <1>4, <1>8, <2>1, <2>2 DEF DiskInv, Modified
<1>12. CacheInv'
  <2>1. \A d \in Conns : \A p \in DOMAIN cache[d] : p \in Pages
    BY DEF Types, IsImage
  <2> QED BY <1>1, <1>2, <1>3, <1>4, <1>8, <2>1, FirstPage DEF CacheInv, Journaling, Playing
<1> QED BY <1>5, <1>6, <1>7, <1>9, <1>10, <1>11, <1>12

\* The journal is deleted: what the file holds is committed.
LEMMA CommitEndStep == ASSUME Inv, NEW c \in Conns, CommitEnd(c) PROVE Inv'
<1> USE DEF Inv, cacheVars
<1>1. /\ step[c] = "commit" /\ journal' = << >> /\ counted' = {}
      /\ journalDisk' = journalDisk \cup {<< >>} /\ PagerUnlock(c)
      /\ UNCHANGED <<db, disk, cache, dirty, dbFileVers, todo, transactions, autoCommit, crashes>>
  BY DEF CommitEnd, DeleteJournal
<1>2. /\ stmt' \in [Conns -> Statements] /\ stmt'[c] = "none"
      /\ DOMAIN saved' = Conns /\ IsImage(saved'[c])
      /\ \A d \in Conns \ {c} : saved'[d] = saved[d] /\ stmt'[d] = stmt[d]
  BY IsEffect DEF CommitEnd, Statements
<1>3. /\ eState'[c] = "OPEN" /\ step'[c] = "none" /\ lock'[c] = "NO"
      /\ \A d \in Conns \ {c} : /\ eState'[d] = eState[d] /\ step'[d] = step[d]
                                /\ lock'[d] = lock[d]
  BY <1>1 DEF Types, PagerUnlock, GoTo
<1>4. eState[c] = "WRITER_FINISHED" /\ lock[c] = "EXCLUSIVE" /\ Journaling(c) /\ ~Playing(c)
  BY <1>1 DEF StateInv, Place, Playing, Journaling, Modified
<1>5. \A d \in Conns \ {c} : eState[d] = "OPEN" /\ step[d] = "none" /\ ~Journaling(d)
  BY <1>4, AloneWith DEF LockInv
<1>6. /\ dirty[c] = {} /\ Synced /\ counted = DOMAIN journal /\ 1 \in DOMAIN journal
      /\ cache[c][1] = Committed(1) + 1 /\ \A p \in DOMAIN journal : cache[c][p] = db[p]
  BY <1>1, <1>4 DEF WriterInv
<1>7. \A p : Committed(p)' = db[p]
  BY <1>1 DEF Committed
<1>8. Types'
  <2>1. /\ eState' \in [Conns -> States] /\ step' \in [Conns -> Steps]
        /\ lock' \in [Conns -> Locks] /\ txn' \in [Conns -> Nat]
    BY <1>1 DEF Types, PagerUnlock, GoTo, States, Steps, Locks
  <2>2. IsImage(journal') /\ \A r \in journalDisk' : IsImage(r)
    BY <1>1, EmptyImage DEF Types
  <2> QED BY <1>1, <1>2, <2>1, <2>2 DEF Types
<1>9. LockInv' /\ JournalInv'
  BY <1>1, <1>3, EmptyImage DEF LockInv, AboveShared, JournalInv
<1>10. StateInv'
  <2> SUFFICES ASSUME NEW d \in Conns PROVE StateInv!(d)'
    BY DEF StateInv
  <2>1. CASE d = c
    BY <1>2, <1>3, <2>1 DEF StateInv, Place, Committing, Writing
  <2>2. CASE d # c
    BY <1>1, <1>2, <1>3, <1>5, <2>2 DEF StateInv, Place, Committing, Writing, Playing
  <2> QED BY <2>1, <2>2
<1>11. WriterInv'
  <2> SUFFICES ASSUME NEW d \in Conns PROVE WriterInv!(d)'
    BY DEF WriterInv
  <2>1. CASE d = c
    BY <1>1, <1>2, <1>3, <1>6, <2>1 DEF WriterInv, Journaling, Modified
  <2>2. CASE d # c
    BY <1>1, <1>2, <1>3, <1>5, <2>2 DEF WriterInv, Journaling
  <2> QED BY <2>1, <2>2
<1>12. PlayInv' /\ CleanInv'
  BY <1>3, <1>5 DEF PlayInv, Playing, CleanInv
<1>13. DiskInv'
  <2>1. \A p \in Pages : disk[p] = {db[p]}
    BY <1>6 DEF Synced
  <2>2. \A r \in journalDisk : \A p \in Pages : After(r, p)' = Committed(p)
    BY <1>1, <1>4 DEF DiskInv, Modified, After
  <2>3. \A p \in Pages : After(<< >>, p)' = db[p]
    BY <1>1, EmptyImage DEF After
  <2>4. \A d \in Conns : eState'[d] \notin Modified
    BY <1>3, <1>5 DEF Modified
  <2> QED BY <1>1, <1>7, <2>1, <2>2, <2>3, <2>4 DEF DiskInv
<1>14. CacheInv'
  <2> SUFFICES ASSUME NEW d \in Conns PROVE CacheInv!(d)'
    BY DEF CacheInv
  <2>1. CASE d = c
    <3>1. dbFileVers[c] = db[1] /\ dbFileVers[c] \in Nat
      BY <1>4 DEF CacheInv, Types
    <3>2. \A p \in DOMAIN cache[c] : cache[c][p] = db[p]
      BY <1>4, <1>6 DEF CacheInv, Committed
    <3> QED BY <1>1, <1>3, <1>7, <2>1, <3>1, <3>2
  <2>2. CASE d # c
    <3>1. db[1] = Committed(1) + 1
      BY <1>6
    <3>2. dbFileVers[d] \in Nat /\ Committed(1) \in Nat
      BY FirstPage DEF Types, Committed, IsImage, JournalInv
    <3>3. DOMAIN cache[d] # {} => dbFileVers[d] <= Committed(1)
      BY <1>5, <2>2 DEF CacheInv
    <3> QED BY <1>1, <1>3, <1>5, <1>7, <2>2, <3>1, <3>2, <3>3
  <2> QED BY <2>1, <2>2
<1> QED BY <1>8, <1>9, <1>10, <1>11, <1>12, <1>13, <1>14

\* An error: the cache goes, the files and a journal stay.
LEMMA PagerErrorStep ==
  ASSUME Inv, NEW c \in Conns, PagerError(c), Is(c, "none"), UNCHANGED <<autoCommit, crashes>>
  PROVE  Inv'
<1> USE DEF Inv, fileVars, journalVars
<1>1. /\ eState' = [eState EXCEPT ![c] = "OPEN"] /\ step' = [step EXCEPT ![c] = "none"]
      /\ lock' = [lock EXCEPT ![c] = "NO"] /\ txn' = [txn EXCEPT ![c] = 0]
      /\ cache' = [cache EXCEPT ![c] = << >>] /\ dirty' = [dirty EXCEPT ![c] = {}]
      /\ todo' = [todo EXCEPT ![c] = {}]
      /\ UNCHANGED <<db, disk, journal, counted, journalDisk, dbFileVers, transactions, autoCommit,
                     crashes>>
  BY DEF PagerError, PagerUnlock, GoTo
<1>2. /\ stmt' \in [Conns -> Statements] /\ stmt'[c] = "none"
      /\ DOMAIN saved' = Conns /\ IsImage(saved'[c])
      /\ \A d \in Conns \ {c} : saved'[d] = saved[d] /\ stmt'[d] = stmt[d]
  BY IsEffect DEF Statements
<1>3. /\ eState'[c] = "OPEN" /\ step'[c] = "none" /\ lock'[c] = "NO" /\ dirty'[c] = {}
      /\ todo'[c] = {} /\ cache'[c] = << >>
      /\ \A d \in Conns \ {c} :
           /\ eState'[d] = eState[d] /\ step'[d] = step[d] /\ lock'[d] = lock[d]
           /\ dirty'[d] = dirty[d] /\ todo'[d] = todo[d] /\ cache'[d] = cache[d]
  BY <1>1 DEF Types
<1>4. Types'
  <2>1. /\ eState' \in [Conns -> States] /\ step' \in [Conns -> Steps]
        /\ lock' \in [Conns -> Locks] /\ txn' \in [Conns -> Nat]
    BY <1>1 DEF Types, States, Steps, Locks
  <2>2. dirty' \in [Conns -> SUBSET Pages] /\ todo' \in [Conns -> SUBSET Pages]
    BY <1>1 DEF Types
  <2>3. DOMAIN cache' = Conns /\ \A d \in Conns : IsImage(cache'[d])
    BY <1>1, <1>3, EmptyImage DEF Types
  <2> QED BY <1>1, <1>2, <2>1, <2>2, <2>3 DEF Types
<1>5. LockInv' /\ JournalInv'
  BY <1>1, <1>3 DEF LockInv, AboveShared, JournalInv
<1>6. StateInv'
  <2> SUFFICES ASSUME NEW d \in Conns PROVE StateInv!(d)'
    BY DEF StateInv
  <2>1. CASE d = c
    BY <1>2, <1>3, <2>1 DEF StateInv, Place, Committing, Writing
  <2>2. CASE d # c
    BY <1>1, <1>2, <1>3, <2>2 DEF StateInv, Place, Committing, Writing, Playing
  <2> QED BY <2>1, <2>2
<1>7. WriterInv'
  <2> SUFFICES ASSUME NEW d \in Conns PROVE WriterInv!(d)'
    BY DEF WriterInv
  <2>1. CASE d = c
    BY <1>2, <1>3, <2>1 DEF WriterInv, Journaling, Modified
  <2>2. CASE d # c
    BY <1>1, <1>2, <1>3, <2>2 DEF WriterInv, Journaling, Committed, Playing, Synced
  <2> QED BY <2>1, <2>2
<1>8. PlayInv' /\ CleanInv'
  BY <1>1, <1>3 DEF PlayInv, Playing, CleanInv, Clean, Committed, Synced
<1>9. DiskInv'
  BY <1>1, <1>3 DEF DiskInv, Committed, After, Modified
<1>10. CacheInv'
  BY <1>1, <1>3, EmptyImage DEF CacheInv, Committed, Journaling, Playing
<1> QED BY <1>4, <1>5, <1>6, <1>7, <1>8, <1>9, <1>10

LEMMA CommitFailsStep == ASSUME Inv, NEW c \in Conns, CommitFails(c) PROVE Inv'
<1>1. CASE step[c] \in {"count", "counted", "write"} /\ RollbackAll(c)
  BY <1>1, RollbackAllStep
<1>2. CASE step[c] = "commit" /\ PagerError(c) /\ Is(c, "none") /\ UNCHANGED <<autoCommit, crashes>>
  BY <1>2, PagerErrorStep
<1> QED BY <1>1, <1>2 DEF CommitFails

LEMMA PlaybackFailsStep == ASSUME Inv, NEW c \in Conns, PlaybackFails(c) PROVE Inv'
  BY PagerErrorStep DEF PlaybackFails

\* Who plays a journal back does so alone.
LEMMA PlayAlone ==
  ASSUME Inv, NEW c \in Conns, Playing(c)
  PROVE  /\ eState[c] \in {"OPEN", "WRITER_CACHEMOD", "WRITER_DBMOD"} /\ stmt[c] # "none"
         /\ lock[c] \in AboveShared /\ DOMAIN journal # {}
         /\ \A d \in Conns \ {c} : ~Journaling(d) /\ ~Playing(d)
         /\ eState[c] # "WRITER_CACHEMOD" =>
              /\ lock[c] = "EXCLUSIVE"
              /\ \A d \in Conns \ {c} : eState[d] = "OPEN" /\ step[d] = "none" /\ lock[d] = "NO"
<1>1. /\ eState[c] \in {"OPEN", "WRITER_CACHEMOD", "WRITER_DBMOD"} /\ stmt[c] # "none"
      /\ lock[c] \in AboveShared /\ DOMAIN journal # {}
      /\ eState[c] # "WRITER_CACHEMOD" => lock[c] = "EXCLUSIVE"
  BY DEF Inv, StateInv, Place, Playing, AboveShared
<1>2. \A d \in Conns \ {c} : lock[d] \notin AboveShared
  BY <1>1 DEF Inv, LockInv
<1>3. \A d \in Conns \ {c} : ~Journaling(d) /\ ~Playing(d)
  BY <1>2 DEF Inv, StateInv, Place, Playing, Journaling, Modified, AboveShared
<1>4. eState[c] # "WRITER_CACHEMOD" => \A d \in Conns \ {c} : lock[d] = "NO"
  BY <1>1 DEF Inv, LockInv
<1> QED BY <1>1, <1>3, <1>4, AloneWith

LEMMA PlayPageStep ==
  ASSUME Inv, NEW c \in Conns, NEW p \in todo[c], PlayPage(c, p), UNCHANGED <<stmtVars, crashes>>
  PROVE  Inv' /\ ImagesKept
<1> USE DEF Inv, stmtVars
<1>1. /\ step[c] = "play" /\ Playing(c) /\ p \in Pages /\ p \in counted /\ p \in DOMAIN journal
      /\ journal[p] = Committed(p) /\ journal[p] \in Nat
  BY DEF PlayPage, Playing, Types, PlayInv, JournalInv, Committed, IsImage
<1>2. /\ db' = [db EXCEPT ![p] = journal[p]] /\ disk' = [disk EXCEPT ![p] = @ \cup {journal[p]}]
      /\ todo' = [todo EXCEPT ![c] = @ \ {p}]
      /\ UNCHANGED <<journal, counted, journalDisk, lock, eState, cache, dirty, dbFileVers, txn,
                     step, transactions, stmt, saved, autoCommit, crashes>>
  BY DEF PlayPage, WriteFile, journalVars, cacheVars
<1>3. /\ db'[p] = journal[p] /\ disk'[p] = disk[p] \cup {journal[p]}
      /\ \A x \in Pages \ {p} : db'[x] = db[x] /\ disk'[x] = disk[x]
      /\ todo'[c] = todo[c] \ {p} /\ \A d \in Conns \ {c} : todo'[d] = todo[d]
  BY <1>1, <1>2 DEF Types
<1>4. \A x \in Pages : Committed(x)' = Committed(x)
  BY <1>1, <1>2, <1>3 DEF Committed
<1>5. db[p] = Committed(p) => db' = db /\ disk' = disk
  BY <1>1, <1>2 DEF Types, DiskInv
<1>6. db[p] # Committed(p) =>
        /\ eState[c] \in {"OPEN", "WRITER_DBMOD"}
        /\ \A d \in Conns \ {c} : eState[d] = "OPEN" /\ step[d] = "none"
        /\ \A r \in journalDisk : p \in DOMAIN r
  BY <1>1, PlayAlone DEF CleanInv, Clean, DiskInv
<1>7. \A r \in journalDisk : \A x \in Pages : After(r, x)' = After(r, x)
  BY <1>3, <1>5, <1>6 DEF After
<1>8. Types'
  <2>1. db' \in [Pages -> Nat] /\ disk' \in [Pages -> SUBSET Nat]
    BY <1>1, <1>2 DEF Types
  <2>2. todo' \in [Conns -> SUBSET Pages]
    BY <1>2 DEF Types
  <2> QED BY <1>2, <2>1, <2>2 DEF Types
<1>9. LockInv' /\ StateInv'
  BY <1>2 DEF LockInv, StateInv, Place, Committing, Writing, Playing
<1>10. JournalInv'
  <2>1. \A x \in DOMAIN journal : x \in Pages
    BY DEF Types, IsImage
  <2> QED BY <1>1, <1>2, <1>3, <2>1 DEF JournalInv
<1>11. WriterInv'
  <2> SUFFICES ASSUME NEW d \in Conns PROVE WriterInv!(d)'
    BY DEF WriterInv
  <2>1. CASE d = c
    <3>1. UNCHANGED <<Journaling(c), Playing(c)>> /\ Playing(c)
      BY <1>1, <1>2 DEF Journaling, Playing
    <3> QED BY <1>1, <1>2, <2>1, <3>1 DEF WriterInv
  <2>2. CASE d # c
    BY <1>1, <1>2, <2>2, PlayAlone DEF WriterInv, Journaling
  <2> QED BY <2>1, <2>2
<1>12. PlayInv'
  <2> SUFFICES ASSUME NEW d \in Conns, Playing(d)' PROVE PlayInv!(d)!2'
    BY DEF PlayInv
  <2>1. d = c
    BY <1>1, <1>2, PlayAlone DEF Playing
  <2> QED BY <1>1, <1>2, <1>3, <1>4, <2>1 DEF PlayInv
<1>13. CleanInv'
  <2>1. CASE db[p] = Committed(p)
    BY <1>2, <1>5, <2>1 DEF CleanInv, Clean, Synced, Committed
  <2>2. CASE db[p] # Committed(p)
    BY <1>1, <1>2, <1>6, <2>2 DEF CleanInv
  <2> QED BY <2>1, <2>2
<1>14. DiskInv'
  <2>1. \A x \in Pages :
          /\ db'[x] \in disk'[x] /\ (disk'[x] # {db'[x]} => x \in counted)
          /\ disk'[x] # {db'[x]} \/ db'[x] # Committed(x) => \A r \in journalDisk : x \in DOMAIN r
    BY <1>1, <1>3, <1>5, <1>6 DEF DiskInv
  <2> QED BY <1>2, <1>4, <1>7, <2>1 DEF DiskInv
<1>15. CacheInv'
  <2>1. \A d \in Conns : \A x \in DOMAIN cache[d] : x \in Pages
    BY DEF Types, IsImage
  <2> SUFFICES ASSUME NEW d \in Conns PROVE CacheInv!(d)'
    BY DEF CacheInv
  <2>2. CASE d = c
    <3>1. 1 \notin DOMAIN journal => db'[1] = db[1]
      BY <1>1, <1>3, FirstPage
    <3>2. UNCHANGED <<Journaling(c), Playing(c)>>
      BY <1>2 DEF Journaling, Playing
    <3> QED BY <1>1, <1>2, <1>4, <2>1, <2>2, <3>1, <3>2, FirstPage DEF CacheInv
  <2>3. CASE d # c
    <3>1. db[p] # Committed(p) => eState[d] = "OPEN"
      BY <1>6, <2>3
    <3>2. UNCHANGED <<Journaling(d), Playing(d)>>
      BY <1>2 DEF Journaling, Playing
    <3> QED BY <1>2, <1>4, <1>5, <2>1, <3>1, <3>2, FirstPage DEF CacheInv
  <2> QED BY <2>2, <2>3
<1>16. ImagesKept
  BY <1>2, <1>4, <1>7 DEF ImagesKept
<1> QED BY <1>8, <1>9, <1>10, <1>11, <1>12, <1>13, <1>14, <1>15, <1>16

LEMMA PlaySyncStep ==
  ASSUME Inv, NEW c \in Conns, PlaySync(c), UNCHANGED <<stmtVars, crashes>> PROVE Inv'
<1> USE DEF Inv, stmtVars
<1>1. step[c] = "play" /\ Playing(c) /\ todo[c] = {}
  BY DEF PlaySync, Playing
<1>2. /\ db' = db /\ step' = [step EXCEPT ![c] = "finalize"]
      /\ UNCHANGED <<journal, counted, journalDisk, lock, eState, cache, dirty, dbFileVers, txn,
                     todo, transactions, stmt, saved, autoCommit, crashes>>
  BY DEF PlaySync, SyncFile, GoTo, journalVars, cacheVars
<1>3. disk' = [x \in Pages |-> {db[x]}]
  <2>1. CASE eState[c] \in Modified \cup {"OPEN"}
    BY <2>1 DEF PlaySync, SyncFile
  <2>2. CASE eState[c] \notin Modified \cup {"OPEN"}
    <3>1. eState[c] = "WRITER_CACHEMOD" /\ disk' = disk
      BY <1>1, <2>2, PlayAlone DEF PlaySync, Modified
    <3>2. Synced
      BY <3>1 DEF CleanInv, Clean
    <3> QED BY <3>1, <3>2 DEF Synced, Types
  <2> QED BY <2>1, <2>2
<1>4. /\ step'[c] = "finalize" /\ \A d \in Conns \ {c} : step'[d] = step[d]
      /\ \A d \in Conns : UNCHANGED <<Journaling(d), Playing(d)>>
  BY <1>1, <1>2 DEF Types, Journaling, Playing
<1>5. \A x \in Pages : /\ db[x] = Committed(x) /\ Committed(x)' = Committed(x)
                       /\ disk'[x] = {db[x]}
  BY <1>1, <1>2, <1>3 DEF PlayInv, Committed
<1>6. Synced'
  BY <1>2, <1>3 DEF Synced
<1>7. Types'
  <2>1. step' \in [Conns -> Steps] /\ disk' \in [Pages -> SUBSET Nat]
    BY <1>2, <1>3 DEF Types, Steps
  <2> QED BY <1>2, <2>1 DEF Types
<1>8. LockInv' /\ JournalInv'
  BY <1>2 DEF LockInv, JournalInv
<1>9. StateInv'
  <2> SUFFICES ASSUME NEW d \in Conns PROVE StateInv!(d)'
    BY DEF StateInv
  <2>1. CASE d = c
    <3>1. Place(c)'
      BY <1>1, <1>2, <1>4 DEF StateInv, Place, Playing
    <3> QED BY <1>1, <1>2, <1>4, <2>1, <3>1, PlayAlone DEF StateInv, Committing, Writing
  <2>2. CASE d # c
    BY <1>2, <1>4, <2>2 DEF StateInv, Place, Committing, Writing, Playing
  <2> QED BY <2>1, <2>2
<1>10. WriterInv'
  <2> SUFFICES ASSUME NEW d \in Conns PROVE WriterInv!(d)'
    BY DEF WriterInv
  <2>1. CASE d = c
    BY <1>1, <1>2, <1>4, <2>1 DEF WriterInv
  <2>2. CASE d # c
    BY <1>1, <1>2, <1>4, <2>2, PlayAlone DEF WriterInv
  <2> QED BY <2>1, <2>2
<1>11. PlayInv'
  BY <1>1, <1>2, <1>4, <1>5, <1>6, PlayAlone DEF PlayInv
<1>12. CleanInv'
  BY <1>2, <1>5, <1>6 DEF CleanInv, Clean, Synced
<1>13. DiskInv'
  <2>1. \A r : \A x \in Pages : After(r, x)' = After(r, x)
    BY <1>2 DEF After
  <2> QED BY <1>2, <1>4, <1>5, <2>1 DEF DiskInv
<1>14. CacheInv'
  <2>1. \A d \in Conns : \A x \in DOMAIN cache[d] : x \in Pages
    BY DEF Types, IsImage
  <2> QED BY <1>2, <1>4, <1>5, <2>1, FirstPage DEF CacheInv
<1> QED BY <1>7, <1>8, <1>9, <1>10, <1>11, <1>12, <1>13, <1>14

\* A journal that has been played back, and synced, is deleted.
LEMMA PlayEndStep ==
  ASSUME Inv, NEW c \in Conns, PlayEnd(c), UNCHANGED crashes,
         \/ eState[c] = "OPEN" /\ UNCHANGED stmtVars
         \/ eState[c] # "OPEN" /\ Is(c, "none") /\ UNCHANGED autoCommit
  PROVE  Inv'
<1> USE DEF Inv
<1>1. /\ step[c] = "finalize" /\ Playing(c) /\ journal' = << >> /\ counted' = {}
      /\ journalDisk' = journalDisk \cup {<< >>}
      /\ UNCHANGED <<db, disk, todo, transactions, autoCommit, crashes>>
  BY DEF PlayEnd, DeleteJournal, Playing, stmtVars
<1>2. /\ todo[c] = {} /\ Synced
      /\ \A p : Committed(p)' = db[p]
      /\ \A p \in Pages : Committed(p)' = Committed(p) /\ db[p] = Committed(p)
  BY <1>1 DEF PlayInv, Committed
<1>3. \A d \in Conns \ {c} : ~Journaling(d) /\ ~Playing(d)
  BY <1>1, PlayAlone
<1>4. JournalInv' /\ IsImage(journal') /\ \A r \in journalDisk' : IsImage(r)
  BY <1>1, EmptyImage DEF JournalInv, Types
<1>5. Clean'
  BY <1>1, <1>2 DEF Clean, Synced
<1>6. (\A d \in Conns : eState'[d] \notin Modified) => DiskInv'
  <2>1. \A p \in Pages : disk[p] = {db[p]}
    BY <1>2 DEF Synced
  <2>2. \A r : \A p \in Pages : After(r, p)' = After(r, p)
    BY <1>1 DEF After
  <2>3. \A p \in Pages : After(<< >>, p)' = db[p]
    BY <1>1, EmptyImage DEF After
  <2> QED BY <1>1, <1>2, <2>1, <2>2, <2>3 DEF DiskInv
<1>7. \A d \in Conns : \A p \in DOMAIN cache[d] : p \in Pages
  BY DEF Types, IsImage
<1>8. ASSUME NEW d \in Conns \ {c}, cache'[d] = cache[d], dbFileVers'[d] = dbFileVers[d],
             eState'[d] = eState[d]
      PROVE  CacheInv!(d)'
  BY <1>1, <1>2, <1>3, <1>7, <1>8, FirstPage DEF CacheInv, Journaling, Playing
<1>9. CASE eState[c] = "OPEN"
  <2>1. /\ lock' = [lock EXCEPT ![c] = "SHARED"] /\ step' = [step EXCEPT ![c] = "validate"]
        /\ UNCHANGED <<eState, cache, dirty, dbFileVers, txn, stmt, saved>>
    BY <1>9 DEF PlayEnd, GoTo, cacheVars, stmtVars
  <2>2. \A d \in Conns \ {c} : eState[d] = "OPEN" /\ step[d] = "none" /\ lock[d] = "NO"
    BY <1>1, <1>9, PlayAlone
  <2>3. /\ lock'[c] = "SHARED" /\ step'[c] = "validate"
        /\ \A d \in Conns \ {c} : step'[d] = "none" /\ lock'[d] = "NO"
    BY <2>1, <2>2 DEF Types
  <2>4. \A d \in Conns : eState'[d] = "OPEN"
    BY <1>9, <2>1, <2>2
  <2>5. Types'
    <3>1. step' \in [Conns -> Steps] /\ lock' \in [Conns -> Locks]
      BY <2>1 DEF Types, Steps, Locks
    <3> QED BY <1>1, <1>4, <2>1, <3>1 DEF Types
  <2>6. LockInv'
    BY <2>3 DEF LockInv, AboveShared
  <2>7. StateInv'
    <3> SUFFICES ASSUME NEW d \in Conns PROVE StateInv!(d)'
      BY DEF StateInv
    <3>1. stmt[d] = "none" => d # c
      BY <1>1, PlayAlone
    <3> QED BY <1>1, <2>1, <2>3, <2>4, <3>1 DEF StateInv, Place, Committing, Writing
  <2>8. WriterInv'
    BY <1>9, <2>1, <2>2 DEF WriterInv, Journaling, Modified
  <2>9. PlayInv' /\ CleanInv'
    BY <1>5, <2>3 DEF PlayInv, Playing, CleanInv
  <2>10. DiskInv'
    BY <1>6, <2>4 DEF Modified
  <2>11. CacheInv'
    <3> SUFFICES ASSUME NEW d \in Conns PROVE CacheInv!(d)'
      BY DEF CacheInv
    <3>1. CASE d = c
      BY <1>2, <1>7, <1>9, <2>1, <3>1, FirstPage DEF CacheInv
    <3>2. CASE d # c
      BY <1>8, <2>1, <3>2
    <3> QED BY <3>1, <3>2
  <2> QED BY <1>4, <2>5, <2>6, <2>7, <2>8, <2>9, <2>10, <2>11
<1>10. CASE eState[c] # "OPEN"
  <2>1. /\ lock' = [lock EXCEPT ![c] = "NO"] /\ eState' = [eState EXCEPT ![c] = "OPEN"]
        /\ txn' = [txn EXCEPT ![c] = 0] /\ step' = [step EXCEPT ![c] = "none"]
        /\ cache' = [cache EXCEPT ![c] = Over(journal, @)]
        /\ dirty' = [dirty EXCEPT ![c] = {}]
        /\ dbFileVers' = [dbFileVers EXCEPT ![c] =
                            IF 1 \in DOMAIN journal THEN journal[1] ELSE @]
    BY <1>10 DEF PlayEnd, PagerUnlock, GoTo
  <2>2. /\ stmt' \in [Conns -> Statements] /\ stmt'[c] = "none"
        /\ DOMAIN saved' = Conns /\ IsImage(saved'[c])
        /\ \A d \in Conns \ {c} : saved'[d] = saved[d] /\ stmt'[d] = stmt[d]
    BY <1>10, IsEffect DEF Statements
  <2>3. /\ eState'[c] = "OPEN" /\ step'[c] = "none" /\ lock'[c] = "NO" /\ dirty'[c] = {}
        /\ dbFileVers'[c] = (IF 1 \in DOMAIN journal THEN journal[1] ELSE dbFileVers[c])
        /\ \A d \in Conns \ {c} :
             /\ eState'[d] = eState[d] /\ step'[d] = step[d] /\ lock'[d] = lock[d]
             /\ dirty'[d] = dirty[d] /\ cache'[d] = cache[d] /\ dbFileVers'[d] = dbFileVers[d]
    BY <2>1 DEF Types
  <2>4. Journaling(c) /\ IsImage(journal) /\ IsImage(cache[c])
    BY <1>1, <1>10, PlayAlone DEF Journaling, Modified, Types
  <2>5. /\ DOMAIN cache' = Conns /\ IsImage(cache'[c])
        /\ DOMAIN cache'[c] = DOMAIN journal \cup DOMAIN cache[c]
        /\ \A p \in DOMAIN journal : cache'[c][p] = journal[p]
        /\ \A p \in DOMAIN cache[c] \ DOMAIN journal : cache'[c][p] = cache[c][p]
    BY <2>1, <2>4 DEF Types, IsImage, Over
  <2>6. \A p \in DOMAIN journal : p \in Pages /\ journal[p] = Committed(p) /\ journal[p] \in Nat
    BY <1>2 DEF Types, IsImage, Committed, JournalInv
  <2>7. Types'
    <3>1. /\ eState' \in [Conns -> States] /\ step' \in [Conns -> Steps]
          /\ lock' \in [Conns -> Locks] /\ txn' \in [Conns -> Nat]
      BY <2>1 DEF Types, States, Steps, Locks
    <3>2. dirty' \in [Conns -> SUBSET Pages] /\ dbFileVers' \in [Conns -> Nat]
      BY <2>1, <2>6 DEF Types
    <3>3. \A d \in Conns : IsImage(cache'[d])
      BY <2>3, <2>5 DEF Types
    <3> QED BY <1>1, <1>4, <2>2, <2>5, <3>1, <3>2, <3>3 DEF Types
  <2>8. LockInv'
    BY <2>3 DEF LockInv, AboveShared
  <2>9. StateInv'
    <3> SUFFICES ASSUME NEW d \in Conns PROVE StateInv!(d)'
      BY DEF StateInv
    <3>1. CASE d = c
      BY <2>2, <2>3, <3>1 DEF StateInv, Place, Committing, Writing
    <3>2. CASE d # c
      <4>1. Place(d)'
        BY <1>3, <2>3, <3>2 DEF StateInv, Place, Playing, Journaling, Modified
      <4> QED BY <1>1, <2>2, <2>3, <3>2, <4>1 DEF StateInv, Committing, Writing
    <3> QED BY <3>1, <3>2
  <2>10. WriterInv'
    <3> SUFFICES ASSUME NEW d \in Conns PROVE WriterInv!(d)'
      BY DEF WriterInv
    <3>1. CASE d = c
      BY <2>2, <2>3, <3>1 DEF WriterInv, Journaling, Modified
    <3>2. CASE d # c
      BY <1>3, <2>2, <2>3, <3>2 DEF WriterInv, Journaling
    <3> QED BY <3>1, <3>2
  <2>11. PlayInv' /\ CleanInv'
    BY <1>3, <1>5, <2>3 DEF PlayInv, Playing, CleanInv
  <2>12. DiskInv'
    BY <1>3, <1>6, <2>3 DEF Modified, Journaling
  <2>13. CacheInv'
    <3> SUFFICES ASSUME NEW d \in Conns PROVE CacheInv!(d)'
      BY DEF CacheInv
    <3>1. CASE d = c
      <4>1. \A p \in DOMAIN cache'[c] : cache'[c][p] = Committed(p)'
        <5>1. \A p \in DOMAIN cache[c] \ DOMAIN journal : cache[c][p] = Committed(p)
          BY <1>10, <2>4 DEF CacheInv
        <5> QED BY <1>2, <1>7, <2>5, <2>6, <5>1
      <4>2. dbFileVers'[c] = Committed(1)'
        <5>1. 1 \notin DOMAIN journal => dbFileVers[c] = db[1]
          BY <1>10 DEF CacheInv
        <5> QED BY <1>2, <2>3, <2>6, <5>1, FirstPage
      <4>3. dbFileVers'[c] \in Nat
        BY <2>7 DEF Types
      <4> QED BY <2>3, <3>1, <4>1, <4>2, <4>3
    <3>2. CASE d # c
      BY <1>8, <2>3, <3>2
    <3> QED BY <3>1, <3>2
  <2> QED BY <1>4, <2>7, <2>8, <2>9, <2>10, <2>11, <2>12, <2>13
<1> QED BY <1>9, <1>10

LEMMA PlaybackStep == ASSUME Inv, NEW c \in Conns, Playback(c) PROVE Inv'
<1>1. UNCHANGED <<stmtVars, crashes>>
  BY DEF Playback
<1>2. CASE \E p \in todo[c] : PlayPage(c, p)
  BY <1>1, <1>2, PlayPageStep
<1>3. CASE PlaySync(c)
  BY <1>1, <1>3, PlaySyncStep
<1>4. CASE eState[c] = "OPEN" /\ PlayEnd(c)
  BY <1>1, <1>4, PlayEndStep
<1> QED BY <1>2, <1>3, <1>4 DEF Playback

LEMMA RollbackEndStep == ASSUME Inv, NEW c \in Conns, RollbackEnd(c) PROVE Inv'
  BY PlayEndStep DEF RollbackEnd

\* The connections after a restart.
LEMMA RestartEffect ==
  ASSUME Inv, Restart
  PROVE  /\ crashes' \in Nat /\ transactions' \in Nat
         /\ lock' \in [Conns -> Locks] /\ eState' \in [Conns -> States]
         /\ DOMAIN cache' = Conns /\ DOMAIN saved' = Conns
         /\ dirty' \in [Conns -> SUBSET Pages] /\ todo' \in [Conns -> SUBSET Pages]
         /\ dbFileVers' \in [Conns -> Nat] /\ txn' \in [Conns -> Nat]
         /\ step' \in [Conns -> Steps] /\ stmt' \in [Conns -> Statements]
         /\ autoCommit' \in [Conns -> BOOLEAN]
         /\ \A c \in Conns :
              /\ IsImage(cache'[c]) /\ DOMAIN cache'[c] = {} /\ IsImage(saved'[c])
              /\ lock'[c] = "NO" /\ eState'[c] = "OPEN" /\ dirty'[c] = {} /\ step'[c] = "none"
              /\ autoCommit'[c] = TRUE /\ stmt'[c] = "none"
         /\ LockInv' /\ StateInv' /\ WriterInv' /\ PlayInv' /\ CleanInv' /\ CacheInv'
<1>1. /\ crashes' \in Nat /\ transactions' \in Nat
      /\ lock' \in [Conns -> Locks] /\ eState' \in [Conns -> States]
      /\ DOMAIN cache' = Conns /\ DOMAIN saved' = Conns
      /\ dirty' \in [Conns -> SUBSET Pages] /\ todo' \in [Conns -> SUBSET Pages]
      /\ dbFileVers' \in [Conns -> Nat] /\ txn' \in [Conns -> Nat]
      /\ step' \in [Conns -> Steps] /\ stmt' \in [Conns -> Statements]
      /\ autoCommit' \in [Conns -> BOOLEAN]
  BY DEF Inv, Types, Restart, Locks, States, Steps, Statements
<1>2. \A c \in Conns :
        /\ IsImage(cache'[c]) /\ DOMAIN cache'[c] = {} /\ IsImage(saved'[c])
        /\ lock'[c] = "NO" /\ eState'[c] = "OPEN" /\ dirty'[c] = {} /\ step'[c] = "none"
        /\ autoCommit'[c] = TRUE /\ stmt'[c] = "none"
  BY EmptyImage DEF Restart
<1>3. LockInv' /\ StateInv' /\ WriterInv' /\ PlayInv' /\ CleanInv' /\ CacheInv'
  BY <1>2 DEF LockInv, AboveShared, StateInv, Place, Committing, Writing, WriterInv, Journaling,
     Modified, PlayInv, Playing, CleanInv, CacheInv
<1> QED BY <1>1, <1>2, <1>3

LEMMA CrashStep == ASSUME Inv, Crash PROVE Inv'
<1>1. UNCHANGED <<db, disk, journal, counted, journalDisk>> /\ Restart
  BY DEF Crash, fileVars, journalVars
<1>2. Types'
  BY <1>1, RestartEffect DEF Inv, Types
<1>3. DiskInv'
  <2>1. \A c \in Conns : eState'[c] \notin Modified
    BY <1>1, RestartEffect DEF Modified
  <2> QED BY <1>1, <2>1 DEF Inv, DiskInv, Committed, After
<1>4. JournalInv'
  BY <1>1 DEF Inv, JournalInv
<1> QED BY <1>1, <1>2, <1>3, <1>4, RestartEffect DEF Inv

LEMMA PowerLossStep == ASSUME Inv, PowerLoss PROVE Inv'
<1>1. PICK f \in Disks, r \in journalDisk :
        /\ db' = f /\ disk' = [p \in Pages |-> {f[p]}] /\ journal' = r /\ counted' = DOMAIN r
        /\ journalDisk' = {r}
  BY DEF PowerLoss
<1>2. Restart
  BY DEF PowerLoss
<1>3. IsImage(r) /\ DOMAIN r \subseteq Pages /\ f \in [Pages -> Nat]
  BY DEF Inv, Types, IsImage, Disks
<1>4. db' \in [Pages -> Nat] /\ disk' \in [Pages -> SUBSET Nat] /\ counted' \in SUBSET Pages
  BY <1>1, <1>3
<1>5. Types'
  BY <1>1, <1>2, <1>3, <1>4, RestartEffect DEF Types
<1>6. JournalInv'
  BY <1>1 DEF JournalInv
<1>7. \A c \in Conns : eState'[c] \notin Modified
  BY <1>2, RestartEffect DEF Modified
<1>8. DiskInv'
  BY <1>1, <1>7 DEF DiskInv, Committed, After
<1> QED BY <1>2, <1>5, <1>6, <1>8, RestartEffect DEF Inv

\* No step breaks the invariant: one lemma per action.
LEMMA Inductive == Inv /\ [Next]_vars => Inv'
<1> SUFFICES ASSUME Inv, [Next]_vars PROVE Inv'
  OBVIOUS
<1>1. CASE UNCHANGED vars
  <2>1. UNCHANGED <<db, disk, journal, counted, journalDisk, lock, eState, cache, dirty, dbFileVers,
                    txn, step, todo, transactions, autoCommit, stmt, saved, crashes>>
    BY <1>1 DEF vars, pagerVars, fileVars, journalVars, cacheVars, stmtVars
  <2>2. Types' /\ LockInv' /\ StateInv' /\ JournalInv'
    BY <2>1 DEF Inv, Types, LockInv, StateInv, Place, Committing, Writing, Playing, JournalInv
  <2>3. WriterInv' /\ PlayInv' /\ CleanInv'
    BY <2>1 DEF Inv, WriterInv, Journaling, Committed, Playing, Synced, PlayInv, CleanInv, Clean
  <2>4. DiskInv' /\ CacheInv'
    BY <2>1 DEF Inv, DiskInv, Committed, After, CacheInv, Journaling, Playing
  <2> QED BY <2>2, <2>3, <2>4 DEF Inv
<1>2. ASSUME NEW c \in Conns, Statement(c) PROVE Inv'
  <2>1. CASE Begin(c) \/ Step(c, "read") \/ Step(c, "write")
    BY <2>1, BeginStep, StepStep
  <2>2. CASE BeginTrans(c)
    <3>1. UNCHANGED <<stmtVars, crashes>>
      BY <2>2 DEF BeginTrans
    <3>2. CASE stmt[c] \in {"read", "write"} /\ (SharedLock(c) \/ JournalExists(c))
      BY <3>1, <3>2, SharedLockStep, JournalExistsStep
    <3>3. CASE stmt[c] \in {"read", "write"} /\ (CheckReservedLock(c) \/ LockHot(c))
      BY <3>1, <3>3, CheckReservedLockStep, LockHotStep
    <3>4. CASE stmt[c] \in {"read", "write"} /\ Validate(c)
      BY <3>1, <3>4, ValidateStep
    <3>5. CASE stmt[c] = "write" /\ PagerBegin(c)
      BY <3>1, <3>5, PagerBeginStep
    <3> QED BY <2>2, <3>2, <3>3, <3>4, <3>5 DEF BeginTrans
  <2>3. CASE Busy(c)
    BY <2>3, BusyStep
  <2>4. CASE \E p \in Pages : Read(c, p)
    BY <2>4, ReadStep
  <2>5. CASE \E p \in Pages \ {1} : Write(c, p)
    BY <2>5, WriteStep
  <2>6. CASE Spill(c) \/ SpillSync(c)
    BY <2>6, SpillStep, SpillSyncStep
  <2>7. CASE HaltOk(c) \/ HaltAbort(c) \/ HaltSpecial(c)
    BY <2>7, HaltOkStep, HaltAbortStep, HaltSpecialStep
  <2> QED BY <1>2, <2>1, <2>2, <2>3, <2>4, <2>5, <2>6, <2>7 DEF Statement
<1>3. ASSUME NEW c \in Conns, End(c) PROVE Inv'
  <2>1. CASE Commit(c) \/ CommitBusy(c) \/ CommitStart(c)
    BY <2>1, CommitStep, CommitBusyStep, CommitStartStep
  <2>2. CASE CommitCount(c) \/ CommitSync(c)
    BY <2>2, CommitCountStep, CommitSyncStep
  <2>3. CASE \E p \in Pages : CommitWrite(c, p)
    BY <2>3, CommitWriteStep
  <2>4. CASE CommitFinish(c) \/ CommitEnd(c) \/ CommitFails(c)
    BY <2>4, CommitFinishStep, CommitEndStep, CommitFailsStep
  <2>5. CASE Rollback(c) \/ Playback(c) \/ RollbackEnd(c) \/ PlaybackFails(c)
    BY <2>5, RollbackStep, PlaybackStep, RollbackEndStep, PlaybackFailsStep
  <2> QED BY <1>3, <2>1, <2>2, <2>3, <2>4, <2>5 DEF End
<1>4. CASE Crash
  BY <1>4, CrashStep
<1>5. CASE PowerLoss
  BY <1>5, PowerLossStep
<1> QED BY <1>1, <1>2, <1>3, <1>4, <1>5 DEF Next

\* The invariant holds in every reachable state.
LEMMA Invariance == Spec => []Inv
  BY InitInv, Inductive, PTL DEF Spec

-----------------------------------------------------------------------------
(* The theorems. *)

\* Every variable keeps its type, and a connection that writes has the original
\* of each page it has changed in the journal: a ROLLBACK, and a hot journal, can
\* put it back (pager_playback).
THEOREM SqliteTypeCorrect == Spec => []TypeOK
<1>1. Inv => TypeOK
  BY DEF Inv, TypeOK, WriterInv, JournalInv
<1> QED BY <1>1, Invariance, PTL

\* The lock levels of unixLock exclude what they are to exclude: one connection
\* at a time is above SHARED, and with an EXCLUSIVE lock no other has any.
THEOREM LocksExclude == Spec => []LockInv
<1>1. Inv => LockInv
  BY DEF Inv
<1> QED BY <1>1, Invariance, PTL

\* What the file holds once a hot journal is played back, page by page.
LEMMA RecoveredPage ==
  ASSUME Inv, NEW r, IsImage(r), NEW f \in [Pages -> Nat]
  PROVE  /\ Recovered(r, f) \in [Pages -> Nat]
         /\ \A p \in Pages : Recovered(r, f)[p] = IF p \in DOMAIN r THEN r[p] ELSE f[p]
<1>1. DOMAIN r \cup DOMAIN f = Pages
  BY DEF IsImage
<1> QED BY <1>1 DEF Recovered, Over, IsImage

LEMMA ContentPage ==
  ASSUME Inv
  PROVE  Content \in [Pages -> Nat] /\ \A p \in Pages : Content[p] = Committed(p)
<1>1. IsImage(Counted) /\ DOMAIN Counted = counted /\ \A p \in counted : Counted[p] = journal[p]
  BY RestrictImage DEF Inv, Types, JournalInv, Counted
<1>2. db \in [Pages -> Nat]
  BY DEF Inv, Types
<1> QED BY <1>1, <1>2, RecoveredPage DEF Content, Committed

\* A connection with a lock reads what is committed, or what it has written: a
\* cache that was kept while it had no lock is as good as the file, because the
\* change counter of page 1 has not moved (pager_reset, sqlite3PagerSharedLock).
THEOREM CacheStaysCurrent == Spec => []CacheIsCurrent
<1>1. ASSUME Inv PROVE CacheIsCurrent
  <2> SUFFICES ASSUME NEW c \in Conns, eState[c] # "OPEN",
                      NEW p \in DOMAIN cache[c] \ DOMAIN Written(c)
               PROVE  cache[c][p] = Content[p]
    BY DEF CacheIsCurrent
  <2>1. p \in Pages
    BY <1>1 DEF Inv, Types, IsImage
  <2>2. Journaling(c) => DOMAIN Written(c) = DOMAIN journal
    <3>1. Journaling(c) => DOMAIN journal \subseteq DOMAIN cache[c]
      BY <1>1 DEF Inv, WriterInv
    <3> QED BY <1>1, <3>1, RestrictImage DEF Inv, Types, Written
  <2>3. cache[c][p] = Committed(p)
    BY <1>1, <2>2 DEF Inv, CacheInv
  <2> QED BY <1>1, <2>1, <2>3, ContentPage
<1> QED BY <1>1, Invariance, PTL

LEMMA PowerLossAtomic == ASSUME Inv PROVE PowerLossIsAtomic
<1> SUFFICES ASSUME NEW f \in Disks, NEW r \in journalDisk
             PROVE  Recovered(r, f) \in {Content, Previous}
  BY DEF PowerLossIsAtomic
<1>1. f \in [Pages -> Nat] /\ db \in [Pages -> Nat] /\ \A s \in journalDisk : IsImage(s)
  BY DEF Inv, Types, Disks
<1>2. \A p \in Pages : p \in DOMAIN r \/ f[p] = db[p]
  BY DEF Inv, DiskInv, Disks
<1>3. Recovered(r, f) = Recovered(r, db)
  <2>1. \A p \in Pages : Recovered(r, f)[p] = Recovered(r, db)[p]
    BY <1>1, <1>2, RecoveredPage
  <2>2. Recovered(r, f) \in [Pages -> Nat] /\ Recovered(r, db) \in [Pages -> Nat]
    BY <1>1, RecoveredPage
  <2> QED BY <2>1, <2>2
<1>4. ASSUME NEW s \in journalDisk, Recovered(r, db) # Content, Recovered(s, db) # Content
      PROVE  Recovered(r, db) = Recovered(s, db)
  <2>1. /\ Recovered(r, db) \in [Pages -> Nat] /\ Recovered(s, db) \in [Pages -> Nat]
        /\ \A p \in Pages : /\ Recovered(r, db)[p] = After(r, p)
                            /\ Recovered(s, db)[p] = After(s, p)
    BY <1>1, RecoveredPage DEF After
  <2>2. ~\A p \in Pages : After(r, p) = Committed(p)
    BY <1>4, <2>1, ContentPage
  <2>3. ~\A p \in Pages : After(s, p) = Committed(p)
    BY <1>4, <2>1, ContentPage
  <2>4. \A p \in Pages : After(r, p) = After(s, p)
    BY <2>2, <2>3 DEF Inv, DiskInv
  <2> QED BY <2>1, <2>4
<1>5. CASE Recovered(r, db) # Content
  <2> DEFINE others == {Recovered(s, db) : s \in journalDisk}
  <2>1. Previous = CHOOSE g \in others : g # Content
    BY <1>5 DEF Previous
  <2>2. Recovered(r, db) \in others /\ Recovered(r, db) # Content
    BY <1>5
  <2>3. Previous \in others /\ Previous # Content
    BY <2>1, <2>2
  <2>4. PICK s \in journalDisk : Previous = Recovered(s, db)
    BY <2>3
  <2> QED BY <1>3, <1>4, <1>5, <2>3, <2>4
<1>6. CASE Recovered(r, db) = Content
  BY <1>3, <1>6
<1> QED BY <1>5, <1>6

\* A loss of power takes a transaction as a whole or not at all: whatever of the
\* unsynced writes, and whichever journal, it leaves, playing the journal back
\* gives the committed content or what was committed before (syncJournal before
\* pager_write_pagelist, the sync of the file before the journal is deleted).
THEOREM AtomicOnPowerLoss == Spec => []PowerLossIsAtomic
<1>1. Inv => PowerLossIsAtomic
  BY PowerLossAtomic
<1> QED BY <1>1, Invariance, PTL

=============================================================================
