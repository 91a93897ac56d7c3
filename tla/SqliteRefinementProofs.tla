------------------------ MODULE SqliteRefinementProofs ------------------------
(***************************************************************************)
(* SqliteConnection implements AtomicDatabase, for any number of           *)
(* connections, pages, transactions and crashes: every step, seen through  *)
(* the mapping of SqliteRefinement, is a step of AtomicDatabase or a       *)
(* stutter.                                                                *)
(***************************************************************************)
EXTENDS SqliteProofs

Changes == [c \in Conns |-> Written(c)]
Active == {c \in Conns : eState[c] # "OPEN"}

-----------------------------------------------------------------------------
(* The steps of AtomicDatabase, in terms of the mapping. *)

LEMMA AbstractInit ==
  ASSUME Content = [p \in Pages |-> 0], Previous = Content, Changes = [c \in Conns |-> << >>],
         Active = {}
  PROVE  Abstract!Init
  BY DEF Abstract!Init, Abstract!Unchanged, Changes, Active

LEMMA AbstractStutter ==
  ASSUME UNCHANGED <<Content, Previous, Changes, Active>> PROVE UNCHANGED Abstract!vars
  BY DEF Abstract!vars, Changes, Active

LEMMA AbstractEnter ==
  ASSUME NEW c \in Conns, c \notin Active, Active' = Active \cup {c},
         UNCHANGED <<Content, Previous, Changes>>
  PROVE  Abstract!Next
  BY DEF Abstract!Next, Abstract!Enter, Changes, Active

LEMMA AbstractChange ==
  ASSUME NEW c \in Conns, c \in Active,
         \A d \in Conns \ {c} : Changes[d] = << >> /\ Changes'[d] = << >>,
         UNCHANGED <<Content, Previous, Active>>
  PROVE  Abstract!Next
  BY DEF Abstract!Next, Abstract!Change, Changes, Active

LEMMA AbstractCommit ==
  ASSUME NEW c \in Conns, Active = {c}, Previous' = Content,
         Content' = [p \in Pages |-> IF p \in DOMAIN Changes[c] THEN Changes[c][p] ELSE Content[p]],
         Changes' = [d \in Conns |-> << >>], Active' = {}
  PROVE  Abstract!Next
  BY DEF Abstract!Next, Abstract!Commit, Abstract!Unchanged, Changes, Active

LEMMA AbstractLeave ==
  ASSUME NEW c \in Conns, c \in Active, Active' = Active \ {c},
         Changes' = [Changes EXCEPT ![c] = << >>], UNCHANGED <<Content, Previous>>
  PROVE  Abstract!Next
  BY DEF Abstract!Next, Abstract!Leave, Changes, Active

LEMMA AbstractSettle ==
  ASSUME Previous' = Content, UNCHANGED <<Content, Changes, Active>> PROVE Abstract!Next
  BY DEF Abstract!Next, Abstract!Settle, Changes, Active

LEMMA AbstractCrash ==
  ASSUME UNCHANGED <<Content, Previous>>, Changes' = [d \in Conns |-> << >>], Active' = {}
  PROVE  Abstract!Next
  BY DEF Abstract!Next, Abstract!Crash, Abstract!Unchanged, Changes, Active

LEMMA AbstractPowerLoss ==
  ASSUME Content' \in {Content, Previous}, Previous' = Content',
         Changes' = [d \in Conns |-> << >>], Active' = {}
  PROVE  Abstract!Next
  BY DEF Abstract!Next, Abstract!PowerLoss, Abstract!Unchanged, Changes, Active

-----------------------------------------------------------------------------
(* What the steps keep of the mapping. *)

\* The previous content is the one that some journal gives, if any gives
\* another one than the committed.
LEMMA PreviousIs ==
  ASSUME Inv
  PROVE  /\ Previous \in [Pages -> Nat]
         /\ \/ /\ Previous = Content
               /\ \A r \in journalDisk : \A p \in Pages : After(r, p) = Committed(p)
            \/ \E r \in journalDisk : /\ \A p \in Pages : Previous[p] = After(r, p)
                                      /\ ~\A p \in Pages : After(r, p) = Committed(p)
<1>1. \A r \in journalDisk : /\ Recovered(r, db) \in [Pages -> Nat]
                             /\ \A p \in Pages : Recovered(r, db)[p] = After(r, p)
  BY RecoveredPage DEF After, Inv, Types
<1>2. \A r \in journalDisk :
        Recovered(r, db) = Content <=> \A p \in Pages : After(r, p) = Committed(p)
  BY <1>1, ContentPage
<1>3. CASE \A r \in journalDisk : Recovered(r, db) = Content
  <2>1. Previous = Content
    BY <1>3 DEF Previous
  <2> QED BY <1>2, <1>3, <2>1, ContentPage
<1>4. CASE \E r \in journalDisk : Recovered(r, db) # Content
  <2> DEFINE others == {Recovered(s, db) : s \in journalDisk}
  <2>1. Previous = CHOOSE g \in others : g # Content
    BY <1>4 DEF Previous
  <2>2. \E g \in others : g # Content
    BY <1>4
  <2>3. Previous \in others /\ Previous # Content
    BY <2>1, <2>2
  <2>4. PICK s \in journalDisk : Previous = Recovered(s, db)
    BY <2>3
  <2> QED BY <1>1, <1>2, <2>3, <2>4
<1> QED BY <1>3, <1>4

\* All journals that do not give the committed content give the same.
LEMMA PreviousUnique ==
  ASSUME Inv, NEW f \in [Pages -> Nat],
         \/ /\ f = Content
            /\ \A r \in journalDisk : \A p \in Pages : After(r, p) = Committed(p)
         \/ \E r \in journalDisk : /\ \A p \in Pages : f[p] = After(r, p)
                                   /\ ~\A p \in Pages : After(r, p) = Committed(p)
  PROVE  f = Previous
<1>1. CASE \A r \in journalDisk : \A p \in Pages : After(r, p) = Committed(p)
  BY <1>1, PreviousIs
<1>2. CASE ~\A r \in journalDisk : \A p \in Pages : After(r, p) = Committed(p)
  <2>1. PICK r \in journalDisk : /\ \A p \in Pages : f[p] = After(r, p)
                                 /\ ~\A p \in Pages : After(r, p) = Committed(p)
    BY <1>2
  <2>2. PICK s \in journalDisk : /\ \A p \in Pages : Previous[p] = After(s, p)
                                 /\ ~\A p \in Pages : After(s, p) = Committed(p)
    BY <1>2, PreviousIs
  <2>3. \A p \in Pages : f[p] = Previous[p]
    BY <2>1, <2>2 DEF Inv, DiskInv
  <2> QED BY <2>3, PreviousIs
<1> QED BY <1>1, <1>2

\* The same of the next state.
LEMMA ContentPageNext ==
  Inv' => (Content \in [Pages -> Nat] /\ \A p \in Pages : Content[p] = Committed(p))'
<1>1. Inv => Content \in [Pages -> Nat] /\ \A p \in Pages : Content[p] = Committed(p)
  BY ContentPage
<1> QED BY <1>1, PTL

LEMMA PreviousIsNext ==
  Inv' => (/\ Previous \in [Pages -> Nat]
           /\ \/ /\ Previous = Content
                 /\ \A r \in journalDisk : \A p \in Pages : After(r, p) = Committed(p)
              \/ \E r \in journalDisk : /\ \A p \in Pages : Previous[p] = After(r, p)
                                        /\ ~\A p \in Pages : After(r, p) = Committed(p))'
<1>1. Inv => /\ Previous \in [Pages -> Nat]
             /\ \/ /\ Previous = Content
                   /\ \A r \in journalDisk : \A p \in Pages : After(r, p) = Committed(p)
                \/ \E r \in journalDisk : /\ \A p \in Pages : Previous[p] = After(r, p)
                                          /\ ~\A p \in Pages : After(r, p) = Committed(p)
  BY PreviousIs
<1> QED BY <1>1, PTL

\* A step that keeps what is committed, and takes no journal away, keeps both.
LEMMA ImagesSame ==
  ASSUME Inv, Inv', \A p \in Pages : Committed(p)' = Committed(p),
         journalDisk \subseteq journalDisk',
         \A r \in journalDisk : \A p \in Pages : After(r, p)' = After(r, p),
         \A r \in journalDisk' \ journalDisk : \A p \in Pages : After(r, p)' = Committed(p)
  PROVE  UNCHANGED <<Content, Previous>>
<1>1. Content' = Content
  <2>1. /\ Content \in [Pages -> Nat] /\ \A p \in Pages : Content[p] = Committed(p)
        /\ Content' \in [Pages -> Nat] /\ \A p \in Pages : Content'[p] = Committed(p)'
    BY ContentPage, ContentPageNext
  <2> QED BY <2>1
<1>2. /\ Previous \in [Pages -> Nat]
      /\ Previous' \in [Pages -> Nat]
      /\ \/ /\ Previous' = Content'
            /\ \A r \in journalDisk' : \A p \in Pages : After(r, p)' = Committed(p)'
         \/ \E r \in journalDisk' : /\ \A p \in Pages : Previous'[p] = After(r, p)'
                                    /\ ~\A p \in Pages : After(r, p)' = Committed(p)'
  BY PreviousIs, PreviousIsNext
<1>3. \/ /\ Previous' = Content
         /\ \A r \in journalDisk : \A p \in Pages : After(r, p) = Committed(p)
      \/ \E r \in journalDisk : /\ \A p \in Pages : Previous'[p] = After(r, p)
                                /\ ~\A p \in Pages : After(r, p) = Committed(p)
  BY <1>1, <1>2
<1> QED BY <1>1, <1>2, <1>3, PreviousUnique

-----------------------------------------------------------------------------
(* The kinds of steps of SqliteConnection. *)

\* The step is one of AtomicDatabase or a stutter.
Simulated == Abstract!Next \/ UNCHANGED Abstract!vars

\* The files stay as they are.
LEMMA FilesSame ==
  ASSUME Inv, Inv', UNCHANGED <<db, journal, counted, journalDisk>>
  PROVE  UNCHANGED <<Content, Previous>>
<1>1. /\ \A p \in Pages : Committed(p)' = Committed(p)
      /\ \A r \in journalDisk : \A p \in Pages : After(r, p)' = After(r, p)
  BY DEF Committed, After
<1> QED BY <1>1, ImagesSame

LEMMA KeptSame == ASSUME Inv, Inv', ImagesKept PROVE UNCHANGED <<Content, Previous>>
  BY ImagesSame DEF ImagesKept

\* A connection keeps what it has written.
LEMMA WrittenSame ==
  ASSUME NEW d \in Conns, Journaling(d)' <=> Journaling(d),
         Journaling(d) => journal' = journal /\ \A x \in DOMAIN journal : cache'[d][x] = cache[d][x]
  PROVE  Written(d)' = Written(d)
  BY DEF Written, Restrict

LEMMA QuietStep ==
  ASSUME UNCHANGED <<Content, Previous>>,
         \A d \in Conns :
           /\ eState'[d] = "OPEN" <=> eState[d] = "OPEN"
           /\ Journaling(d)' <=> Journaling(d)
           /\ Journaling(d) =>
                journal' = journal /\ \A x \in DOMAIN journal : cache'[d][x] = cache[d][x]
  PROVE  Simulated
<1>1. Changes' = Changes
  BY WrittenSame DEF Changes
<1>2. Active' = Active
  BY DEF Active
<1> QED BY <1>1, <1>2, AbstractStutter DEF Simulated

\* A connection ends its transaction, with what is committed as it was.
LEMMA LeaveStep ==
  ASSUME Inv, NEW c \in Conns, UNCHANGED <<Content, Previous>>, eState'[c] = "OPEN",
         \A d \in Conns \ {c} :
           /\ eState'[d] = eState[d]
           /\ Journaling(d) =>
                journal' = journal /\ \A x \in DOMAIN journal : cache'[d][x] = cache[d][x]
  PROVE  Simulated
<1>1. \A d \in Conns \ {c} : Journaling(d)' <=> Journaling(d)
  BY DEF Journaling
<1>2. CASE eState[c] = "OPEN"
  BY <1>1, <1>2, QuietStep DEF Journaling, Modified
<1>3. CASE eState[c] # "OPEN"
  <2>1. \A d \in Conns \ {c} : Written(d)' = Written(d)
    BY <1>1, WrittenSame
  <2>2. Written(c)' = << >>
    BY DEF Written, Journaling, Modified
  <2>3. Changes' = [Changes EXCEPT ![c] = << >>]
    BY <2>1, <2>2 DEF Changes
  <2>4. c \in Active /\ Active' = Active \ {c}
    BY <1>3 DEF Active
  <2> QED BY <2>3, <2>4, AbstractLeave DEF Simulated
<1> QED BY <1>2, <1>3

LEMMA UnlockSimulated ==
  ASSUME Inv, Inv', NEW c \in Conns, PagerUnlock(c), UNCHANGED <<fileVars, cacheVars>>
  PROVE  Simulated
<1>1. eState'[c] = "OPEN" /\ \A d \in Conns \ {c} : eState'[d] = eState[d]
  BY DEF PagerUnlock, Inv, Types
<1>2. UNCHANGED <<Content, Previous>>
  BY FilesSame DEF fileVars, journalVars
<1> QED BY <1>1, <1>2, LeaveStep DEF fileVars, journalVars, cacheVars

LEMMA ErrorSimulated ==
  ASSUME Inv, Inv', NEW c \in Conns, PagerError(c) PROVE Simulated
<1>1. /\ eState' = [eState EXCEPT ![c] = "OPEN"] /\ cache' = [cache EXCEPT ![c] = << >>]
      /\ UNCHANGED <<db, journal, counted, journalDisk>>
  BY DEF PagerError, PagerUnlock, fileVars, journalVars
<1>2. /\ eState'[c] = "OPEN"
      /\ \A d \in Conns \ {c} : eState'[d] = eState[d] /\ cache'[d] = cache[d]
  BY <1>1 DEF Inv, Types
<1>3. UNCHANGED <<Content, Previous>>
  BY <1>1, FilesSame
<1> QED BY <1>1, <1>2, <1>3, LeaveStep

\* A connection changes pages, alone.
LEMMA ChangeStep ==
  ASSUME NEW c \in Conns, UNCHANGED <<Content, Previous>>, eState[c] # "OPEN",
         eState'[c] # "OPEN",
         \A d \in Conns \ {c} : eState'[d] = eState[d] /\ ~Journaling(d)
  PROVE  Simulated
<1>1. \A d \in Conns \ {c} : ~Journaling(d)'
  BY DEF Journaling
<1>2. \A d \in Conns \ {c} : Changes[d] = << >> /\ Changes'[d] = << >>
  BY <1>1 DEF Changes, Written
<1>3. c \in Active /\ Active' = Active
  BY DEF Active
<1> QED BY <1>2, <1>3, AbstractChange DEF Simulated

\* No journal is left that would give anything but the committed content.
LEMMA SettleStep ==
  ASSUME Inv, Inv', \A p \in Pages : Committed(p)' = Committed(p),
         \A r \in journalDisk' : \A p \in Pages : After(r, p)' = Committed(p),
         \A d \in Conns :
           /\ eState'[d] = "OPEN" <=> eState[d] = "OPEN"
           /\ Journaling(d)' <=> Journaling(d)
           /\ Journaling(d) =>
                journal' = journal /\ \A x \in DOMAIN journal : cache'[d][x] = cache[d][x]
  PROVE  Simulated
<1>1. Content' = Content
  <2>1. /\ Content \in [Pages -> Nat] /\ \A p \in Pages : Content[p] = Committed(p)
        /\ Content' \in [Pages -> Nat] /\ \A p \in Pages : Content'[p] = Committed(p)'
    BY ContentPage, ContentPageNext
  <2> QED BY <2>1
<1>2. Previous' = Content'
  BY PreviousIsNext
<1>3. Changes' = Changes
  BY WrittenSame DEF Changes
<1>4. Active' = Active
  BY DEF Active
<1> QED BY <1>1, <1>2, <1>3, <1>4, AbstractSettle DEF Simulated

-----------------------------------------------------------------------------
(* The steps. *)

LEMMA FrameStep ==
  ASSUME Inv, Inv', UNCHANGED <<db, journal, counted, journalDisk, cache, eState>> PROVE Simulated
<1>1. UNCHANGED <<Content, Previous>>
  BY FilesSame
<1> QED BY <1>1, QuietStep DEF Journaling

LEMMA RollbackAllSimulated ==
  ASSUME Inv, Inv', NEW c \in Conns, RollbackAll(c) PROVE Simulated
<1>1. CASE Journaling(c)
  BY <1>1, FrameStep DEF RollbackAll, PagerRollback, fileVars, journalVars, cacheVars
<1>2. CASE ~Journaling(c)
  <2>1. PagerUnlock(c) /\ UNCHANGED <<fileVars, cacheVars>>
    BY <1>2 DEF RollbackAll, PagerRollback
  <2> QED BY <2>1, UnlockSimulated
<1> QED BY <1>1, <1>2

LEMMA BeginTransSimulated ==
  ASSUME Inv, Inv', NEW c \in Conns, BeginTrans(c) PROVE Simulated
<1>1. CASE SharedLock(c) \/ JournalExists(c) \/ CheckReservedLock(c)
  BY <1>1, FrameStep
  DEF SharedLock, JournalExists, CheckReservedLock, fileVars, journalVars, cacheVars
<1>2. CASE LockHot(c)
  <2>1. /\ eState[c] = "OPEN" /\ eState' = eState
        /\ UNCHANGED <<db, journal, counted>> /\ \A d \in Conns \ {c} : cache'[d] = cache[d]
    BY <1>2 DEF LockHot, Inv, StateInv, Place, Playing, Types
  <2>2. CASE journal = << >>
    BY <1>2, <2>2, FrameStep DEF LockHot
  <2>3. CASE journal # << >>
    <3>1. journalDisk' = {Counted}
      BY <1>2, <2>3 DEF LockHot
    <3>2. DOMAIN Counted = counted /\ \A p \in counted : Counted[p] = journal[p]
      BY RestrictImage DEF Counted, Inv, Types, JournalInv
    <3>3. /\ \A p \in Pages : Committed(p)' = Committed(p)
          /\ \A r \in journalDisk' : \A p \in Pages : After(r, p)' = Committed(p)
      BY <2>1, <3>1, <3>2 DEF Committed, After
    <3>4. ~Journaling(c)
      BY <2>1 DEF Journaling, Modified
    <3> QED BY <2>1, <3>3, <3>4, SettleStep DEF Journaling
  <2> QED BY <2>2, <2>3
<1>3. CASE stmt[c] \in {"read", "write"} /\ Validate(c)
  <2>1. /\ UNCHANGED <<db, journal, counted, journalDisk>>
        /\ eState[c] = "OPEN" /\ eState'[c] = "READER"
        /\ \A d \in Conns \ {c} : eState'[d] = eState[d] /\ cache'[d] = cache[d]
    BY <1>3 DEF Validate, Inv, StateInv, Place, Playing, Types, fileVars, journalVars
  <2>2. UNCHANGED <<Content, Previous>>
    BY <2>1, FilesSame
  <2>3. \A d \in Conns : Journaling(d)' <=> Journaling(d)
    BY <2>1 DEF Journaling, Modified
  <2>4. \A d \in Conns : Written(d)' = Written(d)
    <3>1. ~Journaling(c)
      BY <2>1 DEF Journaling, Modified
    <3> QED BY <2>1, <2>3, <3>1, WrittenSame
  <2>5. Changes' = Changes
    BY <2>4 DEF Changes
  <2>6. c \notin Active /\ Active' = Active \cup {c}
    BY <2>1 DEF Active
  <2> QED BY <2>2, <2>5, <2>6, AbstractEnter DEF Simulated
<1>4. CASE PagerBegin(c)
  <2>1. /\ UNCHANGED <<db, journal, counted, journalDisk, cache>>
        /\ eState[c] = "READER" /\ eState'[c] = "WRITER_LOCKED"
        /\ \A d \in Conns \ {c} : eState'[d] = eState[d]
    BY <1>4 DEF PagerBegin, Inv, Types, fileVars, journalVars, cacheVars
  <2>2. UNCHANGED <<Content, Previous>>
    BY <2>1, FilesSame
  <2>3. \A d \in Conns : Journaling(d)' <=> Journaling(d)
    BY <2>1 DEF Journaling, Modified
  <2>4. \A d \in Conns : eState'[d] = "OPEN" <=> eState[d] = "OPEN"
    BY <2>1
  <2> QED BY <2>1, <2>2, <2>3, <2>4, QuietStep
<1> QED BY <1>1, <1>2, <1>3, <1>4 DEF BeginTrans

LEMMA ReadSimulated ==
  ASSUME Inv, Inv', NEW c \in Conns, NEW p \in Pages, Read(c, p) PROVE Simulated
<1>1. /\ UNCHANGED <<db, journal, counted, journalDisk, eState>>
      /\ p \notin DOMAIN cache[c] /\ cache' = [cache EXCEPT ![c] = Over(Single(p, db[p]), @)]
  BY DEF Read, ReadPage, fileVars, journalVars
<1>2. /\ \A x \in DOMAIN cache[c] : cache'[c][x] = cache[c][x]
      /\ \A d \in Conns \ {c} : cache'[d] = cache[d]
  BY <1>1 DEF Inv, Types, IsImage, Over, Single
<1>3. Journaling(c) => DOMAIN journal \subseteq DOMAIN cache[c]
  BY DEF Inv, WriterInv
<1>4. UNCHANGED <<Content, Previous>>
  BY <1>1, FilesSame
<1>5. \A d \in Conns : Journaling(d) => \A x \in DOMAIN journal : cache'[d][x] = cache[d][x]
  BY <1>2, <1>3
<1> QED BY <1>1, <1>4, <1>5, QuietStep DEF Journaling

\* A page is written: to the cache, and what it was to the journal.
LEMMA PagerWriteSimulated ==
  ASSUME Inv, Inv', NEW c \in Conns, NEW p \in Pages, NEW v \in Nat,
         eState[c] \in {"WRITER_LOCKED", "WRITER_CACHEMOD", "WRITER_DBMOD"}, step[c] = "none",
         PagerWrite(c, p, v)
  PROVE  Simulated
<1>1. /\ journalDisk' = (IF Journaling(c) THEN journalDisk ELSE journalDisk \cup {<< >>})
      /\ \A x \in Pages : Committed(x)' = Committed(x)
      /\ eState' = [eState EXCEPT ![c] = IF Journaling(c) THEN @ ELSE "WRITER_CACHEMOD"]
      /\ db' = db
      /\ ~Journaling(c) => Clean
      /\ \A d \in Conns \ {c} : ~Journaling(d)
  BY PagerWriteEffect
<1>2. \A r \in journalDisk : \A x \in Pages : After(r, x)' = After(r, x)
  BY <1>1 DEF After
<1>3. \A r \in journalDisk' \ journalDisk : \A x \in Pages : After(r, x)' = Committed(x)
  BY <1>1, EmptyImage DEF After, Clean
<1>4. UNCHANGED <<Content, Previous>>
  BY <1>1, <1>2, <1>3, ImagesSame
<1>5. eState[c] # "OPEN" /\ eState'[c] # "OPEN" /\ \A d \in Conns \ {c} : eState'[d] = eState[d]
  BY <1>1 DEF Inv, Types
<1> QED BY <1>1, <1>4, <1>5, ChangeStep

LEMMA WriteSimulated ==
  ASSUME Inv, Inv', NEW c \in Conns, NEW p \in Pages, Write(c, p) PROVE Simulated
<1>1. /\ eState[c] \in {"WRITER_LOCKED", "WRITER_CACHEMOD", "WRITER_DBMOD"} /\ step[c] = "none"
      /\ PagerWrite(c, p, txn[c]) /\ txn[c] \in Nat
  BY DEF Write, Runs, Writing, Inv, StateInv, Place, Playing, Types
<1>2. PICK v \in Nat : PagerWrite(c, p, v)
  BY <1>1
<1> QED BY <1>1, <1>2, PagerWriteSimulated

\* The records are counted: one more journal that gives the committed content.
LEMMA CountSimulated ==
  ASSUME Inv, Inv', NEW c, CountRecords(c), UNCHANGED <<eState, cache>> PROVE Simulated
<1>1. /\ UNCHANGED <<db, journal>> /\ counted' = DOMAIN journal
      /\ journalDisk' = journalDisk \cup {journal}
  BY DEF CountRecords
<1>2. \A p \in Pages : Committed(p)' = Committed(p) /\ After(journal, p)' = Committed(p)
  BY <1>1 DEF Committed, After, Inv, JournalInv
<1>3. \A r \in journalDisk : \A p \in Pages : After(r, p)' = After(r, p)
  BY <1>1 DEF After
<1>4. UNCHANGED <<Content, Previous>>
  BY <1>1, <1>2, <1>3, ImagesSame
<1> QED BY <1>1, <1>4, QuietStep DEF Journaling

LEMMA SyncSimulated ==
  ASSUME Inv, Inv', NEW c \in Conns, step[c] \in {"spill", "counted"}, SyncRecords(c)
  PROVE  Simulated
<1>1. /\ UNCHANGED <<db, journal, counted, cache>> /\ journalDisk' = {journal}
      /\ eState' = [eState EXCEPT ![c] = "WRITER_DBMOD"]
  BY DEF SyncRecords, cacheVars
<1>2. Journaling(c) /\ counted = DOMAIN journal
  BY DEF Inv, StateInv, Place, Playing, Journaling, Modified, WriterInv
<1>3. /\ \A p \in Pages : Committed(p)' = Committed(p)
      /\ \A r \in journalDisk' : \A p \in Pages : After(r, p)' = Committed(p)
  BY <1>1, <1>2 DEF Committed, After
<1>4. /\ eState[c] # "OPEN" /\ eState'[c] = "WRITER_DBMOD"
      /\ \A d \in Conns \ {c} : eState'[d] = eState[d]
  BY <1>1, <1>2 DEF Inv, Types, Journaling, Modified
<1>5. \A d \in Conns : Journaling(d)' <=> Journaling(d)
  BY <1>2, <1>4 DEF Journaling, Modified
<1>6. \A d \in Conns : eState'[d] = "OPEN" <=> eState[d] = "OPEN"
  BY <1>4
<1> QED BY <1>1, <1>3, <1>5, <1>6, SettleStep

LEMMA WriteOutSimulated ==
  ASSUME Inv, Inv', NEW c \in Conns, NEW p \in Pages, WriteOut(c, p), ImagesKept PROVE Simulated
<1>1. UNCHANGED <<Content, Previous>>
  BY KeptSame
<1> QED BY <1>1, QuietStep DEF WriteOut, journalVars, Journaling

LEMMA SpillSimulated ==
  ASSUME Inv, Inv', NEW c \in Conns, Spill(c) PROVE Simulated
<1>1. CASE dirty[c] \subseteq counted /\ \E p \in dirty[c] : WriteOut(c, p)
  <2>1. PICK p \in dirty[c] : WriteOut(c, p)
    BY <1>1
  <2>2. p \in Pages /\ p \in counted
    BY <1>1 DEF Inv, Types
  <2>3. step[c] = "none" /\ Journaling(c) /\ UNCHANGED <<stmtVars, crashes>>
    BY DEF Spill, Runs
  <2>4. eState[c] = "WRITER_DBMOD"
    BY <2>2, <2>3 DEF Inv, WriterInv, StateInv, Place, Journaling, Modified, Playing
  <2>5. ImagesKept
    BY <2>1, <2>2, <2>3, <2>4, WriteOutStep
  <2> QED BY <2>1, <2>2, <2>5, WriteOutSimulated
<1>2. CASE ~(dirty[c] \subseteq counted /\ \E p \in dirty[c] : WriteOut(c, p))
  <2>1. /\ IF lock'[c] = "EXCLUSIVE"
           THEN CountRecords(c) /\ GoTo(c, "spill")
           ELSE UNCHANGED <<fileVars, step>>
        /\ UNCHANGED <<eState, cacheVars>>
    BY <1>2 DEF Spill
  <2>2. CASE lock'[c] = "EXCLUSIVE"
    BY <2>1, <2>2, CountSimulated DEF cacheVars
  <2>3. CASE lock'[c] # "EXCLUSIVE"
    BY <2>1, <2>3, FrameStep DEF cacheVars, fileVars, journalVars
  <2> QED BY <2>2, <2>3
<1> QED BY <1>1, <1>2

LEMMA StatementSimulated ==
  ASSUME Inv, Inv', NEW c \in Conns, Statement(c) PROVE Simulated
<1>1. CASE Begin(c) \/ Step(c, "read") \/ Step(c, "write")
  BY <1>1, FrameStep DEF Begin, Step, pagerVars, fileVars, journalVars, cacheVars
<1>2. CASE BeginTrans(c)
  BY <1>2, BeginTransSimulated
<1>3. CASE Busy(c)
  <2>1. UNCHANGED <<fileVars, cacheVars>> /\ (eState' = eState \/ PagerUnlock(c))
    BY <1>3 DEF Busy
  <2>2. CASE PagerUnlock(c)
    BY <2>1, <2>2, UnlockSimulated
  <2>3. CASE eState' = eState
    BY <2>1, <2>3, FrameStep DEF fileVars, journalVars, cacheVars
  <2> QED BY <2>1, <2>2, <2>3
<1>4. CASE \E p \in Pages : Read(c, p)
  BY <1>4, ReadSimulated
<1>5. CASE \E p \in Pages \ {1} : Write(c, p)
  BY <1>5, WriteSimulated
<1>6. CASE Spill(c)
  BY <1>6, SpillSimulated
<1>7. CASE SpillSync(c)
  BY <1>7, SyncSimulated DEF SpillSync
<1>8. CASE HaltOk(c)
  <2>1. UNCHANGED <<fileVars, cacheVars>> /\ (eState' = eState \/ PagerUnlock(c))
    BY <1>8 DEF HaltOk
  <2>2. CASE PagerUnlock(c)
    BY <2>1, <2>2, UnlockSimulated
  <2>3. CASE eState' = eState
    BY <2>1, <2>3, FrameStep DEF fileVars, journalVars, cacheVars
  <2> QED BY <2>1, <2>2, <2>3
<1>9. CASE HaltAbort(c)
  <2>1. CASE autoCommit[c]
    BY <1>9, <2>1, RollbackAllSimulated DEF HaltAbort
  <2>2. CASE ~autoCommit[c] /\ ~Journaling(c)
    BY <1>9, <2>2, FrameStep DEF HaltAbort, pagerVars, fileVars, journalVars, cacheVars
  <2>3. CASE ~autoCommit[c] /\ Journaling(c)
    <3>1. ImagesKept /\ eState' = eState /\ \A d \in Conns \ {c} : ~Journaling(d)
      BY <1>9, <2>3, StatementUndone
    <3>2. eState[c] # "OPEN"
      BY <2>3 DEF Journaling, Modified
    <3> QED BY <3>1, <3>2, KeptSame, ChangeStep
  <2> QED BY <2>1, <2>2, <2>3
<1>10. CASE HaltSpecial(c)
  BY <1>10, RollbackAllSimulated DEF HaltSpecial
<1> QED BY <1>1, <1>2, <1>3, <1>4, <1>5, <1>6, <1>7, <1>8, <1>9, <1>10 DEF Statement

\* The journal is deleted: the transaction is committed.
LEMMA CommitEndSimulated ==
  ASSUME Inv, Inv', NEW c \in Conns, CommitEnd(c) PROVE Simulated
<1>1. /\ step[c] = "commit" /\ journal' = << >> /\ counted' = {}
      /\ journalDisk' = journalDisk \cup {<< >>} /\ PagerUnlock(c) /\ db' = db
  BY DEF CommitEnd, DeleteJournal
<1>2. eState[c] = "WRITER_FINISHED" /\ lock[c] = "EXCLUSIVE" /\ Journaling(c)
  BY <1>1 DEF Inv, StateInv, Place, Playing, Journaling, Modified
<1>3. \A d \in Conns \ {c} : eState[d] = "OPEN"
  BY <1>2, AloneWith DEF Inv, LockInv
<1>4. \A d \in Conns : eState'[d] = "OPEN"
  BY <1>1, <1>3 DEF PagerUnlock, Inv, Types
<1>5. /\ dirty[c] = {} /\ counted = DOMAIN journal /\ 1 \in DOMAIN journal
      /\ DOMAIN journal \subseteq DOMAIN cache[c]
      /\ cache[c][1] = Committed(1) + 1 /\ \A p \in DOMAIN journal : cache[c][p] = db[p]
  BY <1>1, <1>2 DEF Inv, WriterInv, Playing
<1>6. \A p \in Pages : Committed(p)' = db[p]
  BY <1>1 DEF Committed
<1>7. /\ Content \in [Pages -> Nat] /\ \A p \in Pages : Content[p] = Committed(p)
      /\ Content' \in [Pages -> Nat] /\ \A p \in Pages : Content'[p] = db[p]
  BY <1>6, ContentPage, ContentPageNext
<1>8. IsImage(journal) /\ IsImage(cache[c])
  BY DEF Inv, Types
<1>9. DOMAIN Written(c) = DOMAIN journal /\ \A p \in DOMAIN journal : Written(c)[p] = db[p]
  BY <1>2, <1>5, <1>8, RestrictImage DEF Written
<1>10. Content' = [p \in Pages |-> IF p \in DOMAIN Changes[c] THEN Changes[c][p] ELSE Content[p]]
  <2>1. \A p \in Pages : Content'[p] = IF p \in DOMAIN Written(c) THEN Written(c)[p] ELSE Content[p]
    BY <1>5, <1>7, <1>9 DEF Committed
  <2> QED BY <1>7, <2>1 DEF Changes
<1>11. Previous' = Content
  <2>1. /\ \A r \in journalDisk : \A p \in Pages : After(r, p)' = Committed(p)
        /\ \A p \in Pages : After(<< >>, p)' = db[p]
    BY <1>1, <1>2, EmptyImage DEF Inv, DiskInv, Modified, After
  <2>2. db[1] # Committed(1)
    <3>1. Committed(1) \in Nat
      BY <1>7, FirstPage
    <3> QED BY <1>5, <3>1
  <2>3. PICK r \in journalDisk' : /\ \A p \in Pages : Previous'[p] = After(r, p)'
                                  /\ ~\A p \in Pages : After(r, p)' = Committed(p)'
    <3>1. PICK r \in journalDisk : TRUE
      BY DEF Inv, JournalInv
    <3>2. r \in journalDisk' /\ After(r, 1)' # Committed(1)'
      BY <1>1, <1>6, <2>1, <2>2, <3>1, FirstPage
    <3>3. ~\A s \in journalDisk' : \A p \in Pages : After(s, p)' = Committed(p)'
      BY <3>2, FirstPage
    <3>4. \E s \in journalDisk' : /\ \A p \in Pages : Previous'[p] = After(s, p)'
                                  /\ ~\A p \in Pages : After(s, p)' = Committed(p)'
      BY <3>3, PreviousIsNext
    <3> QED BY <3>4
  <2>4. Previous' \in [Pages -> Nat]
    BY PreviousIsNext
  <2>5. r \in journalDisk
    BY <1>1, <1>6, <2>1, <2>3
  <2>6. \A p \in Pages : Previous'[p] = Content[p]
    BY <1>7, <2>1, <2>3, <2>5
  <2> QED BY <1>7, <2>4, <2>6
<1>12. Changes' = [d \in Conns |-> << >>]
  BY <1>4 DEF Changes, Written, Journaling, Modified
<1>13. Active = {c} /\ Active' = {}
  BY <1>2, <1>3, <1>4 DEF Active
<1> QED BY <1>10, <1>11, <1>12, <1>13, AbstractCommit DEF Simulated

\* The journal that was played back is deleted: it gave the committed content,
\* and so does the file.
LEMMA PlayEndImages ==
  ASSUME Inv, Inv', NEW c \in Conns, PlayEnd(c)
  PROVE  UNCHANGED <<Content, Previous>>
<1>1. /\ Playing(c) /\ journal' = << >> /\ counted' = {}
      /\ journalDisk' = journalDisk \cup {<< >>} /\ db' = db
  BY DEF PlayEnd, DeleteJournal, Playing
<1>2. \A p \in Pages : db[p] = Committed(p)
  BY DEF PlayEnd, Playing, Inv, PlayInv
<1>3. \A p \in Pages : Committed(p)' = Committed(p)
  BY <1>1, <1>2 DEF Committed
<1>4. \A r \in journalDisk : \A p \in Pages : After(r, p)' = After(r, p)
  BY <1>1 DEF After
<1>5. \A p \in Pages : After(<< >>, p)' = Committed(p)
  BY <1>1, <1>2, EmptyImage DEF After
<1> QED BY <1>1, <1>3, <1>4, <1>5, ImagesSame

LEMMA PlaybackSimulated ==
  ASSUME Inv, Inv', NEW c \in Conns, Playback(c) PROVE Simulated
<1>1. UNCHANGED <<stmtVars, crashes>>
  BY DEF Playback
<1>2. CASE \E p \in todo[c] : PlayPage(c, p)
  <2>1. PICK p \in todo[c] : PlayPage(c, p)
    BY <1>2
  <2>2. ImagesKept
    BY <1>1, <2>1, PlayPageStep
  <2>3. UNCHANGED <<Content, Previous>>
    BY <2>2, KeptSame
  <2>4. UNCHANGED <<journal, eState, cache>>
    BY <2>1 DEF PlayPage, journalVars, cacheVars
  <2> QED BY <2>3, <2>4, QuietStep DEF Journaling
<1>3. CASE PlaySync(c)
  <2>1. UNCHANGED <<db, journal, counted, journalDisk, cache, eState>>
    BY <1>3 DEF PlaySync, SyncFile, journalVars, cacheVars
  <2> QED BY <2>1, FrameStep
<1>4. CASE eState[c] = "OPEN" /\ PlayEnd(c)
  <2>1. Playing(c) /\ UNCHANGED <<eState, cache>>
    BY <1>4 DEF PlayEnd, Playing, cacheVars
  <2>2. \A d \in Conns : ~Journaling(d)
    BY <1>4, <2>1, PlayAlone DEF Journaling, Modified
  <2>3. \A d \in Conns : ~Journaling(d)'
    BY <2>1, <2>2 DEF Journaling
  <2>4. UNCHANGED <<Content, Previous>>
    BY <1>4, PlayEndImages
  <2> QED BY <2>1, <2>2, <2>3, <2>4, QuietStep
<1> QED BY <1>2, <1>3, <1>4 DEF Playback

LEMMA RollbackEndSimulated ==
  ASSUME Inv, Inv', NEW c \in Conns, RollbackEnd(c) PROVE Simulated
<1>1. PlayEnd(c) /\ eState[c] # "OPEN"
  BY DEF RollbackEnd
<1>2. Playing(c) /\ PagerUnlock(c)
  BY <1>1 DEF PlayEnd, Playing
<1>3. UNCHANGED <<Content, Previous>>
  BY <1>1, PlayEndImages
<1>4. eState'[c] = "OPEN" /\ \A d \in Conns \ {c} : eState'[d] = eState[d]
  BY <1>2 DEF PagerUnlock, Inv, Types
<1>5. \A d \in Conns \ {c} : ~Journaling(d)
  BY <1>2, PlayAlone
<1> QED BY <1>3, <1>4, <1>5, LeaveStep

LEMMA CommitStartSimulated ==
  ASSUME Inv, Inv', NEW c \in Conns, CommitStart(c) PROVE Simulated
<1>1. CASE ~Journaling(c)
  BY <1>1, UnlockSimulated DEF CommitStart
<1>2. CASE Journaling(c)
  <2>1. Committing(c) /\ step[c] = "none" /\ Writing(c)
    BY DEF CommitStart, Inv, StateInv
  <2>2. eState[c] \in {"WRITER_LOCKED", "WRITER_CACHEMOD", "WRITER_DBMOD"}
    BY <2>1 DEF Writing, Inv, StateInv, Place, Playing
  <2>3. PICK v \in Nat : v = cache[c][1] + 1 /\ PagerWrite(c, 1, v)
    <3>1. cache[c][1] \in Nat
      BY <2>2 DEF Inv, CacheInv, Types, IsImage
    <3> QED BY <1>2, <3>1 DEF CommitStart
  <2> QED BY <2>1, <2>2, <2>3, FirstPage, PagerWriteSimulated
<1> QED BY <1>1, <1>2

LEMMA CommitWriteSimulated ==
  ASSUME Inv, Inv', NEW c \in Conns, NEW p \in Pages, CommitWrite(c, p) PROVE Simulated
<1>1. step[c] = "write" /\ WriteOut(c, p) /\ UNCHANGED <<stmtVars, crashes>>
  BY DEF CommitWrite
<1>2. eState[c] = "WRITER_DBMOD"
  BY <1>1 DEF Inv, StateInv, Place, Playing
<1>3. ImagesKept
  BY <1>1, <1>2, WriteOutStep
<1> QED BY <1>1, <1>3, WriteOutSimulated

LEMMA CommitFinishSimulated ==
  ASSUME Inv, Inv', NEW c \in Conns, CommitFinish(c) PROVE Simulated
<1>1. /\ UNCHANGED <<db, journal, counted, journalDisk, cache>> /\ step[c] = "write"
      /\ eState' = [eState EXCEPT ![c] = "WRITER_FINISHED"]
  BY DEF CommitFinish, SyncFile, journalVars, cacheVars
<1>2. eState[c] = "WRITER_DBMOD"
  BY <1>1 DEF Inv, StateInv, Place, Playing
<1>3. eState'[c] = "WRITER_FINISHED" /\ \A d \in Conns \ {c} : eState'[d] = eState[d]
  BY <1>1 DEF Inv, Types
<1>4. UNCHANGED <<Content, Previous>>
  BY <1>1, FilesSame
<1>5. \A d \in Conns : Journaling(d)' <=> Journaling(d)
  BY <1>2, <1>3 DEF Journaling, Modified
<1>6. \A d \in Conns : eState'[d] = "OPEN" <=> eState[d] = "OPEN"
  BY <1>2, <1>3
<1> QED BY <1>1, <1>4, <1>5, <1>6, QuietStep

LEMMA EndSimulated == ASSUME Inv, Inv', NEW c \in Conns, End(c) PROVE Simulated
<1>1. CASE Commit(c)
  <2>1. UNCHANGED <<fileVars, cacheVars>> /\ (eState' = eState \/ PagerUnlock(c))
    BY <1>1 DEF Commit
  <2>2. CASE PagerUnlock(c)
    BY <2>1, <2>2, UnlockSimulated
  <2>3. CASE eState' = eState
    BY <2>1, <2>3, FrameStep DEF fileVars, journalVars, cacheVars
  <2> QED BY <2>1, <2>2, <2>3
<1>2. CASE CommitBusy(c)
  <2>1. CASE stmt[c] = "COMMIT"
    BY <1>2, <2>1, FrameStep DEF CommitBusy, fileVars, journalVars, cacheVars
  <2>2. CASE stmt[c] # "COMMIT"
    BY <1>2, <2>2, RollbackAllSimulated DEF CommitBusy
  <2> QED BY <2>1, <2>2
<1>3. CASE CommitStart(c)
  BY <1>3, CommitStartSimulated
<1>4. CASE CommitCount(c)
  BY <1>4, CountSimulated DEF CommitCount, cacheVars
<1>5. CASE CommitSync(c)
  BY <1>5, SyncSimulated DEF CommitSync
<1>6. CASE \E p \in Pages : CommitWrite(c, p)
  BY <1>6, CommitWriteSimulated
<1>7. CASE CommitFinish(c)
  BY <1>7, CommitFinishSimulated
<1>8. CASE CommitEnd(c)
  BY <1>8, CommitEndSimulated
<1>9. CASE CommitFails(c)
  BY <1>9, RollbackAllSimulated, ErrorSimulated DEF CommitFails
<1>10. CASE Rollback(c)
  BY <1>10, RollbackAllSimulated DEF Rollback
<1>11. CASE Playback(c)
  BY <1>11, PlaybackSimulated
<1>12. CASE RollbackEnd(c)
  BY <1>12, RollbackEndSimulated
<1>13. CASE PlaybackFails(c)
  BY <1>13, ErrorSimulated DEF PlaybackFails
<1> QED BY <1>1, <1>2, <1>3, <1>4, <1>5, <1>6, <1>7, <1>8, <1>9, <1>10, <1>11, <1>12, <1>13 DEF End

LEMMA CrashSimulated == ASSUME Inv, Inv', Crash PROVE Simulated
<1>1. UNCHANGED <<Content, Previous>>
  BY FilesSame DEF Crash, fileVars, journalVars
<1>2. \A d \in Conns : eState'[d] = "OPEN"
  BY RestartEffect DEF Crash
<1>3. Changes' = [d \in Conns |-> << >>] /\ Active' = {}
  BY <1>2 DEF Changes, Written, Journaling, Modified, Active
<1> QED BY <1>1, <1>3, AbstractCrash DEF Simulated

LEMMA PowerLossSimulated == ASSUME Inv, Inv', PowerLoss PROVE Simulated
<1>1. PICK f \in Disks, r \in journalDisk :
        db' = f /\ journal' = r /\ counted' = DOMAIN r /\ journalDisk' = {r}
  BY DEF PowerLoss
<1>2. IsImage(r) /\ f \in [Pages -> Nat]
  BY DEF Inv, Types, Disks
<1>3. Content' = Recovered(r, f)
  <2>1. /\ Content' \in [Pages -> Nat] /\ \A p \in Pages : Content'[p] = Committed(p)'
    BY ContentPageNext
  <2>2. /\ Recovered(r, f) \in [Pages -> Nat]
        /\ \A p \in Pages : Recovered(r, f)[p] = IF p \in DOMAIN r THEN r[p] ELSE f[p]
    BY <1>2, RecoveredPage
  <2>3. \A p \in Pages : Committed(p)' = IF p \in DOMAIN r THEN r[p] ELSE f[p]
    BY <1>1 DEF Committed
  <2> QED BY <2>1, <2>2, <2>3
<1>4. Content' \in {Content, Previous}
  BY <1>3, PowerLossAtomic DEF PowerLossIsAtomic
<1>5. Previous' = Content'
  <2>1. \A p \in Pages : After(r, p)' = Committed(p)'
    BY <1>1 DEF After, Committed
  <2> QED BY <1>1, <2>1, PreviousIsNext
<1>6. \A d \in Conns : eState'[d] = "OPEN"
  BY RestartEffect DEF PowerLoss
<1>7. Changes' = [d \in Conns |-> << >>] /\ Active' = {}
  BY <1>6 DEF Changes, Written, Journaling, Modified, Active
<1> QED BY <1>4, <1>5, <1>7, AbstractPowerLoss DEF Simulated

-----------------------------------------------------------------------------
(* The theorem. *)

LEMMA InitRefined == Init => Abstract!Init
<1> SUFFICES ASSUME Init PROVE Abstract!Init
  OBVIOUS
<1>1. Inv /\ db = [p \in Pages |-> 0] /\ counted = {} /\ journalDisk = {<< >>}
      /\ \A c \in Conns : eState[c] = "OPEN"
  BY InitInv DEF Init, PagerInit
<1>2. Content = [p \in Pages |-> 0]
  BY <1>1, ContentPage DEF Committed
<1>3. Previous = Content
  <2>1. \A p \in Pages : After(<< >>, p) = Committed(p)
    BY <1>1, EmptyImage DEF After, Committed
  <2> QED BY <1>1, <2>1, PreviousIs
<1>4. Changes = [c \in Conns |-> << >>] /\ Active = {}
  BY <1>1 DEF Changes, Written, Journaling, Modified, Active
<1> QED BY <1>2, <1>3, <1>4, AbstractInit

LEMMA StepRefined == Inv /\ Inv' /\ [Next]_vars => [Abstract!Next]_(Abstract!vars)
<1> SUFFICES ASSUME Inv, Inv', [Next]_vars PROVE Simulated
  BY DEF Simulated
<1>1. CASE UNCHANGED vars
  BY <1>1, FrameStep DEF vars, pagerVars, fileVars, journalVars, cacheVars
<1>2. CASE \E c \in Conns : Statement(c)
  BY <1>2, StatementSimulated
<1>3. CASE \E c \in Conns : End(c)
  BY <1>3, EndSimulated
<1>4. CASE Crash
  BY <1>4, CrashSimulated
<1>5. CASE PowerLoss
  BY <1>5, PowerLossSimulated
<1> QED BY <1>1, <1>2, <1>3, <1>4, <1>5 DEF Next

\* Transactions are atomic and isolated, whatever the other connections do, and
\* wherever a statement, the disk, the process or the power fails: what the file
\* holds once a hot journal is played back changes with the deletion of the
\* journal alone (sqlite3PagerCommitPhaseTwo), by all that its writer has written,
\* with no other connection using the database.
THEOREM ImplementsAtomic == Spec => ImplementsAtomicDatabase
<1>1. Spec => []Inv
  BY Invariance
<1>2. Spec => Init /\ [][Next]_vars
  BY PTL DEF Spec
<1> QED BY <1>1, <1>2, InitRefined, StepRefined, PTL DEF ImplementsAtomicDatabase, Abstract!Spec

=============================================================================
