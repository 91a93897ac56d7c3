--------------------------- MODULE SqliteRefinement ---------------------------
(***************************************************************************)
(* SqliteConnection implements AtomicDatabase: the content of the database *)
(* is what the file holds once a hot journal is played back.               *)
(***************************************************************************)
EXTENDS SqliteConnection

\* What a loss of power would make of the database with one of the journals it
\* may leave, if that is something else.
Previous ==
  IF \E r \in journalDisk : Recovered(r, db) # Content
  THEN CHOOSE f \in {Recovered(r, db) : r \in journalDisk} : f # Content
  ELSE Content

Abstract ==
  INSTANCE AtomicDatabase
    WITH content <- Content, previous <- Previous,
         changes <- [c \in Conns |-> Written(c)],
         active <- {c \in Conns : eState[c] # "OPEN"}

\* The transactions of all connections are atomic and isolated, with locks that
\* are not given, failing statements, disk errors, crashes and losses of power.
ImplementsAtomicDatabase == Abstract!Spec

\* Whatever subset of the unsynced writes, and whichever of the journals, a loss
\* of power leaves: what is recovered is the committed content, or that before
\* the latest commit, whose journal's deletion was not synced.
PowerLossIsAtomic ==
  \A f \in Disks, r \in journalDisk : Recovered(r, f) \in {Content, Previous}

\* What a connection has in its cache, and has not written itself, is committed,
\* and stays so for as long as it has a lock: the cache that is kept while it has
\* none is dropped when the change counter has moved.
CacheIsCurrent ==
  \A c \in Conns : eState[c] # "OPEN" =>
    \A p \in DOMAIN cache[c] \ DOMAIN Written(c) : cache[c][p] = Content[p]

\* The content of some of the pages.
IsImage(f) == DOMAIN f \subseteq Pages /\ f \in [DOMAIN f -> Nat]

\* The type of every variable.
Types ==
  /\ db \in [Pages -> Nat] /\ disk \in [Pages -> SUBSET Nat]
  /\ IsImage(journal) /\ counted \in SUBSET Pages
  /\ \A r \in journalDisk : IsImage(r)
  /\ lock \in [Conns -> Locks] /\ eState \in [Conns -> States]
  /\ DOMAIN cache = Conns /\ DOMAIN saved = Conns
  /\ \A c \in Conns : IsImage(cache[c]) /\ IsImage(saved[c])
  /\ dirty \in [Conns -> SUBSET Pages] /\ todo \in [Conns -> SUBSET Pages]
  /\ dbFileVers \in [Conns -> Nat] /\ txn \in [Conns -> Nat]
  /\ step \in [Conns -> Steps] /\ stmt \in [Conns -> Statements]
  /\ autoCommit \in [Conns -> BOOLEAN]
  /\ transactions \in Nat /\ crashes \in Nat

\* The types, and that a connection that has a journal has the original of each
\* page it has changed in it, and the page in its cache.
TypeOK ==
  /\ Types
  /\ \A c \in Conns : Journaling(c) =>
       /\ DOMAIN journal \subseteq DOMAIN cache[c]
       /\ counted \cup dirty[c] \subseteq DOMAIN journal

=============================================================================
