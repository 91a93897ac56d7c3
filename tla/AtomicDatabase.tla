---------------------------- MODULE AtomicDatabase ----------------------------
(***************************************************************************)
(* What SQLite promises of a database file (src/common/sqlite3.c): the     *)
(* changes of a transaction reach it all at once, or not at all, with no   *)
(* other transaction using the database, and whatever crashes.             *)
(*                                                                         *)
(* A loss of power may take the latest committed transaction back, as a    *)
(* whole: the directory is not synced when its journal is deleted.         *)
(***************************************************************************)
EXTENDS Naturals

CONSTANTS
  Conns,    \* connections
  Pages     \* pages of the database

VARIABLES
  content,   \* what is committed
  previous,  \* what a loss of power may go back to, or content
  changes,   \* of each connection: the pages its transaction has changed
  active     \* the connections that use the database: their snapshot is content

vars == <<content, previous, changes, active>>

Unchanged == [c \in Conns |-> << >>]

Init ==
  /\ content = [p \in Pages |-> 0] /\ previous = content
  /\ changes = Unchanged /\ active = {}

Enter(c) ==
  /\ c \notin active /\ active' = active \cup {c}
  /\ UNCHANGED <<content, previous, changes>>

\* One transaction at a time has changes.
Change(c) ==
  /\ c \in active
  /\ \A d \in Conns \ {c} : changes[d] = << >> /\ changes'[d] = << >>
  /\ UNCHANGED <<content, previous, active>>

Commit(c) ==
  /\ active = {c}
  /\ previous' = content
  /\ content' = [p \in Pages |->
                    IF p \in DOMAIN changes[c] THEN changes[c][p] ELSE content[p]]
  /\ changes' = Unchanged /\ active' = {}

\* A rollback, or the end of a transaction without changes.
Leave(c) ==
  /\ c \in active /\ active' = active \ {c}
  /\ changes' = [changes EXCEPT ![c] = << >>]
  /\ UNCHANGED <<content, previous>>

\* The latest commit has become durable.
Settle ==
  /\ previous' = content
  /\ UNCHANGED <<content, changes, active>>

Crash ==
  /\ changes' = Unchanged /\ active' = {}
  /\ UNCHANGED <<content, previous>>

PowerLoss ==
  /\ content' \in {content, previous} /\ previous' = content'
  /\ changes' = Unchanged /\ active' = {}

Next ==
  \/ \E c \in Conns : Enter(c) \/ Change(c) \/ Commit(c) \/ Leave(c)
  \/ Settle \/ Crash \/ PowerLoss

Spec == Init /\ [][Next]_vars

=============================================================================
