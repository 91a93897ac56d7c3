------------------------- MODULE SerialTransactions -------------------------
(***************************************************************************)
(* What the plugin promises about the transactions of one database: they   *)
(* run one at a time in the order they were asked for; the writes of an    *)
(* atomic one become durable together, at its commit, or not at all; and   *)
(* the application is told the outcome after it is settled, once.  Only an *)
(* atomic one that is undone may end in silence.                           *)
(***************************************************************************)
EXTENDS Sequences, Functions

CONSTANT Tx   \* transactions

VARIABLES
  waiting,    \* the transactions asked for and not started, in order
  current,    \* the transaction being run: a set of at most one
  atomic,     \* which transactions are atomic
  stage,      \* of the current one: "running", "committed" or "undone"
  work,       \* transactions with writes that are not durable yet
  store,      \* transactions with durable writes
  told        \* what the application was told about each transaction

vars == <<waiting, current, atomic, stage, work, store, told>>

Outcome == {"success", "error"}

Init ==
  /\ waiting = << >> /\ current = {} /\ stage = "running"
  /\ atomic = [t \in Tx |-> FALSE]
  /\ work = {} /\ store = {}
  /\ told = [t \in Tx |-> << >>]

Tell(t, o) == told' = [told EXCEPT ![t] = <<o>>]

\* The application asks for a transaction, or is refused.
Submit(t) ==
  /\ t \notin Range(waiting) \cup current /\ told[t] = << >>
  /\ \E a \in BOOLEAN : atomic' = [atomic EXCEPT ![t] = a]
  /\ \/ waiting' = Append(waiting, t) /\ UNCHANGED told
     \/ Tell(t, "error") /\ UNCHANGED waiting
  /\ UNCHANGED <<current, stage, work, store>>

\* The first one waiting is started, when no other is running.
Start ==
  /\ current = {} /\ waiting # << >>
  /\ waiting' = Tail(waiting)
  /\ \/ current' = {Head(waiting)} /\ stage' = "running" /\ UNCHANGED told
     \/ Tell(Head(waiting), "error") /\ UNCHANGED <<current, stage>>
  /\ UNCHANGED <<atomic, work, store>>

\* All the waiting ones are given up.
Drop ==
  /\ current = {}
  /\ waiting' = << >>
  /\ \E silent \in SUBSET Range(waiting) :
       told' = [t \in Tx |-> IF t \in Range(waiting) \ silent THEN <<"error">> ELSE told[t]]
  /\ UNCHANGED <<current, atomic, stage, work, store>>

\* Only the current one writes; what it writes is durable at once unless it is
\* atomic.
Write(t) ==
  /\ t \in current /\ stage = "running"
  /\ IF atomic[t]
     THEN work' = work \cup {t} /\ UNCHANGED store
     ELSE store' = store \cup {t} /\ UNCHANGED work
  /\ UNCHANGED <<waiting, current, atomic, stage, told>>

Commit(t) ==
  /\ t \in current /\ atomic[t] /\ stage = "running"
  /\ stage' = "committed"
  /\ store' = store \cup work /\ work' = {}
  /\ UNCHANGED <<waiting, current, atomic, told>>

Undo(t) ==
  /\ t \in current /\ atomic[t] /\ stage = "running"
  /\ stage' = "undone"
  /\ work' = {}
  /\ UNCHANGED <<waiting, current, atomic, store, told>>

\* The outcome told to the application is what became of the writes.
Settle(t, o) ==
  /\ t \in current
  /\ atomic[t] => stage = (IF o = "success" THEN "committed" ELSE "undone")
  /\ current' = {} /\ stage' = "running"
  /\ \/ Tell(t, o)
     \/ atomic[t] /\ o = "error" /\ UNCHANGED told
  /\ UNCHANGED <<waiting, atomic, work, store>>

Next ==
  \/ Start \/ Drop
  \/ \E t \in Tx : \/ Submit(t) \/ Write(t) \/ Commit(t) \/ Undo(t)
                   \/ \E o \in Outcome : Settle(t, o)

Spec == Init /\ [][Next]_vars

=============================================================================
