-------------------------- MODULE DatabaseRequests --------------------------
(***************************************************************************)
(* What the transaction engine relies on of the native side of one         *)
(* database: opening and closing take effect at one moment between the     *)
(* request and its answer, a batch is executed whole on a connected        *)
(* database, what is refused is refused because the database is not        *)
(* connected, and each request is answered at most once.                   *)
(***************************************************************************)
EXTENDS Sequences

CONSTANT Requests

VARIABLES
  asked,      \* what each request asks for, "none" before it is made
  served,     \* open, close and delete requests that have taken effect
  told,       \* answers given to each request
  connected   \* the database is connected

vars == <<asked, served, told, connected>>

Init ==
  /\ asked = [r \in Requests |-> "none"]
  /\ served = {}
  /\ told = [r \in Requests |-> << >>]
  /\ connected = FALSE

TakeEffect(r, k) ==
  /\ k \in {"open", "close", "delete"}
  /\ served' = served \cup {r}
  /\ connected' = (k = "open")

\* A request is made; it may take effect at once.
Ask(r) ==
  /\ asked[r] = "none"
  /\ \E k \in {"open", "close", "delete", "batch"} :
       /\ asked' = [asked EXCEPT ![r] = k]
       /\ TakeEffect(r, k) \/ UNCHANGED <<served, connected>>
  /\ UNCHANGED told

\* ... or later.
Serve(r) ==
  /\ r \notin served /\ told[r] = << >>
  /\ TakeEffect(r, asked[r])
  /\ UNCHANGED <<asked, told>>

Tell(r, answer) ==
  /\ told[r] = << >>
  /\ told' = [told EXCEPT ![r] = <<answer>>]

\* A request that has taken effect is answered: only the file of a delete may
\* still be there.
Confirm(r) ==
  /\ r \in served
  /\ Tell(r, "success") \/ (asked[r] = "delete" /\ Tell(r, "error"))
  /\ UNCHANGED <<asked, served, connected>>

Execute(r) ==
  /\ asked[r] = "batch" /\ connected
  /\ Tell(r, "success")
  /\ UNCHANGED <<asked, served, connected>>

Refuse(r) ==
  /\ asked[r] \in {"open", "batch"} /\ r \notin served /\ ~connected
  /\ Tell(r, "error")
  /\ UNCHANGED <<asked, served, connected>>

Next == \E r \in Requests : Ask(r) \/ Serve(r) \/ Confirm(r) \/ Execute(r) \/ Refuse(r)

Spec == Init /\ [][Next]_vars

=============================================================================
