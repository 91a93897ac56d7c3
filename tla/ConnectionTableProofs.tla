----------------------- MODULE ConnectionTableProofs -----------------------
(***************************************************************************)
(* Proofs about ConnectionTable, for any databases and any numbers of      *)
(* calls, transactions and reloads.                                        *)
(***************************************************************************)
EXTENDS ConnectionTable, FiniteSetTheorems, SequenceTheorems, WellFoundedInduction, TLAPS

-----------------------------------------------------------------------------
(* The largest element of a bounded set of numbers. *)

LEMMA NatMin ==
  ASSUME NEW T, T \subseteq Nat, T # {}
  PROVE  \E x \in T : \A y \in T : x <= y
<1>1. PICK x \in T : \A y \in T : ~ (<<y, x>> \in OpToRel(<,Nat))
  BY NatLessThanWellFounded, WFMin
<1>2. \A y \in T : ~(y < x)
  BY <1>1 DEF OpToRel
<1> QED BY <1>2

LEMMA NatMax ==
  ASSUME NEW T, T \subseteq Nat, T # {}, NEW n \in Nat, \A x \in T : x <= n
  PROVE  Max(T) \in T /\ \A y \in T : y <= Max(T)
<1> DEFINE B == {b \in Nat : \A x \in T : x <= b}
<1>1. PICK b \in B : \A c \in B : b <= c
  BY NatMin
<1>2. b \in T
  <2>1. SUFFICES ASSUME b \notin T PROVE FALSE
    OBVIOUS
  <2>2. PICK y \in T : TRUE
    OBVIOUS
  <2>3. y \in Nat /\ y <= b /\ y # b /\ b \in Nat
    BY <2>1
  <2>4. b - 1 \in Nat
    BY <2>3
  <2>5. \A x \in T : x <= b - 1
    <3> TAKE x \in T
    <3>1. x \in Nat /\ x <= b /\ x # b
      BY <2>1
    <3> QED BY <3>1, <2>3
  <2>6. b - 1 \in B
    BY <2>4, <2>5
  <2>7. b <= b - 1
    BY <1>1, <2>6
  <2> QED BY <2>3, <2>7
<1>3. \A x \in T : b >= x
  BY <1>1
<1>4. \E x \in T : \A y \in T : x >= y
  BY <1>2, <1>3
<1>5. Max(T) \in T /\ \A y \in T : Max(T) >= y
  BY <1>4 DEF Max
<1> QED BY <1>5

-----------------------------------------------------------------------------
(* Types. *)

TaskRecords ==
  [ id : Nat \ {0}, kind : {"open", "close", "delete", "batch"}, db : Databases,
    page : Nat \ {0},
    pc : {"lookup", "connect", "set", "close", "delete", "remove", "statement",
          "done", "lost"},
    conn : Nat, tx : Nat, sqls : Seq(Sqls), error : BOOLEAN ]

Transactions ==
  [ db : Databases, page : Nat \ {0}, locked : BOOLEAN, writes : {1, 2},
    phase : {"running", "finishing", "aborting"},
    outcome : {"none", "success", "error"} ]

Connections ==
  [ db : Databases, file : Nat \ {0}, open : BOOLEAN, begun : Nat,
    writes : SUBSET (Nat \X Nat) ]

Types ==
  /\ platform \in Platforms
  /\ page \in Nat \ {0}
  /\ handle \in [Databases -> {Closed, "init", "open"}]
  /\ asked \subseteq Databases /\ overlap \subseteq Databases /\ misused \subseteq Databases
  /\ current \in [Databases -> Nat]
  /\ transactions \in Seq(Transactions)
  /\ tasks \subseteq TaskRecords
  /\ table \in [Databases -> Nat]
  /\ path \in [Databases -> Nat]
  /\ connections \in Seq(Connections)
  /\ files \in Seq(SUBSET (Nat \X Nat))

\* What is named exists.
Names ==
  /\ \A d \in Databases :
       /\ current[d] <= Len(transactions)
       /\ table[d] <= Len(connections)
       /\ path[d] <= Len(files)
  /\ \A t \in tasks :
       t.page <= page /\ t.conn <= Len(connections) /\ t.tx <= Len(transactions)
  /\ \A c \in 1 .. Len(connections) :
       /\ connections[c].file <= Len(files)
       /\ connections[c].begun <= Len(transactions)

\* The statements of a batch, by how far its transaction is.
Script(t) ==
  LET x == transactions[t.tx]
  IN  \/ /\ t.sqls = <<"BEGIN", "WRITE">>
         /\ x.locked /\ x.phase = "running" /\ x.writes = 1 /\ ~t.error
      \/ t.sqls = <<"WRITE">> /\ x.phase = "running"
      \/ t.sqls = <<"COMMIT">> /\ x.locked /\ x.phase = "finishing" /\ ~t.error
      \/ t.sqls = <<"ROLLBACK">> /\ x.locked /\ x.phase = "aborting" /\ ~t.error

\* A task is at a step of its kind; a batch is that of a transaction in progress.
TaskKinds ==
  \A t \in tasks :
    /\ t.kind = "open" => t.pc \in {"lookup", "connect", "set", "done"}
    /\ t.kind = "close" => t.pc \in {"close", "remove", "done"}
    /\ t.kind = "delete" => t.pc \in {"delete", "remove", "done"}
    /\ t.kind = "batch" =>
         /\ t.pc \in {"statement", "done", "lost"}
         /\ t.tx \in TransactionIds
         /\ t.db = transactions[t.tx].db
         /\ t.page = transactions[t.tx].page
         /\ transactions[t.tx].outcome = "none"
         /\ t.pc = "statement" => Script(t)

\* The calls of a page for a database are made one at a time; of two pages, the
\* later one's call is the later task; done tasks wait for the page to be told.
TaskOrder ==
  /\ \E n \in Nat : \A t \in tasks : t.id <= n
  /\ \A t, u \in tasks : t.db = u.db /\ t.page = u.page => t = u
  /\ \A t, u \in tasks : t.db = u.db /\ t.page < u.page => t.id < u.id
  /\ \A t \in tasks : Running(t) \/ t.page = page

\* Who is inside @synchronized is a batch with statements to come.
MonitorHeld ==
  monitor # NoTask => \E t \in tasks : t.id = monitor /\ t.pc = "statement"

\* What the page knows of its databases agrees with its tasks and transactions.
PageView ==
  /\ \A d \in Databases :
       /\ handle[d] = "open" => d \notin asked
       /\ current[d] # 0 =>
            /\ handle[d] = "open"
            /\ transactions[current[d]].db = d
            /\ transactions[current[d]].page = page
            /\ transactions[current[d]].outcome = "none"
  /\ \A t \in tasks : t.page = page =>
       IF t.kind = "batch" THEN current[t.db] = t.tx ELSE t.db \in asked
  /\ \A i \in TransactionIds :
       LET x == transactions[i]
       IN  /\ x.page <= page
           /\ ~x.locked => x.phase = "running" /\ x.writes = 1
           /\ x.page = page /\ x.outcome = "none" => current[x.db] = i

\* A write is counted by its transaction, the one a batch has still to make is not.
PendingWrite(t) ==
  t.pc = "statement" /\ t.sqls \in {<<"BEGIN", "WRITE">>, <<"WRITE">>}

Counted(w) ==
  /\ w[1] \in TransactionIds
  /\ w[2] \in 1 .. transactions[w[1]].writes
  /\ \A t \in tasks : PendingWrite(t) /\ t.tx = w[1] =>
       w[2] < transactions[t.tx].writes

WritesCounted ==
  /\ \A f \in 1 .. Len(files) : \A w \in files[f] : Counted(w)
  /\ \A c \in 1 .. Len(connections) : \A w \in connections[c].writes : Counted(w)

CoreInv ==
  Types /\ Names /\ TaskKinds /\ TaskOrder /\ MonitorHeld /\ PageView /\ WritesCounted

\* The types of what is looked up.
LEMMA ConnectionType ==
  ASSUME CoreInv, NEW c \in 1 .. Len(connections)
  PROVE  /\ connections[c] \in Connections
         /\ connections[c].file \in 1 .. Len(files)
         /\ connections[c].db \in Databases
         /\ connections[c].begun \in 0 .. Len(transactions)
         /\ connections[c].writes \subseteq Nat \X Nat
<1>1. connections \in Seq(Connections) /\ files \in Seq(SUBSET (Nat \X Nat))
      /\ transactions \in Seq(Transactions)
  BY DEF CoreInv, Types
<1>2. connections[c].file <= Len(files) /\ connections[c].begun <= Len(transactions)
  BY DEF CoreInv, Names
<1>3. connections[c] \in Connections
  BY <1>1
<1>4. /\ connections[c].file \in Nat \ {0} /\ connections[c].db \in Databases
      /\ connections[c].begun \in Nat /\ connections[c].writes \subseteq Nat \X Nat
  BY <1>3 DEF Connections
<1>5. Len(files) \in Nat /\ Len(transactions) \in Nat
  BY <1>1
<1> QED BY <1>2, <1>3, <1>4, <1>5

LEMMA TransactionType ==
  ASSUME CoreInv, NEW i \in TransactionIds
  PROVE  /\ transactions[i] \in Transactions /\ transactions[i].db \in Databases
         /\ transactions[i].page \in Nat \ {0} /\ transactions[i].page <= page
         /\ transactions[i].writes \in {1, 2} /\ transactions[i].locked \in BOOLEAN
         /\ i \in Nat \ {0} /\ i <= Len(transactions)
<1>1. transactions \in Seq(Transactions) /\ i \in 1 .. Len(transactions)
  BY DEF CoreInv, Types, TransactionIds
<1>2. transactions[i] \in Transactions
  BY <1>1
<1>3. transactions[i].page <= page
  BY DEF CoreInv, PageView
<1> QED BY <1>1, <1>2, <1>3 DEF Transactions

LEMMA TaskType ==
  ASSUME CoreInv, NEW t \in tasks
  PROVE  /\ t \in TaskRecords /\ t.id \in Nat \ {0} /\ t.db \in Databases
         /\ t.page \in Nat \ {0} /\ t.page <= page /\ page \in Nat \ {0}
         /\ t.conn \in 0 .. Len(connections) /\ t.tx \in 0 .. Len(transactions)
         /\ t.error \in BOOLEAN /\ t.sqls \in Seq(Sqls)
         /\ t.pc = "statement" => t.kind = "batch"
         /\ t.kind = "batch" => t.tx \in TransactionIds
<1>1. t \in TaskRecords /\ page \in Nat \ {0}
  BY DEF CoreInv, Types
<1>2. t.page <= page /\ t.conn <= Len(connections) /\ t.tx <= Len(transactions)
  BY DEF CoreInv, Names
<1>3. Len(connections) \in Nat /\ Len(transactions) \in Nat
  BY DEF CoreInv, Types
<1>4. t.kind \in {"open", "close", "delete", "batch"}
  BY <1>1 DEF TaskRecords
<1>5. /\ t.pc = "statement" => t.kind = "batch"
      /\ t.kind = "batch" => t.tx \in TransactionIds
  BY <1>4 DEF CoreInv, TaskKinds
<1> QED BY <1>1, <1>2, <1>3, <1>5 DEF TaskRecords

LEMMA DatabaseType ==
  ASSUME CoreInv, NEW d \in Databases
  PROVE  /\ table[d] \in 0 .. Len(connections) /\ path[d] \in 0 .. Len(files)
         /\ current[d] \in 0 .. Len(transactions)
         /\ Len(connections) \in Nat /\ Len(files) \in Nat /\ Len(transactions) \in Nat
<1>1. table[d] \in Nat /\ path[d] \in Nat /\ current[d] \in Nat
      /\ Len(connections) \in Nat /\ Len(files) \in Nat /\ Len(transactions) \in Nat
  BY DEF CoreInv, Types
<1>2. table[d] <= Len(connections) /\ path[d] <= Len(files) /\ current[d] <= Len(transactions)
  BY DEF CoreInv, Names
<1> QED BY <1>1, <1>2

-----------------------------------------------------------------------------
(* The steps, by what they do to the tasks. *)

LEMMA ScriptTypes ==
  <<"BEGIN", "WRITE">> \in Seq(Sqls) /\ \A sql \in Sqls : <<sql>> \in Seq(Sqls)
<1>1. "BEGIN" \in Sqls /\ "WRITE" \in Sqls
  BY DEF Sqls
<1> HIDE DEF Sqls
<1> QED BY <1>1

LEMMA ScriptFacts ==
  ASSUME NEW t, Script(t)
  PROVE  /\ t.sqls # <<>>
         /\ t.sqls = <<"BEGIN", "WRITE">> =>
              Len(t.sqls) = 2 /\ Head(t.sqls) = "BEGIN" /\ Tail(t.sqls) = <<"WRITE">>
         /\ \A sql \in Sqls : t.sqls = <<sql>> =>
              Len(t.sqls) = 1 /\ Head(t.sqls) = sql /\ Tail(t.sqls) = <<>>
         /\ t.sqls = <<"BEGIN", "WRITE">> \/ Len(t.sqls) = 1
<1>1. \/ t.sqls = <<"BEGIN", "WRITE">> \/ t.sqls = <<"WRITE">>
      \/ t.sqls = <<"COMMIT">> \/ t.sqls = <<"ROLLBACK">>
  BY DEF Script
<1>2. ASSUME NEW s, s = <<"BEGIN", "WRITE">>
      PROVE  Len(s) = 2 /\ Head(s) = "BEGIN" /\ Tail(s) = <<"WRITE">>
  BY <1>2
<1>3. ASSUME NEW s, NEW sql, s = <<sql>>
      PROVE  Len(s) = 1 /\ Head(s) = sql /\ Tail(s) = <<>>
  BY <1>3
<1>4. t.sqls = <<"BEGIN", "WRITE">> => t.sqls # <<>>
  OBVIOUS
<1>5. ASSUME NEW s, NEW sql, s = <<sql>> PROVE s # <<>>
  BY <1>5
<1>6. t.sqls # <<>>
  BY <1>1, <1>4, <1>5
<1>7. t.sqls = <<"BEGIN", "WRITE">> =>
        Len(t.sqls) = 2 /\ Head(t.sqls) = "BEGIN" /\ Tail(t.sqls) = <<"WRITE">>
  BY <1>2
<1>8. ASSUME NEW sql \in Sqls, t.sqls = <<sql>>
      PROVE  Len(t.sqls) = 1 /\ Head(t.sqls) = sql /\ Tail(t.sqls) = <<>>
  BY <1>8, <1>3
<1>9. t.sqls = <<"BEGIN", "WRITE">> \/ Len(t.sqls) = 1
  BY <1>1, <1>3
<1> QED BY <1>6, <1>7, <1>8, <1>9

LEMMA NewTask ==
  ASSUME CoreInv, NEW kind \in {"open", "close", "delete", "batch"}, NEW d \in Databases,
         NEW pc \in {"lookup", "close", "delete", "statement", "done"}
  PROVE  /\ Task(kind, d, pc) \in TaskRecords
         /\ Task(kind, d, pc).id = TaskId
         /\ \A t \in tasks : t.id < TaskId
<1> DEFINE ids == {t.id : t \in tasks} T == {0} \cup ids
<1>1. ids \subseteq Nat
  BY DEF CoreInv, Types, TaskRecords
<1>2. PICK n \in Nat : \A t \in tasks : t.id <= n
  BY DEF CoreInv, TaskOrder
<1>3. T \subseteq Nat /\ T # {} /\ \A x \in T : x <= n
  BY <1>1, <1>2
<1>4. Max(T) \in T /\ \A y \in T : y <= Max(T)
  <2> HIDE DEF T
  <2> QED BY <1>3, NatMax
<1>5. Max(T) \in Nat /\ TaskId = 1 + Max(T)
  BY <1>3, <1>4 DEF TaskId
<1>6. \A t \in tasks : t.id \in T
  OBVIOUS
<1>7. \A t \in tasks : t.id < TaskId
  <2> HIDE DEF T
  <2> TAKE t \in tasks
  <2>1. t.id \in Nat /\ t.id <= Max(T)
    BY <1>3, <1>4, <1>6
  <2> QED BY <2>1, <1>5
<1>8. TaskId \in Nat \ {0}
  <2> HIDE DEF T
  <2> QED BY <1>5
<1>9. <<>> \in Seq(Sqls)
  OBVIOUS
<1> QED BY <1>7, <1>8, <1>9 DEF Task, TaskRecords, CoreInv, Types

\* An open, close or delete call: of a page that waits for no answer.
Calls(d) ==
  /\ d \notin asked /\ current[d] = 0
  /\ NoteOverlap(d)
  /\ UNCHANGED <<platform, page, current, transactions, table, monitor, crashed,
                 sqliteVars, misused>>
  /\ handle' \in [Databases -> {Closed, "init", "open"}]
  /\ handle'[d] # "open" /\ \A e \in Databases : e # d => handle'[e] = handle[e]
  /\ \/ UNCHANGED <<asked, tasks>>
     \/ /\ asked' = asked \cup {d}
        /\ \E v \in TaskRecords :
             /\ tasks' = tasks \cup {v}
             /\ \A t \in tasks : t.id < v.id
             /\ v.db = d /\ v.page = page /\ v.conn = 0 /\ v.tx = 0
             /\ \/ v.kind = "open" /\ v.pc = "lookup"
                \/ v.kind = "open" /\ v.pc = "done" /\ platform = "android" /\ table[d] # 0
                \/ v.kind = "close" /\ v.pc = "close"
                \/ v.kind = "delete" /\ v.pc = "delete"

LEMMA CallEffect ==
  ASSUME CoreInv, NEW d \in Databases, Open(d) \/ Close(d) \/ Delete(d)
  PROVE  Calls(d)
<1>1. CASE Open(d)
  <2> DEFINE v == Task("open", d, IF platform = "android" /\ ObjectForKey(d) # 0
                                  THEN "done" ELSE "lookup")
  <2>1. v \in TaskRecords /\ \A t \in tasks : t.id < v.id
    BY NewTask
  <2>2. v.db = d /\ v.page = page /\ v.conn = 0 /\ v.tx = 0 /\ v.kind = "open"
    BY DEF Task
  <2>3. v.pc = IF platform = "android" /\ table[d] # 0 THEN "done" ELSE "lookup"
    BY DEF Task, ObjectForKey
  <2>4. tasks' = tasks \cup {v}
    BY <1>1 DEF Open
  <2>5. current[d] = 0
    BY <1>1 DEF Open, CoreInv, PageView, Closed
  <2> HIDE DEF v
  <2>6. handle' \in [Databases -> {Closed, "init", "open"}] /\ handle'[d] # "open"
    BY <1>1 DEF Open, CoreInv, Types, Closed
  <2>7. \A e \in Databases : e # d => handle'[e] = handle[e]
    BY <1>1 DEF Open, CoreInv, Types
  <2> QED BY <1>1, <2>1, <2>2, <2>3, <2>4, <2>5, <2>6, <2>7 DEF Open, MakeCall, Calls
<1>2. ASSUME NEW kind \in {"close", "delete"}, Forget(d, kind) PROVE Calls(d)
  <2> DEFINE v == Task(kind, d, kind)
  <2>1. v \in TaskRecords /\ \A t \in tasks : t.id < v.id
    BY NewTask
  <2>2. v.db = d /\ v.page = page /\ v.conn = 0 /\ v.tx = 0 /\ v.kind = kind /\ v.pc = kind
    BY DEF Task
  <2>3. \/ UNCHANGED <<asked, tasks>>
        \/ asked' = asked \cup {d} /\ tasks' = tasks \cup {v}
    BY <1>2 DEF Forget
  <2>5. current[d] = 0 /\ MakeCall(d)
    BY <1>2 DEF Forget
  <2> HIDE DEF v
  <2>6. handle' \in [Databases -> {Closed, "init", "open"}] /\ handle'[d] # "open"
    BY <1>2 DEF Forget, CoreInv, Types, Closed
  <2>7. \A e \in Databases : e # d => handle'[e] = handle[e]
    BY <1>2 DEF Forget, CoreInv, Types
  <2> QED BY <2>1, <2>2, <2>3, <2>5, <2>6, <2>7 DEF MakeCall, Calls
<1> QED BY <1>1, <1>2 DEF Close, Delete

\* A new transaction, and its first batch.
Transacts(d) ==
  LET i == Len(transactions) + 1
  IN  /\ handle[d] = "open" /\ current[d] = 0
      /\ current' = [current EXCEPT ![d] = i]
      /\ NoteOverlap(d)
      /\ UNCHANGED <<platform, page, handle, asked, table, monitor, crashed,
                     sqliteVars, misused>>
      /\ \E x \in Transactions :
           /\ transactions' = Append(transactions, x)
           /\ x.db = d /\ x.page = page /\ x.writes = 1
           /\ x.phase = "running" /\ x.outcome = "none"
           /\ \E v \in TaskRecords :
                /\ tasks' = tasks \cup {v}
                /\ \A t \in tasks : t.id < v.id
                /\ v.db = d /\ v.page = page /\ v.conn = 0 /\ v.tx = i
                /\ v.kind = "batch" /\ v.pc = "statement" /\ ~v.error
                /\ v.sqls = IF x.locked THEN <<"BEGIN", "WRITE">> ELSE <<"WRITE">>

LEMMA TransactEffect ==
  ASSUME CoreInv, NEW d \in Databases, NEW locked \in BOOLEAN, Transact(d, locked)
  PROVE  Transacts(d)
<1> DEFINE i == Len(transactions) + 1
           x == [ db |-> d, page |-> page, locked |-> locked, writes |-> 1,
                  phase |-> "running", outcome |-> "none" ]
           s == IF locked THEN <<"BEGIN", "WRITE">> ELSE <<"WRITE">>
           w == Task("batch", d, "statement")
           v == [w EXCEPT !.tx = i, !.sqls = s]
<1>1. x \in Transactions
  BY DEF Transactions, CoreInv, Types
<1>2. transactions' = Append(transactions, x)
  BY DEF Transact
<1>3. Len(transactions) \in Nat /\ transactions'[i] = x
  <2> HIDE DEF x
  <2> QED BY <1>1, <1>2 DEF CoreInv, Types
<1>4. transactions'[i].db = d
  BY <1>3
<1>5. tasks' = tasks \cup {v}
  BY <1>4 DEF Transact, Batch
<1>6. w \in TaskRecords /\ \A t \in tasks : t.id < w.id
  BY NewTask
<1>7. s \in Seq(Sqls)
  BY ScriptTypes
<1>8. v \in TaskRecords /\ v.id = w.id /\ v.db = w.db /\ v.page = w.page /\ v.conn = w.conn
      /\ v.tx = i /\ v.kind = w.kind /\ v.pc = w.pc /\ v.error = w.error /\ v.sqls = s
  <2> HIDE DEF w, s
  <2>1. i \in Nat
    BY <1>3
  <2>2. v = [w EXCEPT !.tx = i, !.sqls = s]
    OBVIOUS
  <2> HIDE DEF i, v
  <2> QED BY <1>6, <1>7, <2>1, <2>2 DEF TaskRecords
<1>9. w.db = d /\ w.page = page /\ w.conn = 0 /\ w.kind = "batch" /\ w.pc = "statement"
      /\ w.error = FALSE
  BY DEF Task
<1>10. x.db = d /\ x.page = page /\ x.writes = 1 /\ x.phase = "running"
       /\ x.outcome = "none" /\ x.locked = locked
  OBVIOUS
<1>11. v.sqls = IF x.locked THEN <<"BEGIN", "WRITE">> ELSE <<"WRITE">>
  BY <1>8, <1>10
<1> HIDE DEF v, w, x, s
<1>12. \A t \in tasks : t.id < v.id
  BY <1>6, <1>8
<1> QED BY <1>1, <1>2, <1>5, <1>8, <1>9, <1>10, <1>11, <1>12 DEF Transact, Transacts

\* The answer to a batch: the transaction goes on with another one.
Proceeds(t) ==
  LET x == transactions[t.tx]
  IN  /\ x.locked /\ x.phase = "running"
      /\ UNCHANGED current
      /\ \E y \in Transactions :
           /\ transactions' = [transactions EXCEPT ![t.tx] = y]
           /\ y.db = x.db /\ y.page = x.page /\ y.locked /\ y.outcome = x.outcome
           /\ \E v \in TaskRecords :
                /\ tasks' = (tasks \ {t}) \cup {v}
                /\ \A u \in tasks : u.id < v.id
                /\ v.db = t.db /\ v.page = page /\ v.conn = 0 /\ v.tx = t.tx
                /\ v.kind = "batch" /\ v.pc = "statement" /\ ~v.error
                /\ \/ /\ t.error /\ y.phase = "aborting" /\ y.writes = x.writes
                      /\ v.sqls = <<"ROLLBACK">>
                   \/ /\ ~t.error /\ y.phase = "running" /\ x.writes = 1 /\ y.writes = 2
                      /\ v.sqls = <<"WRITE">>
                   \/ /\ ~t.error /\ y.phase = "finishing" /\ y.writes = x.writes
                      /\ v.sqls = <<"COMMIT">>

\* The answer to a batch: the transaction has ended.
Reports(t) ==
  LET x == transactions[t.tx]
  IN  /\ tasks' = tasks \ {t}
      /\ current' = [current EXCEPT ![t.db] = 0]
      /\ \E y \in Transactions :
           /\ transactions' = [transactions EXCEPT ![t.tx] = y]
           /\ y.db = x.db /\ y.page = x.page /\ y.locked = x.locked
           /\ y.writes = x.writes /\ y.phase = x.phase
           /\ \/ /\ ~x.locked \/ x.phase = "finishing"
                 /\ y.outcome = IF t.error THEN "error" ELSE "success"
              \/ x.phase = "aborting" /\ y.outcome = "error"

LEMMA AnswerEffect ==
  ASSUME CoreInv, NEW t \in tasks, Answer(t), t.kind = "batch"
  PROVE  /\ Proceeds(t) \/ Reports(t)
         /\ t.pc = "done"
         /\ UNCHANGED <<platform, page, handle, asked, calls, table, monitor, crashed,
                        sqliteVars, history>>
<1> DEFINE x == transactions[t.tx]
<1>1. t \in TaskRecords /\ t.tx \in 1 .. Len(transactions) /\ t.db \in Databases
  BY DEF CoreInv, Types, TaskKinds, TransactionIds, TaskRecords
<1>2. x \in Transactions
  BY <1>1 DEF CoreInv, Types
<1>3. ASSUME NEW y \in Transactions, NEW s \in Seq(Sqls), Proceed(t, y, s)
      PROVE  /\ transactions' = [transactions EXCEPT ![t.tx] = y]
             /\ UNCHANGED current
             /\ \E v \in TaskRecords :
                  /\ tasks' = (tasks \ {t}) \cup {v}
                  /\ \A u \in tasks : u.id < v.id
                  /\ v.db = t.db /\ v.page = page /\ v.conn = 0 /\ v.tx = t.tx
                  /\ v.kind = "batch" /\ v.pc = "statement" /\ ~v.error /\ v.sqls = s
  <2> DEFINE w == Task("batch", t.db, "statement")
             v == [w EXCEPT !.tx = t.tx, !.sqls = s]
  <2>1. tasks' = (tasks \ {t}) \cup {v}
    BY <1>3 DEF Proceed
  <2>2. w \in TaskRecords /\ \A u \in tasks : u.id < w.id
    BY NewTask, <1>1
  <2>3. w.db = t.db /\ w.page = page /\ w.conn = 0 /\ w.kind = "batch"
        /\ w.pc = "statement" /\ w.error = FALSE
    BY DEF Task
  <2>4. v = [w EXCEPT !.tx = t.tx, !.sqls = s] /\ t.tx \in Nat
    BY <1>1 DEF TaskRecords
  <2> HIDE DEF w, v
  <2>5. v \in TaskRecords /\ v.id = w.id /\ v.db = w.db /\ v.page = w.page
        /\ v.conn = w.conn /\ v.tx = t.tx /\ v.kind = w.kind /\ v.pc = w.pc
        /\ v.error = w.error /\ v.sqls = s
    BY <2>2, <2>4 DEF TaskRecords
  <2>6. \A u \in tasks : u.id < v.id
    BY <2>2, <2>5
  <2> QED BY <1>3, <2>1, <2>3, <2>5, <2>6 DEF Proceed
<1>4. ASSUME NEW r \in {"success", "error"}, Report(t, r)
      PROVE  /\ tasks' = tasks \ {t}
             /\ current' = [current EXCEPT ![t.db] = 0]
             /\ \E y \in Transactions :
                  /\ transactions' = [transactions EXCEPT ![t.tx] = y]
                  /\ y.db = x.db /\ y.page = x.page /\ y.locked = x.locked
                  /\ y.writes = x.writes /\ y.phase = x.phase /\ y.outcome = r
  <2> DEFINE y == [x EXCEPT !.outcome = r]
  <2>1. transactions' = [transactions EXCEPT ![t.tx] = y]
    BY <1>4, <1>1, <1>2 DEF Report, CoreInv, Types
  <2>2. y \in Transactions /\ y.db = x.db /\ y.page = x.page /\ y.locked = x.locked
        /\ y.writes = x.writes /\ y.phase = x.phase /\ y.outcome = r
    <3> HIDE DEF x
    <3> QED BY <1>2 DEF Transactions
  <2> QED BY <1>4, <2>1, <2>2 DEF Report
<1>5. ASSUME NEW p \in {"aborting", "finishing"}
      PROVE  LET y == [x EXCEPT !.phase = p]
             IN  /\ y \in Transactions /\ y.db = x.db /\ y.page = x.page
                 /\ y.locked = x.locked /\ y.outcome = x.outcome
                 /\ y.writes = x.writes /\ y.phase = p
  <2> HIDE DEF x
  <2> QED BY <1>2 DEF Transactions
<1>6. LET y == [x EXCEPT !.writes = 2]
      IN  /\ y \in Transactions /\ y.db = x.db /\ y.page = x.page
          /\ y.locked = x.locked /\ y.outcome = x.outcome
          /\ y.writes = 2 /\ y.phase = x.phase
  <2> HIDE DEF x
  <2> QED BY <1>2 DEF Transactions
<1>7. BatchAnswer(t)
  BY DEF Answer
<1>8. CASE x.locked /\ x.phase = "running" /\ t.error
           /\ Proceed(t, [x EXCEPT !.phase = "aborting"], <<"ROLLBACK">>)
  <2> DEFINE y == [x EXCEPT !.phase = "aborting"]
  <2>1. y \in Transactions /\ y.db = x.db /\ y.page = x.page /\ y.locked = x.locked
        /\ y.outcome = x.outcome /\ y.writes = x.writes /\ y.phase = "aborting"
    BY <1>5
  <2>2. Proceed(t, y, <<"ROLLBACK">>) /\ <<"ROLLBACK">> \in Seq(Sqls)
    BY <1>8, ScriptTypes DEF Sqls
  <2> HIDE DEF y
  <2>3. Proceeds(t)
    BY <1>3, <1>8, <2>1, <2>2 DEF Proceeds
  <2> QED BY <2>3 DEF Answer
<1>9. CASE x.locked /\ x.phase = "running" /\ ~t.error /\ x.writes = 1
           /\ Proceed(t, [x EXCEPT !.writes = 2], <<"WRITE">>)
  <2> DEFINE y == [x EXCEPT !.writes = 2]
  <2>1. y \in Transactions /\ y.db = x.db /\ y.page = x.page /\ y.locked = x.locked
        /\ y.outcome = x.outcome /\ y.writes = 2 /\ y.phase = "running"
    BY <1>6, <1>9
  <2>2. Proceed(t, y, <<"WRITE">>) /\ <<"WRITE">> \in Seq(Sqls)
    BY <1>9, ScriptTypes DEF Sqls
  <2> HIDE DEF y
  <2>3. Proceeds(t)
    BY <1>3, <1>9, <2>1, <2>2 DEF Proceeds
  <2> QED BY <2>3 DEF Answer
<1>10. CASE x.locked /\ x.phase = "running" /\ ~t.error
            /\ Proceed(t, [x EXCEPT !.phase = "finishing"], <<"COMMIT">>)
  <2> DEFINE y == [x EXCEPT !.phase = "finishing"]
  <2>1. y \in Transactions /\ y.db = x.db /\ y.page = x.page /\ y.locked = x.locked
        /\ y.outcome = x.outcome /\ y.writes = x.writes /\ y.phase = "finishing"
    BY <1>5
  <2>2. Proceed(t, y, <<"COMMIT">>) /\ <<"COMMIT">> \in Seq(Sqls)
    BY <1>10, ScriptTypes DEF Sqls
  <2> HIDE DEF y
  <2>3. Proceeds(t)
    BY <1>3, <1>10, <2>1, <2>2 DEF Proceeds
  <2> QED BY <2>3 DEF Answer
<1>11. CASE (~x.locked \/ x.phase = "finishing")
            /\ Report(t, IF t.error THEN "error" ELSE "success")
  <2>1. Reports(t)
    BY <1>4, <1>11 DEF Reports
  <2> QED BY <2>1 DEF Answer
<1>12. CASE x.phase = "aborting" /\ Report(t, "error")
  <2>1. Reports(t)
    BY <1>4, <1>12 DEF Reports
  <2> QED BY <2>1 DEF Answer
<1> QED BY <1>7, <1>8, <1>9, <1>10, <1>11, <1>12 DEF BatchAnswer

\* A task goes on: u is what it becomes.
Moves(t, u) ==
  /\ u \in TaskRecords /\ Become(t, u)
  /\ u.id = t.id /\ u.kind = t.kind /\ u.db = t.db /\ u.page = t.page /\ u.tx = t.tx
  /\ u.conn = IF t.pc = "connect" THEN Len(connections) + 1 ELSE t.conn
  /\ \/ t.pc = "lookup" /\ u.pc = IF table[t.db] # 0 THEN "done" ELSE "connect"
     \/ t.pc = "connect" /\ u.pc = "set"
     \/ t.pc = "set" /\ u.pc = "done"
     \/ t.pc = "close" /\ u.pc = IF table[t.db] # 0 THEN "remove" ELSE "done"
     \/ /\ t.pc = "delete"
        /\ u.pc = IF path[t.db] # 0 \/ platform = "android" THEN "remove" ELSE "done"
     \/ t.pc = "remove" /\ u.pc = "done"
     \/ t.pc = "statement" /\ u.pc = "lost"
     \/ /\ t.pc = "statement" /\ t.sqls # <<>>
        /\ u.pc = IF Len(t.sqls) = 1 THEN "done" ELSE "statement"
        /\ u.sqls = Tail(t.sqls) /\ (t.error => u.error)

LEMMA LeaveEffect ==
  ASSUME CoreInv, NEW t \in tasks, t.pc = "statement", NEW e \in BOOLEAN, Leave(t, e)
  PROVE  \E u : /\ Moves(t, u)
                /\ u.pc = IF Len(t.sqls) = 1 THEN "done" ELSE "statement"
                /\ u.sqls = Tail(t.sqls) /\ u.error = (t.error \/ e)
                /\ monitor' = IF u.pc = "done" \/ platform = "android" THEN NoTask ELSE t.id
<1> DEFINE last == Len(t.sqls) = 1
           u == [t EXCEPT !.sqls = Tail(@), !.error = @ \/ e,
                          !.pc = IF last THEN "done" ELSE "statement"]
<1>1. t \in TaskRecords
  BY DEF CoreInv, Types
<1>2. t.kind = "batch"
  BY <1>1 DEF CoreInv, TaskKinds, TaskRecords
<1>3. t.sqls # <<>>
  BY <1>2, ScriptFacts DEF CoreInv, TaskKinds
<1>4. Tail(t.sqls) \in Seq(Sqls)
  BY <1>1, <1>3 DEF TaskRecords
<1>5. u = [t EXCEPT !.sqls = Tail(t.sqls), !.error = t.error \/ e,
                    !.pc = IF last THEN "done" ELSE "statement"]
  BY <1>1 DEF TaskRecords
<1>6. last \in BOOLEAN /\ (t.error \/ e) \in BOOLEAN
  BY <1>1 DEF TaskRecords
<1>7. Become(t, u) /\ monitor' = IF last \/ platform = "android" THEN NoTask ELSE t.id
  BY DEF Leave
<1> HIDE DEF u, last
<1>8. /\ u \in TaskRecords /\ u.id = t.id /\ u.kind = t.kind /\ u.db = t.db
      /\ u.page = t.page /\ u.tx = t.tx /\ u.conn = t.conn
      /\ u.pc = IF last THEN "done" ELSE "statement"
      /\ u.sqls = Tail(t.sqls) /\ u.error = (t.error \/ e)
  BY <1>1, <1>4, <1>5, <1>6 DEF TaskRecords
<1>9. (u.pc = "done") <=> last
  BY <1>8
<1>10. Moves(t, u)
  BY <1>3, <1>7, <1>8 DEF Moves, last
<1> QED BY <1>7, <1>8, <1>9, <1>10 DEF last

\* A statement is executed on the connection in the table, or refused.
Executes(t, u) ==
  LET c == table[t.db]
  IN  /\ NativeStep(t) /\ t.pc = "statement"
      /\ c # 0 /\ connections[c].open
      /\ Moves(t, u)
      /\ u.pc = IF Len(t.sqls) = 1 THEN "done" ELSE "statement"
      /\ u.sqls = Tail(t.sqls)
      /\ monitor' = IF u.pc = "done" \/ platform = "android" THEN NoTask ELSE t.id
      /\ \/ Effect(c, t) /\ u.error = t.error
         \/ Refused(c, Head(t.sqls)) /\ u.error = TRUE /\ UNCHANGED <<connections, files>>
         \/ Undone(c, Head(t.sqls)) /\ u.error = TRUE
      /\ UNCHANGED <<table, crashed, path, misused>>

LEMMA ExecuteEffect ==
  ASSUME CoreInv, NEW t \in tasks, ExecuteSql(t)
  PROVE  \E u : Executes(t, u)
<1> DEFINE c == table[t.db]
<1>1. t \in TaskRecords /\ t.pc = "statement" /\ NativeStep(t)
  BY DEF CoreInv, Types, ExecuteSql
<1>2. c # 0 /\ connections[c].open
  BY DEF ExecuteSql, ObjectForKey, IsOpen
<1>3. UNCHANGED <<table, crashed, path, misused>>
  BY DEF ExecuteSql
<1>4. CASE Effect(c, t) /\ Leave(t, FALSE)
  <2>1. PICK u : /\ Moves(t, u)
                 /\ u.pc = IF Len(t.sqls) = 1 THEN "done" ELSE "statement"
                 /\ u.sqls = Tail(t.sqls) /\ u.error = (t.error \/ FALSE)
                 /\ monitor' = IF u.pc = "done" \/ platform = "android" THEN NoTask ELSE t.id
    BY <1>1, <1>4, LeaveEffect
  <2>2. u.error = t.error
    BY <1>1, <2>1 DEF TaskRecords
  <2> QED BY <1>1, <1>2, <1>3, <1>4, <2>1, <2>2 DEF Executes
<1>5. CASE /\ Leave(t, TRUE)
           /\ \/ Refused(c, Head(t.sqls)) /\ UNCHANGED <<connections, files>>
              \/ Undone(c, Head(t.sqls))
  <2>1. PICK u : /\ Moves(t, u)
                 /\ u.pc = IF Len(t.sqls) = 1 THEN "done" ELSE "statement"
                 /\ u.sqls = Tail(t.sqls) /\ u.error = (t.error \/ TRUE)
                 /\ monitor' = IF u.pc = "done" \/ platform = "android" THEN NoTask ELSE t.id
    BY <1>1, <1>5, LeaveEffect
  <2>2. u.error = TRUE
    BY <1>1, <2>1 DEF TaskRecords
  <2> QED BY <1>1, <1>2, <1>3, <1>5, <2>1, <2>2 DEF Executes
<1> QED BY <1>4, <1>5 DEF ExecuteSql, ObjectForKey

LEMMA NativeEffect ==
  ASSUME CoreInv, NEW t \in tasks, Native(t)
  PROVE  NativeStep(t) /\ \E u : Moves(t, u)
<1>1. t \in TaskRecords
  BY DEF CoreInv, Types
<1>2. ASSUME NEW pc \in {"connect", "set", "remove", "done", "lost"},
             Become(t, [t EXCEPT !.pc = pc]), t.pc # "connect",
             \/ t.pc = "lookup" /\ pc = IF table[t.db] # 0 THEN "done" ELSE "connect"
             \/ t.pc = "set" /\ pc = "done"
             \/ t.pc = "close" /\ pc = IF table[t.db] # 0 THEN "remove" ELSE "done"
             \/ /\ t.pc = "delete"
                /\ pc = IF path[t.db] # 0 \/ platform = "android" THEN "remove" ELSE "done"
             \/ t.pc = "remove" /\ pc = "done"
             \/ t.pc = "statement" /\ pc = "lost"
      PROVE  \E u : Moves(t, u)
  <2> DEFINE u == [t EXCEPT !.pc = pc]
  <2>1. /\ u \in TaskRecords /\ u.id = t.id /\ u.kind = t.kind /\ u.db = t.db
        /\ u.page = t.page /\ u.tx = t.tx /\ u.conn = t.conn /\ u.pc = pc
    BY <1>1 DEF TaskRecords
  <2>2. Become(t, u)
    BY <1>2
  <2> HIDE DEF u
  <2>3. Moves(t, u)
    BY <1>2, <2>1, <2>2 DEF Moves
  <2> QED BY <2>3
<1>3. CASE OpenLookup(t)
  <2>1. t.pc = "lookup" /\ NativeStep(t)
        /\ Become(t, [t EXCEPT !.pc = IF table[t.db] # 0 THEN "done" ELSE "connect"])
    BY <1>3 DEF OpenLookup, ObjectForKey
  <2> QED BY <1>2, <2>1
<1>4. CASE OpenConnect(t)
  <2> DEFINE u == [t EXCEPT !.pc = "set", !.conn = Len(connections')]
  <2>1. t.pc = "connect" /\ NativeStep(t) /\ Become(t, u)
    BY <1>4 DEF OpenConnect
  <2>2. Len(connections') = Len(connections) + 1 /\ Len(connections) \in Nat
    <3> DEFINE k == [ db |-> t.db, file |-> IF path[t.db] = 0 THEN Len(files) + 1 ELSE path[t.db],
                      open |-> TRUE, begun |-> 0, writes |-> {} ]
    <3>1. connections' = Append(connections, k)
      BY <1>4 DEF OpenConnect
    <3> HIDE DEF k
    <3> QED BY <3>1 DEF CoreInv, Types
  <2> DEFINE n == Len(connections')
  <2>3. n \in Nat /\ u = [t EXCEPT !.pc = "set", !.conn = n]
    BY <2>2
  <2> HIDE DEF u, n
  <2>4. /\ u \in TaskRecords /\ u.id = t.id /\ u.kind = t.kind /\ u.db = t.db
        /\ u.page = t.page /\ u.tx = t.tx /\ u.conn = n /\ u.pc = "set"
    BY <1>1, <2>2, <2>3 DEF TaskRecords
  <2>5. Moves(t, u)
    BY <2>1, <2>2, <2>4 DEF Moves, n
  <2> QED BY <2>1, <2>5
<1>5. CASE OpenSet(t)
  BY <1>2, <1>5 DEF OpenSet
<1>6. CASE CloseConnection(t)
  <2>1. t.pc = "close" /\ NativeStep(t)
        /\ Become(t, [t EXCEPT !.pc = IF table[t.db] # 0 THEN "remove" ELSE "done"])
    BY <1>6 DEF CloseConnection, ObjectForKey
  <2> QED BY <1>2, <2>1
<1>7. CASE DeleteFile(t)
  <2>1. t.pc = "delete" /\ NativeStep(t)
        /\ Become(t, [t EXCEPT !.pc = IF path[t.db] # 0 \/ platform = "android"
                                      THEN "remove" ELSE "done"])
    BY <1>7 DEF DeleteFile
  <2> QED BY <1>2, <2>1
<1>8. CASE Remove(t)
  BY <1>2, <1>8 DEF Remove
<1>9. CASE ExecuteSql(t)
  BY <1>9, ExecuteEffect DEF Executes
<1>10. CASE ExecuteNowhere(t)
  BY <1>2, <1>10 DEF ExecuteNowhere
<1> QED BY <1>3, <1>4, <1>5, <1>6, <1>7, <1>8, <1>9, <1>10 DEF Native

\* The rest of what a native step does, with sequences as functions.
Connects(t) ==
  \E k \in Connections :
    /\ connections' = Append(connections, k)
    /\ k.db = t.db /\ k.open /\ k.begun = 0 /\ k.writes = {}
    /\ path' = [path EXCEPT ![t.db] = k.file]
    /\ \/ path[t.db] # 0 /\ k.file = path[t.db] /\ files' = files
       \/ path[t.db] = 0 /\ k.file = Len(files) + 1 /\ files' = Append(files, {})

LEMMA ConnectEffect ==
  ASSUME CoreInv, NEW t \in tasks, OpenConnect(t)
  PROVE  Connects(t) /\ UNCHANGED <<table, monitor, crashed, misused>>
<1> DEFINE f == IF path[t.db] = 0 THEN Len(files) + 1 ELSE path[t.db]
           k == [ db |-> t.db, file |-> f, open |-> TRUE, begun |-> 0, writes |-> {} ]
<1>1. t.db \in Databases
  BY DEF CoreInv, Types, TaskRecords
<1>2. Len(files) \in Nat /\ path[t.db] \in Nat /\ path[t.db] <= Len(files)
  BY <1>1 DEF CoreInv, Types, Names
<1>3. f \in Nat \ {0}
  BY <1>2
<1>4. /\ path' = [path EXCEPT ![t.db] = f]
      /\ files' = IF f > Len(files) THEN Append(files, {}) ELSE files
      /\ connections' = Append(connections, k)
      /\ UNCHANGED <<table, monitor, crashed, misused>>
  BY DEF OpenConnect
<1>5. \/ path[t.db] # 0 /\ f = path[t.db] /\ files' = files
      \/ path[t.db] = 0 /\ f = Len(files) + 1 /\ files' = Append(files, {})
  BY <1>2, <1>4
<1> HIDE DEF f
<1>6. /\ k \in Connections /\ k.db = t.db /\ k.open /\ k.begun = 0 /\ k.writes = {}
      /\ k.file = f
  BY <1>1, <1>3 DEF Connections
<1> HIDE DEF k
<1> QED BY <1>4, <1>5, <1>6 DEF Connects

\* A connection is closed.
Disposes(c) ==
  \E k \in Connections :
    /\ connections' = [connections EXCEPT ![c] = k]
    /\ k.db = connections[c].db /\ k.file = connections[c].file
    /\ ~k.open /\ k.begun = 0 /\ k.writes = {}

LEMMA DisposeEffect ==
  ASSUME CoreInv, NEW c \in 1 .. Len(connections),
         connections' = [connections EXCEPT ![c] = Disposed(connections[c])]
  PROVE  Disposes(c)
<1> DEFINE k == Disposed(connections[c])
<1>1. connections[c] \in Connections
  BY DEF CoreInv, Types
<1>2. /\ k \in Connections /\ k.db = connections[c].db /\ k.file = connections[c].file
      /\ k.open = FALSE /\ k.begun = 0 /\ k.writes = {}
  BY <1>1 DEF Disposed, Connections
<1> HIDE DEF k
<1> QED BY <1>2 DEF Disposes, k

\* The write of a statement.
WriteOf(c, t) ==
  <<t.tx, Cardinality({x \in connections[c].writes \cup files[connections[c].file] :
                         x[1] = t.tx}) + 1>>

\* A statement that succeeds changes the connection and the file so.
Effects(c, t) ==
  LET k == connections[c]
      sql == Head(t.sqls)
      w == WriteOf(c, t)
  IN  \E r \in Connections :
        /\ r.db = k.db /\ r.file = k.file /\ r.open = k.open
        /\ connections' = [connections EXCEPT ![c] = r]
        /\ \/ /\ sql = "BEGIN" /\ k.begun = 0
              /\ r.begun = t.tx /\ r.writes = k.writes /\ files' = files
           \/ /\ sql = "WRITE" /\ k.begun # 0
              /\ r.begun = k.begun /\ r.writes = k.writes \cup {w} /\ files' = files
           \/ /\ sql = "WRITE" /\ k.begun = 0
              /\ r = k
              /\ files' = [files EXCEPT ![k.file] = @ \cup {w}]
           \/ /\ sql = "COMMIT" /\ k.begun # 0
              /\ r.begun = 0 /\ r.writes = {}
              /\ files' = [files EXCEPT ![k.file] = @ \cup k.writes]
           \/ /\ sql = "ROLLBACK" /\ k.begun # 0
              /\ r.begun = 0 /\ r.writes = {} /\ files' = files

LEMMA WriteOfType ==
  ASSUME CoreInv, NEW t \in tasks, NEW c \in 1 .. Len(connections)
  PROVE  /\ WriteOf(c, t) \in Nat \X Nat
         /\ PendingWrite(t) /\ t.kind = "batch" =>
              WriteOf(c, t)[2] \in 1 .. transactions[t.tx].writes
<1> DEFINE i == t.tx
           f == connections[c].file
           S == {x \in connections[c].writes \cup files[f] : x[1] = i}
           m == Cardinality(S)
<1>1. i \in Nat /\ f \in 1 .. Len(files)
  BY TaskType, ConnectionType DEF CoreInv, Types
<1>2. files[f] \subseteq Nat \X Nat /\ connections[c].writes \subseteq Nat \X Nat
  <2>1. files \in Seq(SUBSET (Nat \X Nat))
    BY DEF CoreInv, Types
  <2> QED BY <1>1, <2>1, ConnectionType
<1>3. \A x \in S : x \in Nat \X Nat /\ x[1] = i /\ Counted(x)
  BY <1>1, <1>2 DEF CoreInv, WritesCounted
<1>4. \A j \in TransactionIds : transactions[j].writes \in {1, 2}
  BY TransactionType
<1>5. \A x \in S : x \in {<<i, 1>>, <<i, 2>>}
  <2> SUFFICES ASSUME NEW x \in S PROVE x = <<i, 1>> \/ x = <<i, 2>>
    OBVIOUS
  <2> HIDE DEF S
  <2>1. x \in Nat \X Nat /\ x[1] = i /\ x[1] \in TransactionIds
        /\ x[2] \in 1 .. transactions[x[1]].writes
    BY <1>3 DEF Counted
  <2>2. x[2] \in {1, 2} /\ x = <<x[1], x[2]>>
    BY <2>1, <1>4
  <2> QED BY <2>1, <2>2
<1>6. IsFiniteSet(S) /\ m \in Nat
  <2>1. IsFiniteSet({<<i, 1>>} \cup {<<i, 2>>})
    BY FS_Singleton, FS_Union
  <2>2. S \subseteq {<<i, 1>>} \cup {<<i, 2>>}
    BY <1>5
  <2> HIDE DEF S
  <2>3. IsFiniteSet(S)
    BY <2>1, <2>2, FS_Subset
  <2> QED BY <2>3, FS_CardinalityType
<1>7. WriteOf(c, t) = <<i, m + 1>>
  BY DEF WriteOf
<1>8. ASSUME PendingWrite(t), t.kind = "batch" PROVE m + 1 \in 1 .. transactions[i].writes
  <2>1. i \in TransactionIds
    BY <1>8 DEF CoreInv, TaskKinds
  <2>2. \A x \in S : x[2] < transactions[i].writes
    BY <1>3, <1>8 DEF Counted
  <2>3. CASE transactions[i].writes = 1
    <3>1. S = {}
      <4> HIDE DEF S
      <4>1. ASSUME NEW x \in S PROVE FALSE
        <5>1. x[2] < 1 /\ x[2] \in {1, 2}
          BY <2>2, <2>3, <1>5
        <5> QED BY <5>1
      <4> QED BY <4>1
    <3>2. Cardinality(S) = 0
      <4> HIDE DEF S
      <4> QED BY <3>1, FS_EmptySet
    <3> QED BY <3>2, <2>3
  <2>4. CASE transactions[i].writes = 2
    <3>1. S \subseteq {<<i, 1>>}
      <4> HIDE DEF S
      <4>1. ASSUME NEW x \in S PROVE x = <<i, 1>>
        <5>1. x[2] < 2 /\ (x = <<i, 1>> \/ x = <<i, 2>>)
          BY <2>2, <2>4, <1>5
        <5> QED BY <5>1
      <4> QED BY <4>1
    <3>2. IsFiniteSet({<<i, 1>>}) /\ Cardinality({<<i, 1>>}) = 1
      BY FS_Singleton
    <3> HIDE DEF S
    <3>3. Cardinality(S) <= 1
      BY <3>1, <3>2, FS_Subset
    <3> QED BY <3>3, <2>4, <1>6
  <2> QED BY <2>1, <2>3, <2>4, <1>4
<1> HIDE DEF S, m, i
<1>9. WriteOf(c, t) \in Nat \X Nat /\ WriteOf(c, t)[2] = m + 1
  BY <1>1, <1>6, <1>7
<1> QED BY <1>8, <1>9 DEF i

LEMMA EffectEffect ==
  ASSUME CoreInv, NEW t \in tasks, NEW c \in 1 .. Len(connections), Effect(c, t)
  PROVE  Effects(c, t)
<1> DEFINE k == connections[c]
           w == WriteOf(c, t)
<1>1. k \in Connections /\ t.tx \in Nat /\ w \in Nat \X Nat
  BY WriteOfType, ConnectionType, TaskType DEF TaskRecords
<1>2. w = <<t.tx, Cardinality({x \in k.writes \cup files[k.file] : x[1] = t.tx}) + 1>>
  BY DEF WriteOf
<1> HIDE DEF w
<1>3. CASE /\ Head(t.sqls) = "BEGIN" /\ k.begun = 0
           /\ connections' = [connections EXCEPT ![c] = [k EXCEPT !.begun = t.tx]]
           /\ UNCHANGED files
  <2> DEFINE r == [k EXCEPT !.begun = t.tx]
  <2>1. /\ r \in Connections /\ r.db = k.db /\ r.file = k.file /\ r.open = k.open
        /\ r.begun = t.tx /\ r.writes = k.writes
    <3> HIDE DEF k
    <3> QED BY <1>1 DEF Connections
  <2> HIDE DEF r
  <2> QED BY <1>3, <2>1 DEF Effects, r
<1>4. CASE /\ Head(t.sqls) = "WRITE" /\ k.begun # 0
           /\ connections' = [connections EXCEPT ![c] = [k EXCEPT !.writes = @ \cup {w}]]
           /\ UNCHANGED files
  <2> DEFINE r == [k EXCEPT !.writes = @ \cup {w}]
  <2>1. /\ r \in Connections /\ r.db = k.db /\ r.file = k.file /\ r.open = k.open
        /\ r.begun = k.begun /\ r.writes = k.writes \cup {w}
    <3> HIDE DEF k
    <3> QED BY <1>1 DEF Connections
  <2> HIDE DEF r
  <2> QED BY <1>4, <2>1 DEF Effects, r, w
<1>5. CASE /\ Head(t.sqls) = "WRITE" /\ k.begun = 0
           /\ files' = [files EXCEPT ![k.file] = @ \cup {w}]
           /\ UNCHANGED connections
  <2>1. connections' = [connections EXCEPT ![c] = k]
    BY <1>5 DEF CoreInv, Types
  <2> QED BY <1>1, <1>5, <2>1 DEF Effects, w
<1>6. CASE /\ Head(t.sqls) \in {"COMMIT", "ROLLBACK"} /\ k.begun # 0
           /\ connections' = [connections EXCEPT ![c] = [k EXCEPT !.begun = 0, !.writes = {}]]
           /\ IF Head(t.sqls) = "COMMIT"
              THEN files' = [files EXCEPT ![k.file] = @ \cup k.writes]
              ELSE UNCHANGED files
  <2> DEFINE r == [k EXCEPT !.begun = 0, !.writes = {}]
  <2>1. /\ r \in Connections /\ r.db = k.db /\ r.file = k.file /\ r.open = k.open
        /\ r.begun = 0 /\ r.writes = {}
    <3> HIDE DEF k
    <3> QED BY <1>1 DEF Connections
  <2> HIDE DEF r
  <2> QED BY <1>6, <2>1 DEF Effects, r
<1> QED BY <1>2, <1>3, <1>4, <1>5, <1>6 DEF Effect

-----------------------------------------------------------------------------
(* The core invariant is kept. *)

LEMMA OverlapType ==
  ASSUME Types, NEW d \in Databases, NoteOverlap(d)
  PROVE  overlap' \subseteq Databases /\ overlap \subseteq overlap'
  BY DEF Types, NoteOverlap

LEMMA CallCore ==
  ASSUME CoreInv, NEW d \in Databases, Calls(d)
  PROVE  CoreInv'
<1>1. Types /\ Names /\ TaskKinds /\ TaskOrder /\ MonitorHeld /\ PageView /\ WritesCounted
  BY DEF CoreInv
<1>2. CASE UNCHANGED <<asked, tasks>>
  <2>1. Types'
    BY <1>1, <1>2, OverlapType DEF Types, Calls, sqliteVars
  <2>2. Names' /\ TaskKinds' /\ MonitorHeld'
    BY <1>1, <1>2 DEF Names, TaskKinds, MonitorHeld, Calls, sqliteVars, Script, TransactionIds
  <2>3. TaskOrder'
    BY <1>1, <1>2 DEF TaskOrder, Calls, Running
  <2>4. PageView'
    <3>1. \A e \in Databases : handle'[e] = "open" <=> handle[e] = "open" /\ e # d
      BY DEF Calls
    <3> QED BY <1>1, <1>2, <3>1 DEF PageView, Calls, TransactionIds
  <2>5. WritesCounted'
    BY <1>1, <1>2 DEF WritesCounted, Counted, PendingWrite, Calls, sqliteVars, TransactionIds
  <2> QED BY <2>1, <2>2, <2>3, <2>4, <2>5 DEF CoreInv
<1>3. ASSUME NEW v \in TaskRecords, asked' = asked \cup {d},
             tasks' = tasks \cup {v}, \A t \in tasks : t.id < v.id,
             v.db = d, v.page = page, v.conn = 0, v.tx = 0,
             \/ v.kind = "open" /\ v.pc = "lookup"
             \/ v.kind = "open" /\ v.pc = "done"
             \/ v.kind = "close" /\ v.pc = "close"
             \/ v.kind = "delete" /\ v.pc = "delete"
      PROVE  CoreInv'
  <2>0. UNCHANGED <<platform, page, current, transactions, table, monitor, connections,
                    path, files>>
    BY DEF Calls, sqliteVars
  <2>1. Types'
    BY <1>1, <1>3, <2>0, OverlapType DEF Types, Calls
  <2>2. Names'
    <3>1. page \in Nat /\ Len(connections) \in Nat /\ Len(transactions) \in Nat
      BY <1>1 DEF Types
    <3> QED BY <1>1, <1>3, <2>0, <3>1 DEF Names
  <2>3. TaskKinds'
    BY <1>1, <1>3, <2>0 DEF TaskKinds, Script, TransactionIds
  <2>4. \A t \in tasks : ~(t.db = d /\ t.page = page)
    <3> SUFFICES ASSUME NEW t \in tasks, t.db = d, t.page = page PROVE FALSE
      OBVIOUS
    <3>1. IF t.kind = "batch" THEN current[t.db] = t.tx ELSE t.db \in asked
      BY <1>1 DEF PageView
    <3>2. t.kind = "batch" => t.tx # 0
      BY TaskType DEF TransactionIds
    <3> QED BY <3>1, <3>2 DEF Calls
  <2>5. TaskOrder'
    <3>1. \E n \in Nat : \A t \in tasks' : t.id <= n
      <4>1. v.id \in Nat /\ \A t \in tasks : t.id \in Nat
        BY <1>1, <1>3 DEF Types, TaskRecords
      <4>2. \A t \in tasks' : t.id <= v.id
        BY <1>3, <4>1
      <4> QED BY <4>1, <4>2
    <3>2. \A t, u \in tasks' : t.db = u.db /\ t.page = u.page => t = u
      BY <1>1, <1>3, <2>4 DEF TaskOrder
    <3>3. \A t, u \in tasks' : t.db = u.db /\ t.page < u.page => t.id < u.id
      <4>1. \A t \in tasks : t.page <= page /\ t.page \in Nat
        BY TaskType
      <4>2. page \in Nat
        BY <1>1 DEF Types
      <4> QED BY <1>1, <1>3, <4>1, <4>2 DEF TaskOrder
    <3>4. \A t \in tasks' : Running(t)' \/ t.page = page'
      BY <1>1, <1>3, <2>0 DEF TaskOrder, Running
    <3> QED BY <3>1, <3>2, <3>3, <3>4 DEF TaskOrder
  <2>6. MonitorHeld'
    BY <1>1, <1>3, <2>0 DEF MonitorHeld
  <2>7. PageView'
    <3>1. \A e \in Databases : handle'[e] = "open" <=> handle[e] = "open" /\ e # d
      BY DEF Calls
    <3>2. current[d] = 0
      BY DEF Calls
    <3> QED BY <1>1, <1>3, <2>0, <3>1, <3>2 DEF PageView, TransactionIds
  <2>8. WritesCounted'
    <3>1. ~PendingWrite(v)
      BY <1>3 DEF PendingWrite
    <3>2. ASSUME NEW w, Counted(w) PROVE Counted(w)'
      BY <1>3, <2>0, <3>1, <3>2 DEF Counted, TransactionIds, PendingWrite
    <3> QED BY <1>1, <2>0, <3>2 DEF WritesCounted
  <2> QED BY <2>1, <2>2, <2>3, <2>5, <2>6, <2>7, <2>8 DEF CoreInv
<1> QED BY <1>2, <1>3 DEF Calls

LEMMA TransactCore ==
  ASSUME CoreInv, NEW d \in Databases, Transacts(d)
  PROVE  CoreInv'
<1> DEFINE i == Len(transactions) + 1
<1>1. Types /\ Names /\ TaskKinds /\ TaskOrder /\ MonitorHeld /\ PageView /\ WritesCounted
  BY DEF CoreInv
<1>2. PICK x \in Transactions, v \in TaskRecords :
        /\ transactions' = Append(transactions, x)
        /\ x.db = d /\ x.page = page /\ x.writes = 1
        /\ x.phase = "running" /\ x.outcome = "none"
        /\ tasks' = tasks \cup {v}
        /\ \A t \in tasks : t.id < v.id
        /\ v.db = d /\ v.page = page /\ v.conn = 0 /\ v.tx = i
        /\ v.kind = "batch" /\ v.pc = "statement" /\ ~v.error
        /\ v.sqls = IF x.locked THEN <<"BEGIN", "WRITE">> ELSE <<"WRITE">>
  BY DEF Transacts
<1>3. /\ UNCHANGED <<platform, page, handle, asked, table, monitor, connections, path, files>>
      /\ handle[d] = "open" /\ current[d] = 0 /\ current' = [current EXCEPT ![d] = i]
  BY DEF Transacts, sqliteVars
<1>4. /\ Len(transactions) \in Nat /\ transactions' \in Seq(Transactions)
      /\ Len(transactions') = i /\ transactions'[i] = x
      /\ \A j \in 1 .. Len(transactions) : transactions'[j] = transactions[j]
  BY <1>1, <1>2 DEF Types
<1>5. TransactionIds' = TransactionIds \cup {i} /\ i \notin TransactionIds
  BY <1>4 DEF TransactionIds
<1>6. \A j \in TransactionIds : transactions'[j] = transactions[j]
  BY <1>4 DEF TransactionIds
<1> HIDE DEF i
<1>7. current' \in [Databases -> Nat] /\ i \in Nat
  BY <1>1, <1>3, <1>4 DEF Types, i
<1>8. \A e \in Databases : current'[e] = IF e = d THEN i ELSE current[e]
  BY <1>1, <1>3 DEF Types
<1>9. Types'
  <2>1. overlap' \subseteq Databases /\ misused' = misused
    BY <1>1, OverlapType DEF Transacts
  <2> QED BY <1>1, <1>2, <1>3, <1>4, <1>7, <2>1 DEF Types
<1>10. Names'
  <2>1. page \in Nat /\ Len(connections) \in Nat
    BY <1>1 DEF Types
  <2>2. \A e \in Databases : current[e] \in Nat /\ current'[e] <= Len(transactions')
    BY <1>1, <1>4, <1>7, <1>8 DEF Types, Names, i
  <2>3. \A t \in tasks' :
          t.page <= page /\ t.conn <= Len(connections) /\ t.tx <= Len(transactions')
    <3>1. \A t \in tasks : t.tx \in Nat
      BY <1>1 DEF Types, TaskRecords
    <3> QED BY <1>1, <1>2, <1>4, <2>1, <3>1 DEF Names, i
  <2>4. \A c \in 1 .. Len(connections) : connections[c].begun <= Len(transactions')
    <3>1. \A c \in 1 .. Len(connections) : connections[c].begun \in 0 .. Len(transactions)
      BY ConnectionType
    <3> QED BY <1>4, <3>1 DEF i
  <2> QED BY <1>1, <1>3, <2>2, <2>3, <2>4 DEF Names
<1>11. \A t \in tasks : t.kind = "batch" => t.tx \in TransactionIds
  BY TaskType
<1>12. TaskKinds'
  <2>1. ASSUME NEW t \in tasks, t.kind = "batch", Script(t) PROVE Script(t)'
    BY <1>6, <1>11, <2>1 DEF Script
  <2>2. Script(v)'
    BY <1>2, <1>4 DEF Script
  <2> QED BY <1>1, <1>2, <1>4, <1>5, <1>6, <1>11, <2>1, <2>2 DEF TaskKinds
<1>13. \A t \in tasks : ~(t.db = d /\ t.page = page)
  <2> SUFFICES ASSUME NEW t \in tasks, t.db = d, t.page = page PROVE FALSE
    OBVIOUS
  <2>1. IF t.kind = "batch" THEN current[d] = t.tx ELSE d \in asked
    BY <1>1 DEF PageView
  <2>2. t.kind = "batch" => t.tx # 0
    BY TaskType DEF TransactionIds
  <2> QED BY <1>1, <1>3, <2>1, <2>2 DEF PageView
<1>14. TaskOrder'
  <2>1. \E n \in Nat : \A t \in tasks' : t.id <= n
    <3>1. v.id \in Nat /\ \A t \in tasks : t.id \in Nat
      BY <1>1, <1>2 DEF Types, TaskRecords
    <3>2. \A t \in tasks' : t.id <= v.id
      BY <1>2, <3>1
    <3> QED BY <3>1, <3>2
  <2>2. \A t, u \in tasks' : t.db = u.db /\ t.page = u.page => t = u
    BY <1>1, <1>2, <1>13 DEF TaskOrder
  <2>3. \A t, u \in tasks' : t.db = u.db /\ t.page < u.page => t.id < u.id
    <3>1. \A t \in tasks : t.page <= page /\ t.page \in Nat
      BY TaskType
    <3>2. page \in Nat
      BY <1>1 DEF Types
    <3> QED BY <1>1, <1>2, <3>1, <3>2 DEF TaskOrder
  <2>4. \A t \in tasks' : Running(t)' \/ t.page = page'
    BY <1>1, <1>2, <1>3 DEF TaskOrder, Running
  <2> QED BY <2>1, <2>2, <2>3, <2>4 DEF TaskOrder
<1>15. MonitorHeld'
  BY <1>1, <1>2, <1>3 DEF MonitorHeld
<1>16. PageView'
  <2>1. \A e \in Databases : handle'[e] = "open" => e \notin asked'
    BY <1>1, <1>3 DEF PageView
  <2>2. ASSUME NEW e \in Databases, current'[e] # 0
        PROVE  LET y == transactions'[current'[e]]
               IN  handle'[e] = "open" /\ y.db = e /\ y.page = page' /\ y.outcome = "none"
    <3>1. CASE e = d
      BY <1>2, <1>3, <1>4, <1>8, <3>1
    <3>2. CASE e # d
      <4>1. current'[e] = current[e] /\ current[e] \in TransactionIds
        BY <1>8, <2>2, <3>2, DatabaseType DEF TransactionIds
      <4> QED BY <1>1, <1>3, <1>6, <2>2, <4>1 DEF PageView
    <3> QED BY <3>1, <3>2
  <2>3. ASSUME NEW t \in tasks', t.page = page'
        PROVE  IF t.kind = "batch" THEN current'[t.db] = t.tx ELSE t.db \in asked'
    <3>1. CASE t = v
      BY <1>2, <1>8, <3>1
    <3>2. CASE t \in tasks
      <4>1. t.db \in Databases /\ t.db # d
        BY <1>3, <1>13, <2>3, <3>2, TaskType
      <4> QED BY <1>1, <1>3, <1>8, <2>3, <3>2, <4>1 DEF PageView
    <3> QED BY <1>2, <3>1, <3>2
  <2>4. ASSUME NEW j \in TransactionIds'
        PROVE  LET y == transactions'[j]
               IN  /\ y.page <= page'
                   /\ ~y.locked => y.phase = "running" /\ y.writes = 1
                   /\ y.page = page' /\ y.outcome = "none" => current'[y.db] = j
    <3>0. page \in Nat
      BY <1>1 DEF Types
    <3>1. CASE j = i
      BY <1>2, <1>3, <1>4, <1>8, <3>0, <3>1
    <3>2. CASE j \in TransactionIds
      <4>1. transactions'[j] = transactions[j] /\ transactions[j].db \in Databases
        BY <1>6, <3>2, TransactionType
      <4>2. transactions[j].page = page /\ transactions[j].outcome = "none"
              => current[transactions[j].db] = j /\ transactions[j].db # d
        <5>1. j # 0
          BY <3>2 DEF TransactionIds
        <5> QED BY <1>1, <1>3, <3>2, <5>1 DEF PageView
      <4> QED BY <1>1, <1>3, <1>8, <3>2, <4>1, <4>2 DEF PageView
    <3> QED BY <1>5, <3>1, <3>2
  <2> QED BY <2>1, <2>2, <2>3, <2>4 DEF PageView
<1>17. WritesCounted'
  <2>1. ASSUME NEW w, Counted(w) PROVE Counted(w)'
    <3>1. w[1] \in TransactionIds /\ w[1] # i
      BY <1>5, <2>1 DEF Counted
    <3>2. \A t \in tasks : PendingWrite(t) => t.kind = "batch"
      BY TaskType DEF PendingWrite
    <3> QED BY <1>2, <1>5, <1>6, <1>11, <2>1, <3>1, <3>2 DEF Counted, PendingWrite
  <2> QED BY <1>1, <1>3, <2>1 DEF WritesCounted
<1> QED BY <1>9, <1>10, <1>12, <1>14, <1>15, <1>16, <1>17 DEF CoreInv

LEMMA ReloadCore ==
  ASSUME CoreInv, Reload
  PROVE  CoreInv'
<1>1. Types /\ Names /\ TaskKinds /\ TaskOrder /\ MonitorHeld /\ PageView /\ WritesCounted
  BY DEF CoreInv
<1>2. /\ UNCHANGED <<platform, transactions, table, monitor, connections, path, files,
                     overlap, misused>>
      /\ page' = page + 1 /\ asked' = {}
      /\ handle' = [d \in Databases |-> Closed]
      /\ current' = [d \in Databases |-> 0]
      /\ tasks' = {t \in tasks : Running(t)}
  BY DEF Reload, sqliteVars, history
<1>3. page \in Nat \ {0} /\ page' \in Nat \ {0} /\ page < page'
  BY <1>1, <1>2 DEF Types
<1>4. tasks' \subseteq tasks /\ TransactionIds' = TransactionIds
  BY <1>2 DEF TransactionIds
<1>5. Types'
  BY <1>1, <1>2, <1>3, <1>4 DEF Types, Closed
<1>6. Names'
  <2>1. \A t \in tasks : t.page \in Nat /\ t.page <= page'
    <3> TAKE t \in tasks
    <3>1. t.page \in Nat /\ t.page <= page
      BY TaskType
    <3> QED BY <3>1, <1>3
  <2>2. \A d \in Databases : current'[d] <= Len(transactions)
    <3>1. Len(transactions) \in Nat
      BY <1>1 DEF Types
    <3> QED BY <1>2, <3>1
  <2> QED BY <1>1, <1>2, <1>4, <2>1, <2>2 DEF Names
<1>7. TaskKinds'
  BY <1>1, <1>2, <1>4 DEF TaskKinds, Script
<1>8. TaskOrder'
  BY <1>1, <1>2, <1>4 DEF TaskOrder, Running
<1>9. MonitorHeld'
  BY <1>1, <1>2 DEF MonitorHeld, Running
<1>10. PageView'
  <2>1. \A t \in tasks' : t.page # page'
    <3> TAKE t \in tasks'
    <3>1. t.page \in Nat /\ t.page <= page
      BY <1>4, TaskType
    <3> QED BY <3>1, <1>3
  <2>2. \A i \in TransactionIds : transactions[i].page # page' /\ transactions[i].page <= page'
    <3> TAKE i \in TransactionIds
    <3>1. transactions[i].page \in Nat /\ transactions[i].page <= page
      BY TransactionType
    <3> QED BY <3>1, <1>3
  <2>3. \A d \in Databases : handle'[d] # "open" /\ current'[d] = 0
    BY <1>2 DEF Closed
  <2>4. \A i \in TransactionIds : ~transactions[i].locked =>
          transactions[i].phase = "running" /\ transactions[i].writes = 1
    BY <1>1 DEF PageView
  <2> QED BY <1>2, <1>4, <2>1, <2>2, <2>3, <2>4 DEF PageView
<1>11. WritesCounted'
  BY <1>1, <1>2, <1>4 DEF WritesCounted, Counted, PendingWrite
<1> QED BY <1>5, <1>6, <1>7, <1>8, <1>9, <1>10, <1>11 DEF CoreInv

\* The answer to an open, close or delete call.
LEMMA CallAnswerCore ==
  ASSUME CoreInv, NEW t \in tasks, Answer(t), t.kind # "batch"
  PROVE  CoreInv'
<1>1. Types /\ Names /\ TaskKinds /\ TaskOrder /\ MonitorHeld /\ PageView /\ WritesCounted
  BY DEF CoreInv
<1>2. /\ UNCHANGED <<platform, page, current, transactions, table, monitor, connections,
                     path, files, overlap, misused>>
      /\ t.pc = "done" /\ asked' = asked \ {t.db} /\ tasks' = tasks \ {t}
      /\ handle' = IF t.kind = "open" THEN [handle EXCEPT ![t.db] = "open"] ELSE handle
  BY DEF Answer, sqliteVars, history
<1>3. t.db \in Databases /\ TransactionIds' = TransactionIds /\ tasks' \subseteq tasks
  BY <1>2, TaskType DEF TransactionIds
<1>4. t.page = page
  BY <1>1, <1>2 DEF TaskOrder, Running
<1>5. Types'
  BY <1>1, <1>2, <1>3 DEF Types
<1>6. Names' /\ TaskKinds' /\ MonitorHeld'
  BY <1>1, <1>2, <1>3 DEF Names, TaskKinds, MonitorHeld, Script
<1>7. TaskOrder'
  BY <1>1, <1>2, <1>3 DEF TaskOrder, Running
<1>8. PageView'
  <2>1. \A d \in Databases : d # t.db => handle'[d] = handle[d]
    BY <1>1, <1>2, <1>3 DEF Types
  <2>2. handle[t.db] = "open" => handle'[t.db] = "open"
    BY <1>1, <1>2, <1>3 DEF Types
  <2>3. \A u \in tasks' : u.page = page => u.db # t.db
    BY <1>1, <1>2, <1>3, <1>4 DEF TaskOrder
  <2> QED BY <1>1, <1>2, <1>3, <2>1, <2>2, <2>3 DEF PageView
<1>9. WritesCounted'
  BY <1>1, <1>2, <1>3 DEF WritesCounted, Counted, PendingWrite
<1> QED BY <1>5, <1>6, <1>7, <1>8, <1>9 DEF CoreInv

\* The task answered is the only one of its transaction, and of its page and database.
LEMMA AnsweredTask ==
  ASSUME CoreInv, NEW t \in tasks, t.pc = "done", t.kind = "batch"
  PROVE  /\ t.page = page /\ t.tx \in TransactionIds /\ current[t.db] = t.tx
         /\ transactions[t.tx].db = t.db /\ transactions[t.tx].page = page
         /\ transactions[t.tx].outcome = "none" /\ handle[t.db] = "open"
         /\ \A u \in tasks \ {t} : /\ u.db = t.db => u.page # page
                                   /\ u.kind = "batch" => u.tx # t.tx
<1>1. TaskKinds /\ TaskOrder /\ PageView
  BY DEF CoreInv
<1>2. t.page = page
  BY <1>1 DEF TaskOrder, Running
<1>3. /\ t.tx \in TransactionIds /\ transactions[t.tx].db = t.db
      /\ transactions[t.tx].page = page /\ transactions[t.tx].outcome = "none"
  BY <1>1, <1>2 DEF TaskKinds
<1>4. current[t.db] = t.tx /\ t.tx # 0 /\ t.db \in Databases
  BY <1>1, <1>2, TaskType DEF PageView, TransactionIds
<1>5. handle[t.db] = "open"
  BY <1>1, <1>4 DEF PageView
<1>6. \A u \in tasks \ {t} : u.db = t.db => u.page # page
  BY <1>1, <1>2 DEF TaskOrder
<1>7. \A u \in tasks : u.kind = "batch" /\ u.tx = t.tx => u.db = t.db /\ u.page = page
  BY <1>1, <1>3 DEF TaskKinds
<1> QED BY <1>2, <1>3, <1>4, <1>5, <1>6, <1>7

LEMMA ProceedCore ==
  ASSUME CoreInv, NEW t \in tasks, t.pc = "done", t.kind = "batch", Proceeds(t),
         UNCHANGED <<platform, page, handle, asked, calls, table, monitor, crashed,
                     sqliteVars, history>>
  PROVE  CoreInv'
<1> DEFINE i == t.tx
           x == transactions[i]
<1>1. Types /\ Names /\ TaskKinds /\ TaskOrder /\ MonitorHeld /\ PageView /\ WritesCounted
  BY DEF CoreInv
<1>2. PICK y \in Transactions, v \in TaskRecords :
        /\ transactions' = [transactions EXCEPT ![i] = y]
        /\ y.db = x.db /\ y.page = x.page /\ y.locked /\ y.outcome = x.outcome
        /\ tasks' = (tasks \ {t}) \cup {v}
        /\ \A u \in tasks : u.id < v.id
        /\ v.db = t.db /\ v.page = page /\ v.conn = 0 /\ v.tx = i
        /\ v.kind = "batch" /\ v.pc = "statement" /\ ~v.error
        /\ \/ /\ t.error /\ y.phase = "aborting" /\ y.writes = x.writes
              /\ v.sqls = <<"ROLLBACK">>
           \/ /\ ~t.error /\ y.phase = "running" /\ x.writes = 1 /\ y.writes = 2
              /\ v.sqls = <<"WRITE">>
           \/ /\ ~t.error /\ y.phase = "finishing" /\ y.writes = x.writes
              /\ v.sqls = <<"COMMIT">>
  BY DEF Proceeds
<1>3. /\ UNCHANGED <<platform, page, handle, asked, table, monitor, connections,
                     path, files, overlap, misused, current>>
  BY DEF sqliteVars, history, Proceeds
<1>4. /\ t.page = page /\ i \in TransactionIds /\ current[t.db] = i
      /\ x.db = t.db /\ x.page = page /\ x.outcome = "none"
      /\ \A u \in tasks \ {t} : /\ u.db = t.db => u.page # page
                                /\ u.kind = "batch" => u.tx # i
  BY AnsweredTask
<1> HIDE DEF i
<1>5. /\ TransactionIds' = TransactionIds /\ transactions' \in Seq(Transactions)
      /\ Len(transactions') = Len(transactions)
      /\ transactions'[i] = y
      /\ \A j \in TransactionIds : j # i => transactions'[j] = transactions[j]
  BY <1>1, <1>2, <1>4 DEF Types, TransactionIds
<1>6. Types'
  BY <1>1, <1>2, <1>3, <1>5 DEF Types
<1>7. Names'
  <2>1. page \in Nat /\ Len(connections) \in Nat /\ i <= Len(transactions)
    BY <1>1, <1>4, TransactionType DEF Types
  <2> QED BY <1>1, <1>2, <1>3, <1>5, <2>1 DEF Names
<1>8. TaskKinds'
  <2>1. ASSUME NEW u \in tasks', u # v, u.kind = "batch"
        PROVE  u.tx \in TransactionIds /\ transactions'[u.tx] = transactions[u.tx]
    BY <1>2, <1>4, <1>5, <2>1, TaskType
  <2>2. ASSUME NEW u \in tasks', u # v, u.kind = "batch", Script(u) PROVE Script(u)'
    BY <2>1, <2>2 DEF Script
  <2>3. Script(v)'
    BY <1>2, <1>5 DEF Script
  <2>4. ASSUME NEW u \in tasks', u # v
        PROVE  /\ u.kind = "open" => u.pc \in {"lookup", "connect", "set", "done"}
               /\ u.kind = "close" => u.pc \in {"close", "remove", "done"}
               /\ u.kind = "delete" => u.pc \in {"delete", "remove", "done"}
               /\ u.kind = "batch" =>
                   /\ u.pc \in {"statement", "done", "lost"}
                   /\ u.tx \in TransactionIds'
                   /\ u.db = transactions'[u.tx].db
                   /\ u.page = transactions'[u.tx].page
                   /\ transactions'[u.tx].outcome = "none"
                   /\ u.pc = "statement" => Script(u)'
    <3>1. u \in tasks
      BY <1>2, <2>4
    <3> QED BY <1>1, <1>5, <2>1, <2>2, <2>4, <3>1 DEF TaskKinds
  <2> QED BY <1>2, <1>4, <1>5, <2>3, <2>4 DEF TaskKinds
<1>9. TaskOrder'
  <2>1. \E n \in Nat : \A u \in tasks' : u.id <= n
    <3>1. v.id \in Nat /\ \A u \in tasks : u.id \in Nat
      BY <1>1, <1>2 DEF Types, TaskRecords
    <3>2. \A u \in tasks' : u.id <= v.id
      BY <1>2, <3>1
    <3> QED BY <3>1, <3>2
  <2>2. \A u, w \in tasks' : u.db = w.db /\ u.page = w.page => u = w
    BY <1>1, <1>2, <1>4 DEF TaskOrder
  <2>3. \A u, w \in tasks' : u.db = w.db /\ u.page < w.page => u.id < w.id
    <3>1. \A u \in tasks : u.page <= page /\ u.page \in Nat
      BY TaskType
    <3>2. page \in Nat
      BY <1>1 DEF Types
    <3> QED BY <1>1, <1>2, <3>1, <3>2 DEF TaskOrder
  <2>4. \A u \in tasks' : Running(u)' \/ u.page = page'
    BY <1>1, <1>2, <1>3 DEF TaskOrder, Running
  <2> QED BY <2>1, <2>2, <2>3, <2>4 DEF TaskOrder
<1>10. MonitorHeld'
  BY <1>1, <1>2, <1>3 DEF MonitorHeld
<1>11. PageView'
  <2>1. ASSUME NEW j \in TransactionIds
        PROVE  /\ transactions'[j].db = transactions[j].db
               /\ transactions'[j].page = transactions[j].page
               /\ transactions'[j].outcome = transactions[j].outcome
               /\ ~transactions'[j].locked =>
                     ~transactions[j].locked /\ transactions'[j] = transactions[j]
    BY <1>2, <1>5
  <2>2. \A d \in Databases : current[d] # 0 => current[d] \in TransactionIds
    BY DatabaseType DEF TransactionIds
  <2>3. \A u \in tasks' : u.page = page =>
          IF u.kind = "batch" THEN current[u.db] = u.tx ELSE u.db \in asked
    BY <1>1, <1>2, <1>4 DEF PageView
  <2> QED BY <1>1, <1>3, <1>5, <2>1, <2>2, <2>3 DEF PageView
<1>12. WritesCounted'
  <2>1. ASSUME NEW w, Counted(w) PROVE Counted(w)'
    <3>1. w[1] \in TransactionIds /\ w[2] \in 1 .. transactions[w[1]].writes
      BY <2>1 DEF Counted
    <3>2. CASE w[1] # i
      <4>1. \A u \in tasks' : PendingWrite(u) /\ u.tx = w[1] =>
              u \in tasks /\ transactions'[u.tx] = transactions[u.tx]
        BY <1>2, <1>5, <3>1, <3>2
      <4> QED BY <1>5, <2>1, <3>1, <3>2, <4>1 DEF Counted, PendingWrite
    <3>3. CASE w[1] = i
      <4>1. transactions[i].writes \in {1, 2} /\ w[2] \in 1 .. transactions[i].writes
        BY <1>4, <3>1, <3>3, TransactionType
      <4>2. w[2] \in 1 .. y.writes
        BY <1>2, <4>1
      <4>3. \A u \in tasks : PendingWrite(u) => u.kind = "batch"
        BY TaskType DEF PendingWrite
      <4>4. PendingWrite(v) => w[2] < y.writes
        <5>1. v.sqls = <<"ROLLBACK">> \/ v.sqls = <<"COMMIT">> => ~PendingWrite(v)
          BY DEF PendingWrite
        <5> QED BY <1>2, <4>1, <5>1
      <4>5. \A u \in tasks' : PendingWrite(u) /\ u.tx = i => u = v
        BY <1>2, <1>4, <4>3
      <4> QED BY <1>5, <1>4, <3>3, <4>2, <4>4, <4>5 DEF Counted, PendingWrite
    <3> QED BY <3>2, <3>3
  <2> QED BY <1>1, <1>3, <2>1 DEF WritesCounted
<1> QED BY <1>6, <1>7, <1>8, <1>9, <1>10, <1>11, <1>12 DEF CoreInv

LEMMA ReportCore ==
  ASSUME CoreInv, NEW t \in tasks, t.pc = "done", t.kind = "batch", Reports(t),
         UNCHANGED <<platform, page, handle, asked, calls, table, monitor, crashed,
                     sqliteVars, history>>
  PROVE  CoreInv'
<1> DEFINE i == t.tx
           x == transactions[i]
<1>1. Types /\ Names /\ TaskKinds /\ TaskOrder /\ MonitorHeld /\ PageView /\ WritesCounted
  BY DEF CoreInv
<1>2. PICK y \in Transactions :
        /\ transactions' = [transactions EXCEPT ![i] = y]
        /\ y.db = x.db /\ y.page = x.page /\ y.locked = x.locked
        /\ y.writes = x.writes /\ y.phase = x.phase
        /\ y.outcome # "none"
  BY DEF Reports
<1>3. /\ UNCHANGED <<platform, page, handle, asked, table, monitor, connections,
                     path, files, overlap, misused>>
      /\ tasks' = tasks \ {t} /\ current' = [current EXCEPT ![t.db] = 0]
  BY DEF sqliteVars, history, Reports
<1>4. /\ t.page = page /\ i \in TransactionIds /\ current[t.db] = i
      /\ x.db = t.db /\ x.page = page /\ x.outcome = "none"
      /\ \A u \in tasks \ {t} : /\ u.db = t.db => u.page # page
                                /\ u.kind = "batch" => u.tx # i
  BY AnsweredTask
<1> HIDE DEF i
<1>5. /\ TransactionIds' = TransactionIds /\ transactions' \in Seq(Transactions)
      /\ Len(transactions') = Len(transactions)
      /\ transactions'[i] = y
      /\ \A j \in TransactionIds : j # i => transactions'[j] = transactions[j]
  BY <1>1, <1>2, <1>4 DEF Types, TransactionIds
<1>6. t.db \in Databases /\ current' \in [Databases -> Nat]
      /\ \A d \in Databases : current'[d] = IF d = t.db THEN 0 ELSE current[d]
  BY <1>1, <1>3, TaskType DEF Types
<1>7. Types'
  BY <1>1, <1>3, <1>5, <1>6 DEF Types
<1>8. Names'
  <2>1. Len(transactions) \in Nat
    BY <1>1 DEF Types
  <2> QED BY <1>1, <1>3, <1>5, <1>6, <2>1 DEF Names
<1>9. TaskKinds'
  <2>1. ASSUME NEW u \in tasks', u.kind = "batch"
        PROVE  u.tx \in TransactionIds /\ transactions'[u.tx] = transactions[u.tx]
    BY <1>3, <1>4, <1>5, <2>1, TaskType
  <2>2. ASSUME NEW u \in tasks', u.kind = "batch", Script(u) PROVE Script(u)'
    BY <2>1, <2>2 DEF Script
  <2> QED BY <1>1, <1>3, <1>5, <2>1, <2>2 DEF TaskKinds
<1>10. TaskOrder'
  BY <1>1, <1>3 DEF TaskOrder, Running
<1>11. MonitorHeld'
  BY <1>1, <1>3 DEF MonitorHeld
<1>12. PageView'
  <2>1. ASSUME NEW d \in Databases, current'[d] # 0
        PROVE  LET z == transactions'[current'[d]]
               IN  handle'[d] = "open" /\ z.db = d /\ z.page = page' /\ z.outcome = "none"
    <3>1. d # t.db /\ current'[d] = current[d] /\ current[d] \in TransactionIds
      BY <1>6, <2>1, DatabaseType DEF TransactionIds
    <3>2. current[d] # i
      BY <1>1, <1>4, <3>1, <2>1 DEF PageView
    <3> QED BY <1>1, <1>3, <1>5, <2>1, <3>1, <3>2 DEF PageView
  <2>2. ASSUME NEW u \in tasks', u.page = page'
        PROVE  IF u.kind = "batch" THEN current'[u.db] = u.tx ELSE u.db \in asked'
    <3>1. u \in tasks /\ u.db # t.db /\ u.db \in Databases
      BY <1>3, <1>4, <2>2, TaskType
    <3> QED BY <1>1, <1>3, <1>6, <2>2, <3>1 DEF PageView
  <2>3. ASSUME NEW j \in TransactionIds
        PROVE  LET z == transactions'[j]
               IN  /\ z.page <= page
                   /\ ~z.locked => z.phase = "running" /\ z.writes = 1
                   /\ z.page = page /\ z.outcome = "none" => current'[z.db] = j
    <3>1. CASE j = i
      BY <1>1, <1>2, <1>4, <1>5, <3>1 DEF PageView
    <3>2. CASE j # i
      <4>1. transactions'[j] = transactions[j] /\ transactions[j].db \in Databases
        BY <1>5, <3>2, TransactionType
      <4>2. transactions[j].page = page /\ transactions[j].outcome = "none"
              => current[transactions[j].db] = j /\ transactions[j].db # t.db
        BY <1>1, <1>4, <3>2 DEF PageView
      <4> QED BY <1>1, <1>6, <4>1, <4>2 DEF PageView
    <3> QED BY <3>1, <3>2
  <2>4. \A d \in Databases : handle[d] = "open" => d \notin asked
    BY <1>1 DEF PageView
  <2> QED BY <1>3, <1>5, <2>1, <2>2, <2>3, <2>4 DEF PageView
<1>13. WritesCounted'
  <2>1. \A j \in TransactionIds : transactions'[j].writes = transactions[j].writes
    BY <1>2, <1>5
  <2>2. \A u \in tasks : PendingWrite(u) => u.tx \in TransactionIds
    BY TaskType DEF PendingWrite
  <2> QED BY <1>1, <1>3, <1>5, <2>1, <2>2 DEF WritesCounted, Counted, PendingWrite
<1> QED BY <1>7, <1>8, <1>9, <1>10, <1>11, <1>12, <1>13 DEF CoreInv

-----------------------------------------------------------------------------
(* The steps of the native side keep the core invariant. *)

LEMMA MovedTasks ==
  ASSUME NEW t, NEW u, Moves(t, u), UNCHANGED page
  PROVE  /\ \A v \in tasks' : \/ v \in tasks \ {t}
                              \/ v = u /\ (Running(u) \/ u.page = page)
         /\ \A v \in tasks \ {t} : v \in tasks'
         /\ Running(u) \/ u.page = page => u \in tasks'
<1>1. tasks' = (tasks \ {t}) \cup {v \in {u} : Running(v) \/ v.page = page}
  BY DEF Moves, Become
<1>2. \A v \in tasks \ {t} : v \in tasks'
  BY <1>1
<1>3. Running(u) \/ u.page = page => u \in tasks'
  BY <1>1
<1>4. \A v \in tasks' : \/ v \in tasks \ {t}
                        \/ v = u /\ (Running(u) \/ u.page = page)
  BY <1>1 DEF Running
<1> QED BY <1>2, <1>3, <1>4

LEMMA MoveCore ==
  ASSUME CoreInv, NEW t \in tasks, NativeStep(t), NEW u, Moves(t, u)
  PROVE  TaskKinds' /\ TaskOrder' /\ PageView'
<1>1. TaskKinds /\ TaskOrder /\ PageView /\ t \in TaskRecords
  BY TaskType DEF CoreInv
<1>2. UNCHANGED <<platform, page, handle, asked, current, transactions, overlap>>
  BY DEF NativeStep, pageVars
<1>3. /\ u.id = t.id /\ u.kind = t.kind /\ u.db = t.db /\ u.page = t.page /\ u.tx = t.tx
  BY DEF Moves
<1>4. \A v \in tasks' : \/ v \in tasks \ {t}
                        \/ v = u /\ (Running(u) \/ u.page = page)
  BY <1>2, MovedTasks
<1>5. TransactionIds' = TransactionIds
  BY <1>2 DEF TransactionIds
<1>6. TaskKinds'
  <2>1. \A v : Script(v) => Script(v)'
    BY <1>2 DEF Script
  <2>2. t.kind = "open" => u.pc \in {"lookup", "connect", "set", "done"}
    BY <1>1 DEF TaskKinds, Moves
  <2>3. t.kind = "close" => u.pc \in {"close", "remove", "done"}
    BY <1>1 DEF TaskKinds, Moves
  <2>4. t.kind = "delete" => u.pc \in {"delete", "remove", "done"}
    BY <1>1 DEF TaskKinds, Moves
  <2>5. t.kind = "batch" => u.pc \in {"statement", "done", "lost"}
    BY <1>1 DEF TaskKinds, Moves
  <2>6. ASSUME t.kind = "batch", u.pc = "statement" PROVE Script(u)
    <3>1. t.pc = "statement" /\ u.sqls = Tail(t.sqls) /\ Len(t.sqls) # 1
      BY <1>1, <2>6 DEF TaskKinds, Moves
    <3>2. Script(t)
      BY <1>1, <2>6, <3>1 DEF TaskKinds
    <3>3. t.sqls = <<"BEGIN", "WRITE">>
      BY <3>1, <3>2, ScriptFacts
    <3>4. u.sqls = <<"WRITE">>
      BY <3>1, <3>2, <3>3, ScriptFacts
    <3>5. transactions[t.tx].phase = "running"
      <4>1. t.sqls # <<"COMMIT">> /\ t.sqls # <<"ROLLBACK">>
        <5>1. Len(t.sqls) = 2
          BY <3>2, <3>3, ScriptFacts
        <5>2. Len(<<"COMMIT">>) = 1 /\ Len(<<"ROLLBACK">>) = 1
          OBVIOUS
        <5> QED BY <5>1, <5>2
      <4> QED BY <3>2, <4>1 DEF Script
    <3> QED BY <1>3, <3>4, <3>5 DEF Script
  <2> QED BY <1>1, <1>2, <1>3, <1>4, <1>5, <2>1, <2>2, <2>3, <2>4, <2>5, <2>6 DEF TaskKinds
<1>7. TaskOrder'
  <2>1. \E n \in Nat : \A v \in tasks' : v.id <= n
    BY <1>1, <1>3, <1>4 DEF TaskOrder
  <2>2. \A v, w \in tasks' : v.db = w.db /\ v.page = w.page => v = w
    BY <1>1, <1>3, <1>4 DEF TaskOrder
  <2>3. \A v, w \in tasks' : v.db = w.db /\ v.page < w.page => v.id < w.id
    <3>1. ASSUME NEW v \in tasks', NEW w \in tasks', v.db = w.db, v.page < w.page
          PROVE  v.id < w.id
      <4>1. \A a, b \in tasks : a.db = b.db /\ a.page < b.page => a.id < b.id
        BY <1>1 DEF TaskOrder
      <4>2. PICK a \in tasks : a.db = v.db /\ a.page = v.page /\ a.id = v.id
        BY <1>3, <1>4
      <4>3. PICK b \in tasks : b.db = w.db /\ b.page = w.page /\ b.id = w.id
        BY <1>3, <1>4
      <4> QED BY <3>1, <4>1, <4>2, <4>3
    <3> QED BY <3>1
  <2>4. \A v \in tasks' : Running(v)' \/ v.page = page'
    BY <1>1, <1>2, <1>4 DEF TaskOrder, Running
  <2> QED BY <2>1, <2>2, <2>3, <2>4 DEF TaskOrder
<1>8. PageView'
  <2>1. \A v \in tasks' : v.page = page =>
          IF v.kind = "batch" THEN current[v.db] = v.tx ELSE v.db \in asked
    BY <1>1, <1>3, <1>4 DEF PageView
  <2> QED BY <1>1, <1>2, <1>5, <2>1 DEF PageView
<1> QED BY <1>6, <1>7, <1>8

\* A step that executes no statement keeps the count of the writes there are.
LEMMA MoveCounts ==
  ASSUME CoreInv, NEW t \in tasks, NativeStep(t), NEW u, Moves(t, u), u.pc # "statement",
         NEW w, Counted(w)
  PROVE  Counted(w)'
<1>1. UNCHANGED <<page, transactions>>
  BY DEF NativeStep, pageVars
<1>2. \A v \in tasks' : v = u \/ v \in tasks
  BY <1>1, MovedTasks
<1>3. ~PendingWrite(u)
  BY DEF PendingWrite
<1> QED BY <1>1, <1>2, <1>3 DEF Counted, PendingWrite, TransactionIds

LEMMA ConnectionsUpdate ==
  ASSUME CoreInv, NEW c \in 1 .. Len(connections), NEW k \in Connections,
         connections' = [connections EXCEPT ![c] = k]
  PROVE  /\ connections' \in Seq(Connections) /\ Len(connections') = Len(connections)
         /\ connections'[c] = k
         /\ \A e \in 1 .. Len(connections) : e # c => connections'[e] = connections[e]
  BY DEF CoreInv, Types

LEMMA FilesUpdate ==
  ASSUME CoreInv, NEW f \in 1 .. Len(files), NEW s \in SUBSET (Nat \X Nat),
         files' = [files EXCEPT ![f] = @ \cup s]
  PROVE  /\ files' \in Seq(SUBSET (Nat \X Nat)) /\ Len(files') = Len(files)
         /\ files'[f] = files[f] \cup s
         /\ \A e \in 1 .. Len(files) : e # f => files'[e] = files[e]
<1>1. files \in Seq(SUBSET (Nat \X Nat))
  BY DEF CoreInv, Types
<1>2. files[f] \cup s \in SUBSET (Nat \X Nat)
  BY <1>1
<1> QED BY <1>1, <1>2

\* What keeps the types, with the tasks aside.
LEMMA NativeTypes ==
  ASSUME CoreInv, NEW t \in tasks, NativeStep(t), NEW u, Moves(t, u),
         misused' \subseteq Databases
  PROVE  /\ platform' \in Platforms /\ page' \in Nat \ {0}
         /\ handle' \in [Databases -> {Closed, "init", "open"}]
         /\ asked' \subseteq Databases /\ overlap' \subseteq Databases
         /\ current' \in [Databases -> Nat] /\ transactions' \in Seq(Transactions)
         /\ tasks' \subseteq TaskRecords
         /\ \A d \in Databases : current'[d] <= Len(transactions')
         /\ \A v \in tasks' : v.page <= page' /\ v.tx <= Len(transactions')
         /\ \A v \in tasks' : v.conn <= Len(connections) \/ v = u
<1>1. UNCHANGED <<platform, page, handle, asked, current, transactions, overlap>>
  BY DEF NativeStep, pageVars
<1>2. \A v \in tasks' : v = u \/ v \in tasks
  BY <1>1, MovedTasks
<1>3. u \in TaskRecords /\ u.page = t.page /\ u.tx = t.tx
  BY DEF Moves
<1>4. \A v \in tasks' : v.page <= page /\ v.tx <= Len(transactions)
  BY <1>2, <1>3 DEF CoreInv, Names
<1>5. \A v \in tasks' : v.conn <= Len(connections) \/ v = u
  BY <1>2 DEF CoreInv, Names
<1>6. tasks' \subseteq TaskRecords
  BY <1>2, <1>3 DEF CoreInv, Types
<1>7. \A d \in Databases : current[d] <= Len(transactions)
  BY DEF CoreInv, Names
<1> QED BY <1>1, <1>4, <1>5, <1>6, <1>7 DEF CoreInv, Types

\* Steps that execute no statement.
LEMMA ConnectCore ==
  ASSUME CoreInv, NEW t \in tasks, OpenConnect(t)
  PROVE  CoreInv'
<1>1. NativeStep(t) /\ t.pc = "connect"
  BY DEF OpenConnect
<1>2. PICK u : Moves(t, u)
  BY NativeEffect DEF Native
<1>3. TaskKinds' /\ TaskOrder' /\ PageView'
  BY <1>1, <1>2, MoveCore
<1>4. UNCHANGED <<table, monitor, misused, page, transactions>>
  BY <1>1, ConnectEffect DEF NativeStep, pageVars
<1>5. PICK k \in Connections :
        /\ connections' = Append(connections, k)
        /\ k.db = t.db /\ k.open /\ k.begun = 0 /\ k.writes = {}
        /\ path' = [path EXCEPT ![t.db] = k.file]
        /\ \/ path[t.db] # 0 /\ k.file = path[t.db] /\ files' = files
           \/ path[t.db] = 0 /\ k.file = Len(files) + 1 /\ files' = Append(files, {})
  BY ConnectEffect DEF Connects
<1>6. t.db \in Databases /\ path[t.db] \in 0 .. Len(files) /\ Len(files) \in Nat
      /\ Len(connections) \in Nat /\ Len(transactions) \in Nat
  BY TaskType, DatabaseType
<1>7. /\ connections' \in Seq(Connections) /\ Len(connections') = Len(connections) + 1
      /\ connections'[Len(connections) + 1] = k
      /\ \A c \in 1 .. Len(connections) : connections'[c] = connections[c]
  BY <1>5 DEF CoreInv, Types
<1>8. /\ files' \in Seq(SUBSET (Nat \X Nat)) /\ k.file \in 1 .. Len(files')
      /\ Len(files) <= Len(files')
      /\ \A f \in 1 .. Len(files') : \/ f \in 1 .. Len(files) /\ files'[f] = files[f]
                                    \/ files'[f] = {}
  <2>1. files \in Seq(SUBSET (Nat \X Nat)) /\ {} \in SUBSET (Nat \X Nat)
    BY DEF CoreInv, Types
  <2>2. CASE path[t.db] # 0 /\ k.file = path[t.db] /\ files' = files
    BY <1>6, <2>1, <2>2
  <2>3. CASE path[t.db] = 0 /\ k.file = Len(files) + 1 /\ files' = Append(files, {})
    <3>1. Len(files') = Len(files) + 1 /\ files' \in Seq(SUBSET (Nat \X Nat))
      BY <2>1, <2>3
    <3>2. \A f \in 1 .. Len(files) : files'[f] = files[f]
      BY <2>1, <2>3
    <3>3. files'[Len(files) + 1] = {}
      BY <2>1, <2>3
    <3> QED BY <1>6, <2>3, <3>1, <3>2, <3>3
  <2> QED BY <1>5, <2>2, <2>3
<1>9. \A d \in Databases : path'[d] \in Nat /\ path'[d] <= Len(files')
  <2> TAKE d \in Databases
  <2>1. path[d] \in 0 .. Len(files)
    BY DatabaseType
  <2>2. path'[d] = IF d = t.db THEN k.file ELSE path[d]
    BY <1>5, <1>6 DEF CoreInv, Types
  <2>3. Len(files') \in Nat
    BY <1>8
  <2> QED BY <1>6, <1>8, <2>1, <2>2, <2>3
<1>10. Types'
  <2>1. path' \in [Databases -> Nat]
    BY <1>5, <1>6 DEF CoreInv, Types, Connections
  <2>2. misused' \subseteq Databases /\ table' \in [Databases -> Nat]
    BY <1>4 DEF CoreInv, Types
  <2> QED BY <1>1, <1>2, <1>7, <1>8, <2>1, <2>2, NativeTypes DEF Types
<1>11. Names'
  <2>1. \A v \in tasks' : v.page <= page' /\ v.tx <= Len(transactions')
                         /\ (v.conn <= Len(connections) \/ v = u)
    BY <1>1, <1>2, <1>4, NativeTypes DEF CoreInv, Types
  <2>2. u.conn = Len(connections) + 1
    BY <1>1, <1>2 DEF Moves
  <2>3. \A v \in tasks' : v.conn <= Len(connections')
    <3>1. \A v \in tasks' : v.conn \in Nat
      BY <1>10 DEF Types, TaskRecords
    <3> QED BY <1>6, <1>7, <2>1, <2>2, <3>1
  <2>4. \A d \in Databases : current'[d] <= Len(transactions') /\ table'[d] <= Len(connections')
    <3>1. \A d \in Databases : table[d] \in 0 .. Len(connections)
      BY DatabaseType
    <3>2. \A d \in Databases : current'[d] <= Len(transactions')
      BY <1>1, <1>2, <1>4, NativeTypes DEF CoreInv, Types
    <3> QED BY <1>4, <1>6, <1>7, <3>1, <3>2
  <2>5. ASSUME NEW c \in 1 .. Len(connections')
        PROVE  connections'[c].file <= Len(files') /\ connections'[c].begun <= Len(transactions')
    <3>1. Len(files') \in Nat
      BY <1>8
    <3>2. CASE c = Len(connections) + 1
      BY <1>4, <1>5, <1>6, <1>7, <1>8, <3>1, <3>2
    <3>3. CASE c \in 1 .. Len(connections)
      <4>1. connections[c].file \in 1 .. Len(files)
            /\ connections[c].begun \in 0 .. Len(transactions)
        BY <3>3, ConnectionType
      <4> QED BY <1>4, <1>6, <1>7, <1>8, <3>1, <3>3, <4>1
    <3> QED BY <1>6, <1>7, <3>2, <3>3
  <2> QED BY <1>9, <2>1, <2>3, <2>4, <2>5 DEF Names
<1>12. MonitorHeld'
  <2>1. \A v \in tasks \ {t} : v \in tasks'
    BY <1>2, <1>4, MovedTasks
  <2> QED BY <1>1, <1>4, <2>1 DEF CoreInv, MonitorHeld
<1>13. WritesCounted'
  <2>1. \A w : Counted(w) => Counted(w)'
    <3>1. u.pc # "statement"
      BY <1>1, <1>2 DEF Moves
    <3> QED BY <1>1, <1>2, <3>1, MoveCounts
  <2>2. \A f \in 1 .. Len(files') : \A w \in files'[f] : Counted(w)'
    BY <1>8, <2>1 DEF CoreInv, WritesCounted
  <2>3. \A c \in 1 .. Len(connections') : \A w \in connections'[c].writes : Counted(w)'
    BY <1>5, <1>6, <1>7, <2>1 DEF CoreInv, WritesCounted
  <2> QED BY <2>2, <2>3 DEF WritesCounted
<1> QED BY <1>3, <1>10, <1>11, <1>12, <1>13 DEF CoreInv

\* A connection is kept, or closed.
KeptOrClosed(c) ==
  LET k == connections[c]
      r == connections'[c]
  IN  /\ r.db = k.db /\ r.file = k.file
      /\ r = k \/ (~r.open /\ r.begun = 0 /\ r.writes = {})

LEMMA QuietCore ==
  ASSUME CoreInv, NEW t \in tasks, NativeStep(t), NEW u, Moves(t, u),
         u.pc # "statement", t.pc # "connect", UNCHANGED files,
         monitor' = NoTask \/ (t.pc # "statement" /\ UNCHANGED monitor),
         misused' \subseteq Databases,
         table' \in [Databases -> 0 .. Len(connections)],
         path' \in [Databases -> 0 .. Len(files)],
         connections' \in Seq(Connections), Len(connections') = Len(connections),
         \A c \in 1 .. Len(connections) : KeptOrClosed(c)
  PROVE  CoreInv'
<1>1. TaskKinds' /\ TaskOrder' /\ PageView'
  BY MoveCore
<1>2. UNCHANGED <<page, transactions>>
  BY DEF NativeStep, pageVars
<1>3. Len(connections) \in Nat /\ Len(files) \in Nat /\ Len(transactions) \in Nat
      /\ files \in Seq(SUBSET (Nat \X Nat))
  BY DEF CoreInv, Types
<1>4. Types'
  <2>1. table' \in [Databases -> Nat] /\ path' \in [Databases -> Nat]
    BY <1>3
  <2>2. files' \in Seq(SUBSET (Nat \X Nat))
    BY <1>3
  <2> QED BY <2>1, <2>2, NativeTypes DEF Types
<1>5. Names'
  <2>1. \A d \in Databases : current'[d] <= Len(transactions')
        /\ table'[d] <= Len(connections') /\ path'[d] <= Len(files')
    <3>1. \A d \in Databases : table'[d] <= Len(connections') /\ path'[d] <= Len(files')
      BY <1>3
    <3> QED BY <3>1, NativeTypes
  <2>2. u.conn <= Len(connections)
    <3>1. u.conn = t.conn /\ t.conn <= Len(connections)
      BY DEF Moves, CoreInv, Names
    <3> QED BY <3>1
  <2>3. \A v \in tasks' : v.page <= page' /\ v.tx <= Len(transactions')
                         /\ v.conn <= Len(connections')
    BY <2>2, NativeTypes
  <2>4. ASSUME NEW c \in 1 .. Len(connections')
        PROVE  connections'[c].file <= Len(files') /\ connections'[c].begun <= Len(transactions')
    <3>1. connections[c].file \in 1 .. Len(files)
          /\ connections[c].begun \in 0 .. Len(transactions)
      BY ConnectionType
    <3> QED BY <1>2, <1>3, <3>1 DEF KeptOrClosed
  <2> QED BY <2>1, <2>3, <2>4 DEF Names
<1>6. MonitorHeld'
  <2>1. \A v \in tasks \ {t} : v \in tasks'
    BY <1>2, MovedTasks
  <2> QED BY <2>1 DEF CoreInv, MonitorHeld
<1>7. WritesCounted'
  <2>1. \A w : Counted(w) => Counted(w)'
    BY MoveCounts
  <2>2. \A f \in 1 .. Len(files') : \A w \in files'[f] : Counted(w)'
    BY <2>1 DEF CoreInv, WritesCounted
  <2>3. \A c \in 1 .. Len(connections') : \A w \in connections'[c].writes : Counted(w)'
    BY <2>1 DEF CoreInv, WritesCounted, KeptOrClosed
  <2> QED BY <2>2, <2>3 DEF WritesCounted
<1> QED BY <1>1, <1>4, <1>5, <1>6, <1>7 DEF CoreInv

\* A connection that is closed leaves the others as they are.
LEMMA DisposeKeeps ==
  ASSUME CoreInv, NEW c \in 1 .. Len(connections), Disposes(c)
  PROVE  /\ connections' \in Seq(Connections) /\ Len(connections') = Len(connections)
         /\ \A e \in 1 .. Len(connections) : KeptOrClosed(e)
         /\ \A e \in 1 .. Len(connections) : e # c => connections'[e] = connections[e]
         /\ ~connections'[c].open
<1>1. PICK k \in Connections :
        /\ connections' = [connections EXCEPT ![c] = k]
        /\ k.db = connections[c].db /\ k.file = connections[c].file
        /\ ~k.open /\ k.begun = 0 /\ k.writes = {}
  BY DEF Disposes
<1>2. /\ connections' \in Seq(Connections) /\ Len(connections') = Len(connections)
      /\ connections'[c] = k
      /\ \A e \in 1 .. Len(connections) : e # c => connections'[e] = connections[e]
  BY <1>1, ConnectionsUpdate
<1> QED BY <1>1, <1>2 DEF KeptOrClosed

LEMMA ConnectionsKept ==
  ASSUME CoreInv, UNCHANGED connections
  PROVE  /\ connections' \in Seq(Connections) /\ Len(connections') = Len(connections)
         /\ \A c \in 1 .. Len(connections) : KeptOrClosed(c)
  BY DEF CoreInv, Types, KeptOrClosed

LEMMA DictionaryTypes ==
  ASSUME CoreInv
  PROVE  table \in [Databases -> 0 .. Len(connections)] /\ path \in [Databases -> 0 .. Len(files)]
<1>1. table \in [Databases -> Nat] /\ path \in [Databases -> Nat]
  BY DEF CoreInv, Types
<1> QED BY <1>1, DatabaseType

LEMMA OtherNativeCore ==
  ASSUME CoreInv, NEW t \in tasks,
         \/ OpenLookup(t) \/ OpenSet(t) \/ CloseConnection(t) \/ DeleteFile(t)
         \/ Remove(t) \/ ExecuteNowhere(t)
  PROVE  CoreInv'
<1>1. t.db \in Databases /\ t.conn \in 0 .. Len(connections)
  BY TaskType
<1>2. table \in [Databases -> 0 .. Len(connections)] /\ path \in [Databases -> 0 .. Len(files)]
      /\ Len(connections) \in Nat /\ Len(files) \in Nat /\ misused \subseteq Databases
  BY DictionaryTypes DEF CoreInv, Types
<1>3. NativeStep(t) /\ t.pc # "connect"
  BY DEF OpenLookup, OpenSet, CloseConnection, DeleteFile, Remove, ExecuteNowhere
<1>4. CASE OpenLookup(t) \/ OpenSet(t) \/ Remove(t)
  <2>1. t.pc # "statement"
    BY <1>4 DEF OpenLookup, OpenSet, Remove
  <2>2. UNCHANGED <<monitor, misused, connections, path, files>>
    BY <1>4 DEF OpenLookup, OpenSet, Remove, sqliteVars
  <2>3. table' \in [Databases -> 0 .. Len(connections)]
    BY <1>1, <1>2, <1>4 DEF OpenLookup, OpenSet, Remove, SetObject, RemoveObject
  <2>4. PICK u : Moves(t, u)
    BY <1>4, NativeEffect DEF Native
  <2>5. u.pc # "statement"
    BY <2>1, <2>4 DEF Moves
  <2> QED BY <1>2, <1>3, <2>1, <2>2, <2>3, <2>4, <2>5, QuietCore, ConnectionsKept
<1>5. CASE CloseConnection(t) \/ DeleteFile(t)
  <2>1. t.pc # "statement"
    BY <1>5 DEF CloseConnection, DeleteFile
  <2>2. UNCHANGED <<table, monitor, misused, files>>
    BY <1>5 DEF CloseConnection, DeleteFile
  <2>3. path' \in [Databases -> 0 .. Len(files)]
    BY <1>1, <1>2, <1>5 DEF CloseConnection, DeleteFile
  <2>4. /\ connections' \in Seq(Connections) /\ Len(connections') = Len(connections)
        /\ \A c \in 1 .. Len(connections) : KeptOrClosed(c)
    <3> DEFINE c == table[t.db]
    <3>1. CASE UNCHANGED connections
      BY <3>1, ConnectionsKept
    <3>2. CASE c # 0 /\ connections' = [connections EXCEPT ![c] = Disposed(connections[c])]
      <4>1. c \in 1 .. Len(connections)
        BY <1>1, <1>2, <3>2
      <4>2. Disposes(c)
        BY <3>2, <4>1, DisposeEffect
      <4> QED BY <4>1, <4>2, DisposeKeeps
    <3> QED BY <1>5, <3>1, <3>2 DEF CloseConnection, DeleteFile, ObjectForKey
  <2>5. PICK u : Moves(t, u)
    BY <1>5, NativeEffect DEF Native
  <2>6. u.pc # "statement"
    BY <2>1, <2>5 DEF Moves
  <2> QED BY <1>2, <1>3, <2>1, <2>2, <2>3, <2>4, <2>5, <2>6, QuietCore
<1>6. CASE ExecuteNowhere(t)
  <2>1. /\ UNCHANGED <<table, connections, path, files>>
        /\ monitor' = NoTask /\ misused' = misused \cup {t.db}
    BY <1>6 DEF ExecuteNowhere, sqliteVars
  <2>2. Become(t, [t EXCEPT !.pc = "lost"]) /\ t.pc = "statement" /\ t \in TaskRecords
    BY <1>6, TaskType DEF ExecuteNowhere
  <2> DEFINE u == [t EXCEPT !.pc = "lost"]
  <2>3. Moves(t, u) /\ u.pc = "lost"
    <3>1. /\ u \in TaskRecords /\ u.id = t.id /\ u.kind = t.kind /\ u.db = t.db
          /\ u.page = t.page /\ u.tx = t.tx /\ u.conn = t.conn /\ u.pc = "lost"
      BY <2>2 DEF TaskRecords
    <3>2. Become(t, u)
      BY <2>2
    <3> HIDE DEF u
    <3> QED BY <2>2, <3>1, <3>2 DEF Moves
  <2> HIDE DEF u
  <2>4. misused' \subseteq Databases
    BY <1>1, <1>2, <2>1
  <2> QED BY <1>2, <1>3, <2>1, <2>2, <2>3, <2>4, QuietCore, ConnectionsKept
<1> QED BY <1>4, <1>5, <1>6

LEMMA OneBatch ==
  ASSUME CoreInv, NEW t \in tasks, NEW v \in tasks, t.kind = "batch", v.kind = "batch",
         t.tx = v.tx
  PROVE  t = v
  BY DEF CoreInv, TaskKinds, TaskOrder

\* Where a statement is in its batch.
LEMMA StatementOf ==
  ASSUME CoreInv, NEW t \in tasks, t.pc = "statement"
  PROVE  /\ t.kind = "batch" /\ Script(t) /\ t.sqls # <<>>
         /\ \/ /\ t.sqls = <<"BEGIN", "WRITE">> /\ Len(t.sqls) # 1
              /\ Head(t.sqls) = "BEGIN" /\ Tail(t.sqls) = <<"WRITE">>
            \/ /\ \E sql \in {"WRITE", "COMMIT", "ROLLBACK"} :
                   t.sqls = <<sql>> /\ Head(t.sqls) = sql
              /\ Len(t.sqls) = 1 /\ Tail(t.sqls) = <<>>
<1>1. t.kind = "batch" /\ Script(t)
  BY TaskType DEF CoreInv, TaskKinds
<1>2. CASE t.sqls = <<"BEGIN", "WRITE">>
  BY <1>1, <1>2, ScriptFacts
<1>3. ASSUME NEW sql \in {"WRITE", "COMMIT", "ROLLBACK"}, t.sqls = <<sql>>
      PROVE  Len(t.sqls) = 1 /\ Head(t.sqls) = sql /\ Tail(t.sqls) = <<>>
  BY <1>3
<1>4. \/ t.sqls = <<"BEGIN", "WRITE">>
      \/ \E sql \in {"WRITE", "COMMIT", "ROLLBACK"} : t.sqls = <<sql>>
  BY <1>1 DEF Script
<1>5. t.sqls # <<>>
  BY <1>1, ScriptFacts
<1> QED BY <1>1, <1>2, <1>3, <1>4, <1>5

\* What a step of a batch makes of its connection and file.
LEMMA ExecuteKeeps ==
  ASSUME CoreInv, NEW t \in tasks, NEW u, Executes(t, u)
  PROVE  LET c == table[t.db]
             k == connections[c]
             r == connections'[c]
             sql == Head(t.sqls)
             w == WriteOf(c, t)
         IN  /\ c \in 1 .. Len(connections) /\ k.file \in 1 .. Len(files)
             /\ connections' \in Seq(Connections) /\ Len(connections') = Len(connections)
             /\ files' \in Seq(SUBSET (Nat \X Nat)) /\ Len(files') = Len(files)
             /\ \A e \in 1 .. Len(connections) : e # c => connections'[e] = connections[e]
             /\ \A f \in 1 .. Len(files) : f # k.file => files'[f] = files[f]
             /\ r.db = k.db /\ r.file = k.file /\ r.open = k.open
             /\ \/ /\ sql = "BEGIN" /\ k.begun = 0 /\ u.error = t.error
                   /\ r.begun = t.tx /\ r.writes = k.writes
                   /\ files'[k.file] = files[k.file]
                \/ /\ sql = "WRITE" /\ k.begun # 0 /\ u.error = t.error
                   /\ r.begun = k.begun /\ r.writes = k.writes \cup {w}
                   /\ files'[k.file] = files[k.file]
                \/ /\ sql = "WRITE" /\ k.begun = 0 /\ u.error = t.error
                   /\ r = k /\ files'[k.file] = files[k.file] \cup {w}
                \/ /\ sql = "COMMIT" /\ k.begun # 0 /\ u.error = t.error
                   /\ r.begun = 0 /\ r.writes = {}
                   /\ files'[k.file] = files[k.file] \cup k.writes
                \/ /\ sql = "ROLLBACK" /\ k.begun # 0 /\ u.error = t.error
                   /\ r.begun = 0 /\ r.writes = {}
                   /\ files'[k.file] = files[k.file]
                \/ /\ sql = "COMMIT" /\ k.begun # 0 /\ u.error = TRUE
                   /\ r.begun = 0 /\ r.writes = {}
                   /\ files'[k.file] = files[k.file]
                \/ /\ u.error = TRUE /\ r = k /\ files'[k.file] = files[k.file]
                   /\ \/ sql = "BEGIN" /\ k.begun # 0
                      \/ sql = "WRITE" \/ sql = "COMMIT"
                      \/ sql = "ROLLBACK" /\ k.begun = 0
<1> DEFINE c == table[t.db]
           k == connections[c]
           f == k.file
           w == WriteOf(c, t)
<1>1. c \in 1 .. Len(connections)
  <2>1. c \in 0 .. Len(connections) /\ Len(connections) \in Nat
    BY TaskType, DatabaseType
  <2> QED BY <2>1 DEF Executes
<1>2. k \in Connections /\ f \in 1 .. Len(files) /\ k.writes \in SUBSET (Nat \X Nat)
  BY <1>1, ConnectionType
<1>3. w \in Nat \X Nat
  BY <1>1, WriteOfType
<1>4. connections \in Seq(Connections) /\ files \in Seq(SUBSET (Nat \X Nat))
  BY DEF CoreInv, Types
<1> HIDE DEF c, f, k, w
<1>5. CASE Effect(c, t) /\ u.error = t.error
  <2>1. Effects(c, t)
    BY <1>1, <1>5, EffectEffect
  <2>2. PICK r \in Connections :
          /\ r.db = k.db /\ r.file = k.file /\ r.open = k.open
          /\ connections' = [connections EXCEPT ![c] = r]
          /\ \/ /\ Head(t.sqls) = "BEGIN" /\ k.begun = 0
                /\ r.begun = t.tx /\ r.writes = k.writes /\ files' = files
             \/ /\ Head(t.sqls) = "WRITE" /\ k.begun # 0
                /\ r.begun = k.begun /\ r.writes = k.writes \cup {w} /\ files' = files
             \/ /\ Head(t.sqls) = "WRITE" /\ k.begun = 0
                /\ r = k
                /\ files' = [files EXCEPT ![f] = @ \cup {w}]
             \/ /\ Head(t.sqls) = "COMMIT" /\ k.begun # 0
                /\ r.begun = 0 /\ r.writes = {}
                /\ files' = [files EXCEPT ![f] = @ \cup k.writes]
             \/ /\ Head(t.sqls) = "ROLLBACK" /\ k.begun # 0
                /\ r.begun = 0 /\ r.writes = {} /\ files' = files
    BY <2>1 DEF Effects, k, f, w
  <2>3. /\ connections' \in Seq(Connections) /\ Len(connections') = Len(connections)
        /\ connections'[c] = r
        /\ \A e \in 1 .. Len(connections) : e # c => connections'[e] = connections[e]
    BY <1>1, <2>2, ConnectionsUpdate
  <2>4. CASE /\ files' = files
             /\ \/ /\ Head(t.sqls) = "BEGIN" /\ k.begun = 0
                   /\ r.begun = t.tx /\ r.writes = k.writes
                \/ /\ Head(t.sqls) = "WRITE" /\ k.begun # 0
                   /\ r.begun = k.begun /\ r.writes = k.writes \cup {w}
                \/ /\ Head(t.sqls) = "ROLLBACK" /\ k.begun # 0
                   /\ r.begun = 0 /\ r.writes = {}
    <3>1. /\ files' \in Seq(SUBSET (Nat \X Nat)) /\ Len(files') = Len(files)
          /\ files'[f] = files[f]
          /\ \A e \in 1 .. Len(files) : e # f => files'[e] = files[e]
      BY <1>4, <2>4
    <3> QED BY <1>1, <1>2, <1>5, <2>2, <2>3, <2>4, <3>1 DEF c, k, f, w
  <2>5. CASE Head(t.sqls) = "WRITE" /\ k.begun = 0 /\ r = k
             /\ files' = [files EXCEPT ![f] = @ \cup {w}]
    <3>1. {w} \in SUBSET (Nat \X Nat)
      BY <1>3
    <3>2. /\ files' \in Seq(SUBSET (Nat \X Nat)) /\ Len(files') = Len(files)
          /\ files'[f] = files[f] \cup {w}
          /\ \A e \in 1 .. Len(files) : e # f => files'[e] = files[e]
      BY <1>2, <2>5, <3>1, FilesUpdate
    <3> QED BY <1>1, <1>2, <1>5, <2>2, <2>3, <2>5, <3>2 DEF c, k, f, w
  <2>6. CASE Head(t.sqls) = "COMMIT" /\ k.begun # 0 /\ r.begun = 0 /\ r.writes = {}
             /\ files' = [files EXCEPT ![f] = @ \cup k.writes]
    <3>1. /\ files' \in Seq(SUBSET (Nat \X Nat)) /\ Len(files') = Len(files)
          /\ files'[f] = files[f] \cup k.writes
          /\ \A e \in 1 .. Len(files) : e # f => files'[e] = files[e]
      BY <1>2, <2>6, FilesUpdate
    <3> QED BY <1>1, <1>2, <1>5, <2>2, <2>3, <2>6, <3>1 DEF c, k, f, w
  <2> QED BY <2>2, <2>4, <2>5, <2>6
<1>6. CASE Refused(c, Head(t.sqls)) /\ u.error = TRUE /\ UNCHANGED <<connections, files>>
  <2>1. \/ Head(t.sqls) = "BEGIN" /\ k.begun # 0
        \/ Head(t.sqls) = "WRITE" \/ Head(t.sqls) = "COMMIT"
        \/ Head(t.sqls) = "ROLLBACK" /\ k.begun = 0
    BY <1>6 DEF Refused, k
  <2> QED BY <1>1, <1>2, <1>4, <1>6, <2>1 DEF c, k, f, w
<1>7. CASE Undone(c, Head(t.sqls)) /\ u.error = TRUE
  <2> DEFINE r == [k EXCEPT !.begun = 0, !.writes = {}]
  <2>1. connections' = [connections EXCEPT ![c] = r] /\ files' = files
    BY <1>1, <1>4, <1>7 DEF Undone, k
  <2>2. /\ r \in Connections /\ r.db = k.db /\ r.file = k.file /\ r.open = k.open
        /\ r.begun = 0 /\ r.writes = {}
    BY <1>2 DEF Connections
  <2>3. Head(t.sqls) = "COMMIT" /\ k.begun # 0
    BY <1>7 DEF Undone, k
  <2> HIDE DEF r
  <2>4. /\ connections' \in Seq(Connections) /\ Len(connections') = Len(connections)
        /\ connections'[c] = r
        /\ \A e \in 1 .. Len(connections) : e # c => connections'[e] = connections[e]
    BY <1>1, <2>1, <2>2, ConnectionsUpdate
  <2> QED BY <1>1, <1>2, <1>4, <1>7, <2>1, <2>2, <2>3, <2>4 DEF c, k, f, w
<1> QED BY <1>5, <1>6, <1>7 DEF Executes, c

LEMMA ExecuteCore ==
  ASSUME CoreInv, NEW t \in tasks, ExecuteSql(t)
  PROVE  CoreInv'
<1> DEFINE c == table[t.db]
           k == connections[c]
<1>0. PICK w : w = WriteOf(c, t)
  OBVIOUS
<1>1. PICK u : Executes(t, u)
  BY ExecuteEffect
<1>2. NativeStep(t) /\ Moves(t, u) /\ t.pc = "statement"
  BY <1>1 DEF Executes
<1>3. TaskKinds' /\ TaskOrder' /\ PageView'
  BY <1>2, MoveCore
<1>4. UNCHANGED <<platform, page, transactions, table, path, misused>>
  BY <1>1, <1>2 DEF NativeStep, pageVars, Executes
<1>5. /\ c \in 1 .. Len(connections) /\ k.file \in 1 .. Len(files)
      /\ connections' \in Seq(Connections) /\ Len(connections') = Len(connections)
      /\ files' \in Seq(SUBSET (Nat \X Nat)) /\ Len(files') = Len(files)
      /\ \A e \in 1 .. Len(connections) : e # c => connections'[e] = connections[e]
      /\ \A f \in 1 .. Len(files) : f # k.file => files'[f] = files[f]
  BY <1>1, ExecuteKeeps
<1>6. connections'[c].file = k.file /\ connections'[c].begun \in {0, k.begun, t.tx}
      /\ connections'[c].writes \subseteq k.writes \cup (IF Head(t.sqls) = "WRITE" THEN {w} ELSE {})
      /\ files'[k.file] \subseteq files[k.file] \cup k.writes
                                 \cup (IF Head(t.sqls) = "WRITE" THEN {w} ELSE {})
  BY <1>0, <1>1, ExecuteKeeps
<1>7. Types'
  <2>1. misused' \subseteq Databases /\ table' \in [Databases -> Nat]
        /\ path' \in [Databases -> Nat]
    BY <1>4 DEF CoreInv, Types
  <2> QED BY <1>2, <1>5, <2>1, NativeTypes DEF Types
<1>8. Names'
  <2>1. \A d \in Databases : current'[d] <= Len(transactions')
        /\ table'[d] <= Len(connections') /\ path'[d] <= Len(files')
    <3>1. \A d \in Databases : table[d] <= Len(connections) /\ path[d] <= Len(files)
      BY DEF CoreInv, Names
    <3>2. \A d \in Databases : current'[d] <= Len(transactions')
      BY <1>2, <1>4, NativeTypes DEF CoreInv, Types
    <3> QED BY <1>4, <1>5, <3>1, <3>2
  <2>2. u.conn <= Len(connections)
    <3>1. u.conn = t.conn /\ t.conn <= Len(connections)
      BY <1>2 DEF Moves, CoreInv, Names
    <3> QED BY <3>1
  <2>3. \A v \in tasks' : v.page <= page' /\ v.tx <= Len(transactions')
                         /\ v.conn <= Len(connections')
    <3>1. misused' \subseteq Databases
      BY <1>4 DEF CoreInv, Types
    <3> QED BY <1>2, <1>5, <2>2, <3>1, NativeTypes
  <2>4. ASSUME NEW e \in 1 .. Len(connections')
        PROVE  connections'[e].file <= Len(files') /\ connections'[e].begun <= Len(transactions')
    <3>1. connections[e].file \in 1 .. Len(files)
          /\ connections[e].begun \in 0 .. Len(transactions) /\ Len(transactions) \in Nat
          /\ Len(files) \in Nat
      BY <1>5, ConnectionType DEF CoreInv, Types
    <3>2. t.tx \in 0 .. Len(transactions)
      BY TaskType
    <3>3. CASE e = c
      BY <1>4, <1>5, <1>6, <3>1, <3>2, <3>3
    <3>4. CASE e # c
      BY <1>4, <1>5, <3>1, <3>4
    <3> QED BY <3>3, <3>4
  <2> QED BY <2>1, <2>3, <2>4 DEF Names
<1>9. MonitorHeld'
  <2>1. monitor' # NoTask => monitor' = t.id /\ u.pc = "statement"
    BY <1>1 DEF Executes
  <2>2. u.pc = "statement" => u \in tasks'
    BY <1>2, <1>4, MovedTasks DEF Running
  <2>3. u.id = t.id
    BY <1>2 DEF Moves
  <2> QED BY <2>1, <2>2, <2>3 DEF MonitorHeld
<1>10. \A v \in tasks' : v = u \/ v \in tasks \ {t}
  BY <1>2, <1>4, MovedTasks
<1>11. ASSUME NEW x, Counted(x) PROVE Counted(x)'
  <2>1. PendingWrite(u) => PendingWrite(t)
    BY <1>1, <1>2, StatementOf DEF PendingWrite, Executes
  <2>2. u.tx = t.tx
    BY <1>2 DEF Moves
  <2> QED BY <1>4, <1>10, <1>11, <2>1, <2>2 DEF Counted, PendingWrite, TransactionIds
<1>12. ASSUME Head(t.sqls) = "WRITE" PROVE Counted(w)'
  <2>1. t.sqls = <<"WRITE">> /\ Len(t.sqls) = 1 /\ t.kind = "batch"
    BY <1>2, <1>12, StatementOf
  <2>2. PendingWrite(t)
    BY <1>2, <2>1 DEF PendingWrite
  <2>3. w[2] \in 1 .. transactions[t.tx].writes /\ w[1] = t.tx
    <3>1. w[2] \in 1 .. transactions[t.tx].writes
      BY <1>0, <1>5, <2>1, <2>2, WriteOfType
    <3>2. w[1] = t.tx
      BY <1>0 DEF WriteOf
    <3> QED BY <3>1, <3>2
  <2>4. ~PendingWrite(u)
    BY <1>1, <2>1 DEF Executes, PendingWrite
  <2>5. \A v \in tasks \ {t} : PendingWrite(v) => v.tx # t.tx
    BY <2>1, OneBatch, TaskType DEF PendingWrite
  <2>6. t.tx \in TransactionIds
    BY <2>1, TaskType
  <2> QED BY <1>4, <1>10, <2>3, <2>4, <2>5, <2>6 DEF Counted, PendingWrite, TransactionIds
<1>13. WritesCounted'
  <2>1. \A x \in k.writes \cup (IF Head(t.sqls) = "WRITE" THEN {w} ELSE {}) : Counted(x)'
    BY <1>5, <1>11, <1>12 DEF CoreInv, WritesCounted
  <2>2. \A f \in 1 .. Len(files') : \A x \in files'[f] : Counted(x)'
    <3>1. ASSUME NEW f \in 1 .. Len(files'), NEW x \in files'[f] PROVE Counted(x)'
      <4>1. CASE f # k.file
        BY <1>5, <1>11, <3>1, <4>1 DEF CoreInv, WritesCounted
      <4>2. CASE f = k.file /\ x \in files[f]
        BY <1>5, <1>11, <3>1, <4>2 DEF CoreInv, WritesCounted
      <4> QED BY <1>6, <2>1, <3>1, <4>1, <4>2
    <3> QED BY <3>1
  <2>3. \A e \in 1 .. Len(connections') : \A x \in connections'[e].writes : Counted(x)'
    <3>1. ASSUME NEW e \in 1 .. Len(connections'), NEW x \in connections'[e].writes
          PROVE  Counted(x)'
      <4>1. CASE e # c
        BY <1>5, <1>11, <3>1, <4>1 DEF CoreInv, WritesCounted
      <4>2. CASE e = c
        BY <1>6, <2>1, <3>1, <4>2
      <4> QED BY <4>1, <4>2
    <3> QED BY <3>1
  <2> QED BY <2>2, <2>3 DEF WritesCounted
<1> QED BY <1>3, <1>7, <1>8, <1>9, <1>13 DEF CoreInv

-----------------------------------------------------------------------------
(* The core invariant holds, and with it the type invariant. *)

LEMMA InitCore == Init => CoreInv
<1> SUFFICES ASSUME Init PROVE CoreInv
  OBVIOUS
<1>1. /\ platform \in Platforms /\ page = 1 /\ asked = {} /\ overlap = {} /\ misused = {}
      /\ handle = [d \in Databases |-> Closed] /\ current = [d \in Databases |-> 0]
      /\ transactions = <<>> /\ tasks = {} /\ monitor = NoTask
      /\ table = [d \in Databases |-> 0] /\ path = [d \in Databases |-> 0]
      /\ connections = <<>> /\ files = <<>>
  BY DEF Init
<1>2. Len(transactions) = 0 /\ Len(connections) = 0 /\ Len(files) = 0
  BY <1>1
<1>3. TransactionIds = {}
  BY <1>2 DEF TransactionIds
<1>4. Types
  BY <1>1 DEF Types, Closed
<1>5. Names
  BY <1>1, <1>2 DEF Names
<1>6. TaskKinds /\ MonitorHeld /\ TaskOrder
  BY <1>1 DEF TaskKinds, MonitorHeld, TaskOrder
<1>7. PageView
  BY <1>1, <1>3 DEF PageView, Closed
<1>8. WritesCounted
  BY <1>1, <1>2 DEF WritesCounted
<1> QED BY <1>4, <1>5, <1>6, <1>7, <1>8 DEF CoreInv

LEMMA CoreStep ==
  ASSUME CoreInv, [Next]_vars PROVE CoreInv'
<1>1. ASSUME NEW d \in Databases, Open(d) \/ Close(d) \/ Delete(d) PROVE CoreInv'
  BY <1>1, CallEffect, CallCore
<1>2. ASSUME NEW d \in Databases, NEW locked \in BOOLEAN, Transact(d, locked) PROVE CoreInv'
  BY <1>2, TransactEffect, TransactCore
<1>3. ASSUME NEW t \in tasks, Native(t) PROVE CoreInv'
  BY <1>3, ConnectCore, OtherNativeCore, ExecuteCore DEF Native
<1>4. ASSUME NEW t \in tasks, Answer(t) PROVE CoreInv'
  <2>1. CASE t.kind = "batch"
    <3>1. /\ Proceeds(t) \/ Reports(t)
          /\ t.pc = "done"
          /\ UNCHANGED <<platform, page, handle, asked, calls, table, monitor, crashed,
                         sqliteVars, history>>
      BY <1>4, <2>1, AnswerEffect
    <3> QED BY <2>1, <3>1, ProceedCore, ReportCore
  <2> QED BY <1>4, <2>1, CallAnswerCore
<1>5. CASE UNCHANGED vars
  <2>1. UNCHANGED <<platform, page, handle, asked, current, transactions, tasks, table,
                    monitor, connections, path, files, overlap, misused>>
    BY <1>5 DEF vars, pageVars, nativeVars, sqliteVars, history
  <2>2. Types' /\ Names' /\ TaskKinds' /\ MonitorHeld'
    BY <2>1 DEF CoreInv, Types, Names, TaskKinds, MonitorHeld, Script, TransactionIds
  <2>3. TaskOrder' /\ PageView' /\ WritesCounted'
    BY <2>1 DEF CoreInv, TaskOrder, PageView, WritesCounted, Counted, PendingWrite,
                Running, TransactionIds
  <2> QED BY <2>2, <2>3 DEF CoreInv
<1> QED BY <1>1, <1>2, <1>3, <1>4, <1>5, ReloadCore DEF Next

LEMMA CoreHolds == Spec => []CoreInv
<1>1. CoreInv /\ [Next]_vars => CoreInv'
  BY CoreStep
<1> QED BY InitCore, <1>1, PTL DEF Spec

\* Tasks, connections, files and transactions that are named exist, only a batch
\* is inside @synchronized, and no transaction writes more than it counts: the
\* type invariant of the table and of what uses it.
THEOREM TypesOfTheTable == Spec => []TypeOK
<1>1. CoreInv => TypeOK
  <2> SUFFICES ASSUME CoreInv PROVE TypeOK
    OBVIOUS
  <2>1. /\ platform \in Platforms
        /\ handle \in [Databases -> {Closed, "init", "open"}]
        /\ asked \subseteq Databases /\ overlap \subseteq Databases /\ misused \subseteq Databases
        /\ current \in [Databases -> Nat]
    BY DEF CoreInv, Types
  <2>2. current \in [Databases -> 0 .. Len(transactions)]
    BY <2>1, DatabaseType
  <2>3. table \in [Databases -> 0 .. Len(connections)] /\ path \in [Databases -> 0 .. Len(files)]
    BY DictionaryTypes
  <2>4. tasks \subseteq Tasks
    <3> SUFFICES ASSUME NEW t \in tasks PROVE t \in Tasks
      OBVIOUS
    <3>1. t \in TaskRecords /\ t.page \in 1 .. page
          /\ t.conn \in 0 .. Len(connections) /\ t.tx \in 0 .. Len(transactions)
      BY TaskType
    <3> QED BY <3>1 DEF TaskRecords, Tasks
  <2>5. monitor # NoTask => \E t \in tasks : t.id = monitor /\ t.kind = "batch"
    BY TaskType DEF CoreInv, MonitorHeld
  <2>6. ASSUME NEW w \in Nat \X Nat, Counted(w) PROVE w \in Writes
    <3>1. w[1] \in TransactionIds /\ w[2] \in 1 .. transactions[w[1]].writes
      BY <2>6 DEF Counted
    <3>2. w[2] \in 1 .. 2 /\ w = <<w[1], w[2]>>
      BY <3>1, TransactionType
    <3> QED BY <3>1, <3>2 DEF Writes
  <2>7. ASSUME NEW c \in 1 .. Len(connections)
        PROVE  /\ connections[c].file \in 1 .. Len(files)
               /\ connections[c].begun \in 0 .. Len(transactions)
               /\ connections[c].writes \subseteq Writes
    BY <2>6, ConnectionType DEF CoreInv, WritesCounted
  <2>8. ASSUME NEW f \in 1 .. Len(files) PROVE files[f] \subseteq Writes
    <3>1. files[f] \subseteq Nat \X Nat
      BY DEF CoreInv, Types
    <3> QED BY <2>6, <3>1 DEF CoreInv, WritesCounted
  <2> QED BY <2>1, <2>2, <2>3, <2>4, <2>5, <2>7, <2>8 DEF TypeOK
<1> QED BY <1>1, CoreHolds, PTL

-----------------------------------------------------------------------------
(* One task for a database, unless calls of two pages overlapped. *)

UsedByPage(d) ==
  \E i \in TransactionIds : transactions[i].db = d /\ transactions[i].page = page

Alone ==
  \A d \in Databases \ overlap :
    /\ \A t, u \in tasks : t.db = d /\ u.db = d => t = u
    /\ handle[d] = "open" \/ UsedByPage(d) => \A t \in tasks : t.db = d => t.page = page

\* A call that is no overlap is the first for its database.
LEMMA NoTaskThen ==
  ASSUME CoreInv, NEW d \in Databases, d \notin asked, current[d] = 0, NoteOverlap(d),
         d \notin overlap'
  PROVE  \A t \in tasks : t.db # d
<1> SUFFICES ASSUME NEW t \in tasks, t.db = d PROVE FALSE
  OBVIOUS
<1>1. ~(t.page # page /\ Running(t))
  BY DEF NoteOverlap
<1>2. t.page = page
  BY <1>1 DEF CoreInv, TaskOrder
<1>3. IF t.kind = "batch" THEN current[t.db] = t.tx ELSE t.db \in asked
  BY <1>2 DEF CoreInv, PageView
<1>4. t.kind = "batch" => t.tx # 0
  BY TaskType DEF TransactionIds
<1> QED BY <1>3, <1>4

LEMMA OverlapGrows ==
  ASSUME NEW d \in Databases, NoteOverlap(d)
  PROVE  overlap \subseteq overlap' /\ \A e \in overlap' : e \in overlap \/ e = d
  BY DEF NoteOverlap

LEMMA AloneStep ==
  ASSUME CoreInv, Alone, [Next]_vars PROVE Alone'
<1>1. ASSUME NEW d \in Databases, Open(d) \/ Close(d) \/ Delete(d) PROVE Alone'
  <2>1. Calls(d)
    BY <1>1, CallEffect
  <2>2. /\ d \notin asked /\ current[d] = 0 /\ NoteOverlap(d)
        /\ UNCHANGED <<page, transactions>>
        /\ handle'[d] # "open" /\ \A e \in Databases : e # d => handle'[e] = handle[e]
    BY <2>1 DEF Calls
  <2>3. \A e \in Databases : UsedByPage(e)' <=> UsedByPage(e)
    BY <2>2 DEF UsedByPage, TransactionIds
  <2>4. d \notin overlap' => \A t \in tasks : t.db # d
    BY <2>2, NoTaskThen
  <2>5. overlap \subseteq overlap'
    BY <2>2, OverlapGrows
  <2>6. CASE UNCHANGED tasks
    BY <2>2, <2>3, <2>4, <2>5, <2>6 DEF Alone
  <2>7. ASSUME NEW v, tasks' = tasks \cup {v}, v.db = d, v.page = page PROVE Alone'
    BY <2>2, <2>3, <2>4, <2>5, <2>7 DEF Alone
  <2> QED BY <2>1, <2>6, <2>7 DEF Calls
<1>2. ASSUME NEW d \in Databases, NEW locked \in BOOLEAN, Transact(d, locked) PROVE Alone'
  <2>1. Transacts(d)
    BY <1>2, TransactEffect
  <2>2. /\ current[d] = 0 /\ NoteOverlap(d) /\ UNCHANGED <<page, handle>>
        /\ handle[d] = "open"
    BY <2>1 DEF Transacts
  <2>3. d \notin asked
    BY <2>2 DEF CoreInv, PageView
  <2>4. PICK x \in Transactions, v \in TaskRecords :
          /\ transactions' = Append(transactions, x) /\ x.db = d
          /\ tasks' = tasks \cup {v} /\ v.db = d /\ v.page = page
    BY <2>1 DEF Transacts
  <2>5. \A e \in Databases : e # d /\ UsedByPage(e)' => UsedByPage(e)
    <3>1. /\ Len(transactions') = Len(transactions) + 1 /\ Len(transactions) \in Nat
          /\ transactions'[Len(transactions) + 1] = x
          /\ \A j \in 1 .. Len(transactions) : transactions'[j] = transactions[j]
      BY <2>4 DEF CoreInv, Types
    <3> SUFFICES ASSUME NEW e \in Databases, e # d, UsedByPage(e)' PROVE UsedByPage(e)
      OBVIOUS
    <3>2. PICK j \in 1 .. Len(transactions') : transactions'[j].db = e /\ transactions'[j].page = page
      BY <2>2 DEF UsedByPage, TransactionIds
    <3>3. j # Len(transactions) + 1
      BY <2>4, <3>1, <3>2
    <3>4. j \in 1 .. Len(transactions)
      BY <3>1, <3>3
    <3> QED BY <3>1, <3>2, <3>4 DEF UsedByPage, TransactionIds
  <2>6. d \notin overlap' => \A t \in tasks : t.db # d
    BY <2>2, <2>3, NoTaskThen
  <2>7. overlap \subseteq overlap'
    BY <2>2, OverlapGrows
  <2> QED BY <2>2, <2>4, <2>5, <2>6, <2>7 DEF Alone
<1>3. ASSUME NEW t \in tasks, Native(t) PROVE Alone'
  <2>1. NativeStep(t)
    BY <1>3, NativeEffect
  <2>2. PICK u : Moves(t, u)
    BY <1>3, NativeEffect
  <2>3. UNCHANGED <<page, handle, transactions, overlap>>
    BY <2>1 DEF NativeStep, pageVars
  <2>4. \A v \in tasks' : v = u \/ v \in tasks \ {t}
    BY <2>2, <2>3, MovedTasks
  <2>5. u.db = t.db /\ u.page = t.page
    BY <2>2 DEF Moves
  <2>6. \A e \in Databases : UsedByPage(e)' <=> UsedByPage(e)
    BY <2>3 DEF UsedByPage, TransactionIds
  <2> QED BY <2>3, <2>4, <2>5, <2>6 DEF Alone
<1>4. ASSUME NEW t \in tasks, Answer(t) PROVE Alone'
  <2>1. CASE t.kind # "batch"
    <3>1. /\ t.pc = "done" /\ tasks' = tasks \ {t} /\ UNCHANGED <<page, transactions, overlap>>
          /\ handle' = IF t.kind = "open" THEN [handle EXCEPT ![t.db] = "open"] ELSE handle
      BY <1>4, <2>1 DEF Answer, history
    <3>2. \A e \in Databases : UsedByPage(e)' <=> UsedByPage(e)
      BY <3>1 DEF UsedByPage, TransactionIds
    <3>3. \A d \in Databases : d # t.db => handle'[d] = handle[d]
      BY <3>1, TaskType DEF CoreInv, Types
    <3> QED BY <3>1, <3>2, <3>3 DEF Alone
  <2>2. CASE t.kind = "batch"
    <3>1. /\ Proceeds(t) \/ Reports(t)
          /\ t.pc = "done" /\ UNCHANGED <<page, handle, overlap>>
      BY <1>4, <2>2, AnswerEffect DEF history
    <3>2. t.page = page /\ t.tx \in TransactionIds /\ transactions[t.tx].db = t.db
          /\ transactions[t.tx].page = page
      BY <2>2, <3>1, AnsweredTask
    <3>3. PICK y \in Transactions :
            /\ transactions' = [transactions EXCEPT ![t.tx] = y]
            /\ y.db = transactions[t.tx].db /\ y.page = transactions[t.tx].page
      BY <3>1 DEF Proceeds, Reports
    <3>4. /\ Len(transactions') = Len(transactions)
          /\ \A j \in TransactionIds : /\ transactions'[j].db = transactions[j].db
                                     /\ transactions'[j].page = transactions[j].page
      BY <3>2, <3>3 DEF CoreInv, Types, TransactionIds
    <3>5. \A e \in Databases : UsedByPage(e)' <=> UsedByPage(e)
      BY <3>1, <3>4 DEF UsedByPage, TransactionIds
    <3>6. CASE tasks' = tasks \ {t}
      BY <3>1, <3>5, <3>6 DEF Alone
    <3>7. ASSUME NEW v, tasks' = (tasks \ {t}) \cup {v}, v.db = t.db, v.page = page PROVE Alone'
      BY <3>1, <3>2, <3>5, <3>7 DEF Alone
    <3> QED BY <3>1, <3>6, <3>7 DEF Proceeds, Reports
  <2> QED BY <2>1, <2>2
<1>5. CASE Reload
  <2>1. /\ UNCHANGED <<transactions, overlap>> /\ page' = page + 1
        /\ handle' = [d \in Databases |-> Closed]
        /\ tasks' = {t \in tasks : Running(t)}
    BY <1>5 DEF Reload, history
  <2>2. \A i \in TransactionIds : transactions[i].page # page'
    <3> TAKE i \in TransactionIds
    <3>1. transactions[i].page \in Nat /\ transactions[i].page <= page /\ page \in Nat
      BY TransactionType DEF CoreInv, Types
    <3> QED BY <3>1, <2>1
  <2>3. \A d \in Databases : handle'[d] # "open" /\ ~UsedByPage(d)'
    BY <2>1, <2>2 DEF Closed, UsedByPage, TransactionIds
  <2> QED BY <2>1, <2>3 DEF Alone
<1>6. CASE UNCHANGED vars
  BY <1>6 DEF vars, pageVars, nativeVars, sqliteVars, history, Alone, UsedByPage, TransactionIds
<1> QED BY <1>1, <1>2, <1>3, <1>4, <1>5, <1>6 DEF Next

-----------------------------------------------------------------------------
(* The connection in the table. *)

\* A connection is that of its database.
Dictionary ==
  /\ \A d \in Databases : table[d] # 0 => connections[table[d]].db = d
  /\ \A t \in tasks : t.pc = "set" => t.conn # 0 /\ connections[t.conn].db = t.db

\* Unless calls of two pages overlapped, a closed connection is in the table only
\* while it is about to be removed, there is one for whoever needs it, and none
\* when one is being made.
ReadyAt(d) ==
  /\ table[d] # 0 => \/ connections[table[d]].open
                    \/ \E t \in tasks : t.db = d /\ t.pc = "remove"
  /\ handle[d] = "open" => table[d] # 0
  /\ \A t \in tasks : t.db = d =>
       /\ t.pc = "statement" => table[d] # 0
       /\ t.kind = "open" /\ t.pc = "done" => table[d] # 0
       /\ t.pc \in {"connect", "set"} => table[d] = 0
       /\ t.pc = "set" => connections[t.conn].open /\ connections[t.conn].begun = 0
       /\ t.pc = "remove" => \/ table[d] = 0
                            \/ ~connections[table[d]].open
                            \/ path[d] = 0

Ready == \A d \in Databases \ overlap : ReadyAt(d)

\* What a native step does to connections other than the one in the table, and
\* to other databases: nothing.
LEMMA NativeOthers ==
  ASSUME CoreInv, NEW t \in tasks, Native(t)
  PROVE  /\ Len(connections) \in Nat /\ Len(connections') \in Nat
         /\ Len(connections) <= Len(connections')
         /\ \A c \in 1 .. Len(connections) :
              /\ connections'[c].db = connections[c].db
              /\ connections'[c].file = connections[c].file
              /\ c # table[t.db] => connections'[c] = connections[c]
         /\ \A d \in Databases : d # t.db => table'[d] = table[d] /\ path'[d] = path[d]
<1> DEFINE c == table[t.db]
<1>1. t.db \in Databases /\ c \in 0 .. Len(connections) /\ Len(connections) \in Nat
  BY TaskType, DatabaseType
<1>2. connections \in Seq(Connections) /\ table \in [Databases -> Nat] /\ path \in [Databases -> Nat]
  BY DEF CoreInv, Types
<1>3. CASE OpenLookup(t) \/ OpenSet(t) \/ Remove(t) \/ ExecuteNowhere(t)
  <2>1. UNCHANGED <<connections, path>>
    BY <1>3 DEF OpenLookup, OpenSet, Remove, ExecuteNowhere, sqliteVars
  <2>2. \A d \in Databases : d # t.db => table'[d] = table[d]
    BY <1>2, <1>3 DEF OpenLookup, OpenSet, Remove, ExecuteNowhere, SetObject, RemoveObject
  <2> QED BY <1>1, <2>1, <2>2
<1>4. CASE OpenConnect(t)
  <2>1. UNCHANGED table
    BY <1>4, ConnectEffect
  <2>2. PICK k \in Connections : connections' = Append(connections, k)
                                /\ path' = [path EXCEPT ![t.db] = k.file]
    BY <1>4, ConnectEffect DEF Connects
  <2>3. /\ Len(connections') = Len(connections) + 1
        /\ \A e \in 1 .. Len(connections) : connections'[e] = connections[e]
    BY <1>2, <2>2
  <2>4. \A d \in Databases : d # t.db => path'[d] = path[d]
    BY <1>2, <2>2
  <2> QED BY <1>1, <2>1, <2>3, <2>4
<1>5. CASE CloseConnection(t) \/ DeleteFile(t)
  <2>1. UNCHANGED table /\ \A d \in Databases : d # t.db => path'[d] = path[d]
    BY <1>2, <1>5 DEF CloseConnection, DeleteFile
  <2>2. CASE UNCHANGED connections
    BY <1>1, <2>1, <2>2
  <2>3. CASE c # 0 /\ connections' = [connections EXCEPT ![c] = Disposed(connections[c])]
    <3>1. c \in 1 .. Len(connections)
      BY <1>1, <2>3
    <3>2. Disposes(c)
      BY <2>3, <3>1, DisposeEffect
    <3> QED BY <1>1, <2>1, <3>1, <3>2, DisposeKeeps DEF KeptOrClosed
  <2> QED BY <1>5, <2>2, <2>3 DEF CloseConnection, DeleteFile, ObjectForKey
<1>6. CASE ExecuteSql(t)
  <2>1. PICK u : Executes(t, u)
    BY <1>6, ExecuteEffect
  <2>2. UNCHANGED <<table, path>>
    BY <2>1 DEF Executes
  <2>3. /\ Len(connections') = Len(connections)
        /\ \A e \in 1 .. Len(connections) : e # c => connections'[e] = connections[e]
        /\ connections'[c].db = connections[c].db /\ connections'[c].file = connections[c].file
    BY <2>1, ExecuteKeeps
  <2> QED BY <1>1, <2>2, <2>3
<1> QED BY <1>3, <1>4, <1>5, <1>6 DEF Native

\* The steps of the page leave what is native as it is.
LEMMA PageSteps ==
  ASSUME CoreInv,
         \/ Reload \/ UNCHANGED vars
         \/ \E d \in Databases :
              \/ Open(d) \/ Close(d) \/ Delete(d)
              \/ \E locked \in BOOLEAN : Transact(d, locked)
         \/ \E t \in tasks : Answer(t)
  PROVE  UNCHANGED <<platform, table, monitor, crashed, connections, path, files, misused>>
<1>1. ASSUME NEW d \in Databases, Open(d) \/ Close(d) \/ Delete(d)
      PROVE  UNCHANGED <<platform, table, monitor, crashed, connections, path, files, misused>>
  BY <1>1, CallEffect DEF Calls, sqliteVars
<1>2. ASSUME NEW d \in Databases, NEW locked \in BOOLEAN, Transact(d, locked)
      PROVE  UNCHANGED <<platform, table, monitor, crashed, connections, path, files, misused>>
  BY <1>2 DEF Transact, sqliteVars
<1>3. ASSUME NEW t \in tasks, Answer(t)
      PROVE  UNCHANGED <<platform, table, monitor, crashed, connections, path, files, misused>>
  BY <1>3 DEF Answer, sqliteVars, history
<1> QED BY <1>1, <1>2, <1>3 DEF Reload, vars, nativeVars, sqliteVars, history

LEMMA DictionaryStep ==
  ASSUME CoreInv, Dictionary, [Next]_vars PROVE Dictionary'
<1>1. ASSUME UNCHANGED <<table, connections>>, \A v \in tasks' : v \in tasks \/ v.pc # "set"
      PROVE  Dictionary'
  BY <1>1 DEF Dictionary
<1>2. ASSUME NEW d \in Databases, Open(d) \/ Close(d) \/ Delete(d) PROVE Dictionary'
  <2>1. \A v \in tasks' : v \in tasks \/ v.pc # "set"
    BY <1>2, CallEffect DEF Calls
  <2> QED BY <1>1, <1>2, <2>1, PageSteps
<1>3. ASSUME NEW d \in Databases, NEW locked \in BOOLEAN, Transact(d, locked) PROVE Dictionary'
  <2>1. \A v \in tasks' : v \in tasks \/ v.pc # "set"
    BY <1>3, TransactEffect DEF Transacts
  <2> QED BY <1>1, <1>3, <2>1, PageSteps
<1>4. ASSUME NEW t \in tasks, Answer(t) PROVE Dictionary'
  <2>1. CASE t.kind = "batch"
    <3>1. \A v \in tasks' : v \in tasks \/ v.pc # "set"
      BY <1>4, <2>1, AnswerEffect DEF Proceeds, Reports
    <3> QED BY <1>1, <1>4, <3>1, PageSteps
  <2>2. CASE t.kind # "batch"
    <3>1. tasks' \subseteq tasks
      BY <1>4, <2>2 DEF Answer
    <3> QED BY <1>1, <1>4, <3>1, PageSteps
  <2> QED BY <2>1, <2>2
<1>5. CASE Reload
  BY <1>1, <1>5, PageSteps DEF Reload
<1>6. CASE UNCHANGED vars
  BY <1>1, <1>6, PageSteps DEF vars, nativeVars
<1>7. ASSUME NEW t \in tasks, Native(t) PROVE Dictionary'
  <2>1. PICK u : Moves(t, u)
    BY <1>7, NativeEffect
  <2>2. UNCHANGED page
    BY <1>7, NativeEffect DEF NativeStep, pageVars
  <2>3. \A v \in tasks' : v = u \/ v \in tasks \ {t}
    BY <2>1, <2>2, MovedTasks
  <2>4. /\ Len(connections) \in Nat /\ Len(connections') \in Nat
        /\ Len(connections) <= Len(connections')
        /\ \A c \in 1 .. Len(connections) : connections'[c].db = connections[c].db
        /\ \A d \in Databases : d # t.db => table'[d] = table[d]
    BY <1>7, NativeOthers
  <2>5. ASSUME NEW v \in tasks', v.pc = "set" PROVE v.conn # 0 /\ connections'[v.conn].db = v.db
    <3>1. CASE v \in tasks
      <4>1. v.conn # 0 /\ connections[v.conn].db = v.db /\ v.conn \in 1 .. Len(connections)
        BY <2>5, <3>1, TaskType DEF Dictionary
      <4> QED BY <2>4, <4>1
    <3>2. CASE v = u
      <4>1. t.pc = "connect" /\ u.conn = Len(connections) + 1 /\ u.db = t.db
        BY <2>1, <2>5, <3>2 DEF Moves
      <4>2. OpenConnect(t)
        BY <1>7, <4>1 DEF Native, OpenLookup, OpenSet, CloseConnection, DeleteFile, Remove,
                          ExecuteSql, ExecuteNowhere
      <4>3. PICK k \in Connections : connections' = Append(connections, k) /\ k.db = t.db
        BY <4>2, ConnectEffect DEF Connects
      <4>4. connections'[Len(connections) + 1] = k
        BY <4>3 DEF CoreInv, Types
      <4> QED BY <2>4, <3>2, <4>1, <4>3, <4>4
    <3> QED BY <2>3, <3>1, <3>2
  <2>6. ASSUME NEW d \in Databases, table'[d] # 0 PROVE connections'[table'[d]].db = d
    <3>1. CASE table'[d] = table[d]
      <4>1. table[d] \in 1 .. Len(connections)
        BY <2>6, <3>1, DatabaseType
      <4> QED BY <2>4, <2>6, <3>1, <4>1 DEF Dictionary
    <3>2. CASE table'[d] # table[d]
      <4>1. d = t.db
        BY <2>4, <3>2
      <4>2. OpenSet(t) \/ Remove(t)
        <5>1. OpenLookup(t) \/ OpenConnect(t) \/ CloseConnection(t) \/ DeleteFile(t)
              \/ ExecuteSql(t) \/ ExecuteNowhere(t) => table' = table
          BY DEF OpenLookup, OpenConnect, CloseConnection, DeleteFile, ExecuteSql, ExecuteNowhere
        <5> QED BY <1>7, <3>2, <5>1 DEF Native
      <4>3. table \in [Databases -> Nat]
        BY DEF CoreInv, Types
      <4>4. OpenSet(t) /\ table'[d] = t.conn
        BY <2>6, <4>1, <4>2, <4>3 DEF OpenSet, Remove, SetObject, RemoveObject
      <4>5. connections[t.conn].db = t.db /\ connections' = connections
        BY <4>4 DEF OpenSet, sqliteVars, Dictionary
      <4> QED BY <4>1, <4>4, <4>5
    <3> QED BY <3>1, <3>2
  <2> QED BY <2>5, <2>6 DEF Dictionary
<1> QED BY <1>2, <1>3, <1>4, <1>5, <1>6, <1>7 DEF Next

\* A page with a database open has no other call out than batches.
LEMMA OnlyBatches ==
  ASSUME CoreInv, Alone, NEW t \in tasks, t.db \notin overlap, handle[t.db] = "open"
  PROVE  t.kind = "batch"
<1>1. t.db \in Databases
  BY TaskType
<1>2. t.page = page
  BY <1>1 DEF Alone
<1> QED BY <1>1, <1>2 DEF CoreInv, PageView

LEMMA NativeReadyHere ==
  ASSUME CoreInv, Alone, Dictionary, NEW t \in tasks, Native(t), t.db \notin overlap,
         ReadyAt(t.db)
  PROVE  ReadyAt(t.db)'
<1> DEFINE d == t.db
           c == table[d]
<1>1. t.db \in Databases /\ c \in 0 .. Len(connections) /\ Len(connections) \in Nat
      /\ t.conn \in 0 .. Len(connections)
  BY TaskType, DatabaseType
<1>2. UNCHANGED <<page, handle, platform>>
  BY NativeEffect DEF NativeStep, pageVars
<1>3. handle[t.db] = "open" => t.kind = "batch"
  BY OnlyBatches
<1>4. \A v \in tasks : v.db = t.db => v = t
  BY <1>1 DEF Alone
<1>5. connections \in Seq(Connections) /\ table \in [Databases -> Nat] /\ path \in [Databases -> Nat]
  BY DEF CoreInv, Types
<1>6. ASSUME NEW u, Moves(t, u)
      PROVE  /\ \A v \in tasks' : v.db = t.db => v = u
             /\ u.db = t.db /\ u.kind = t.kind
             /\ Running(u) => u \in tasks'
  <2>1. u.db = t.db /\ u.kind = t.kind
    BY <1>6 DEF Moves
  <2> QED BY <1>2, <1>4, <1>6, <2>1, MovedTasks
<1>7. /\ t.kind = "batch" => t.pc = "statement"
      /\ t.kind = "open" => t.pc \in {"lookup", "connect", "set"}
      /\ t.pc = "remove" => t.kind \in {"close", "delete"}
      /\ t.pc = "close" => t.kind = "close"
      /\ t.pc = "delete" => t.kind = "delete"
  <2>1. t.pc \in {"lookup", "connect", "set", "close", "delete", "remove", "statement"}
    BY DEF Native, OpenLookup, OpenConnect, OpenSet, CloseConnection, DeleteFile, Remove,
           ExecuteSql, ExecuteNowhere
  <2>2. t.kind \in {"open", "close", "delete", "batch"}
    BY TaskType DEF TaskRecords
  <2> QED BY <2>1, <2>2 DEF CoreInv, TaskKinds
<1>8. CASE OpenLookup(t)
  <2>1. PICK u : Moves(t, u)
    BY NativeEffect
  <2>2. t.pc = "lookup" /\ UNCHANGED <<table, connections, path>>
    BY <1>8 DEF OpenLookup, sqliteVars
  <2>3. u.pc = IF c # 0 THEN "done" ELSE "connect"
    BY <2>1, <2>2 DEF Moves
  <2> QED BY <1>2, <1>3, <1>4, <1>6, <1>7, <2>1, <2>2, <2>3 DEF ReadyAt
<1>9. CASE OpenConnect(t)
  <2>1. PICK u : Moves(t, u)
    BY NativeEffect
  <2>2. t.pc = "connect" /\ UNCHANGED table /\ t.kind # "batch"
    BY <1>7, <1>9, ConnectEffect DEF OpenConnect
  <2>3. u.pc = "set" /\ u.conn = Len(connections) + 1
    BY <2>1, <2>2 DEF Moves
  <2>4. PICK k \in Connections : connections' = Append(connections, k) /\ k.open /\ k.begun = 0
    BY <1>9, ConnectEffect DEF Connects
  <2>5. connections'[Len(connections) + 1] = k
    BY <1>5, <2>4
  <2>6. table[t.db] = 0
    BY <2>2 DEF ReadyAt
  <2> QED BY <1>2, <1>3, <1>6, <1>7, <2>1, <2>2, <2>3, <2>4, <2>5, <2>6 DEF ReadyAt
<1>10. CASE OpenSet(t)
  <2>1. PICK u : Moves(t, u)
    BY NativeEffect
  <2>2. t.pc = "set" /\ UNCHANGED <<connections, path>> /\ table' = [table EXCEPT ![t.db] = t.conn]
    BY <1>10 DEF OpenSet, sqliteVars, SetObject
  <2>3. u.pc = "done"
    BY <2>1, <2>2 DEF Moves
  <2>4. table'[t.db] = t.conn
    BY <1>1, <1>5, <2>2
  <2>5. t.conn # 0 /\ connections[t.conn].open
    BY <2>2 DEF Dictionary, ReadyAt
  <2> QED BY <1>6, <2>1, <2>2, <2>3, <2>4, <2>5 DEF ReadyAt
<1>11. CASE CloseConnection(t)
  <2>1. PICK u : Moves(t, u)
    BY NativeEffect
  <2>2. t.pc = "close" /\ UNCHANGED table /\ t.kind = "close"
    BY <1>7, <1>11 DEF CloseConnection
  <2>3. u.pc = IF c # 0 THEN "remove" ELSE "done"
    BY <2>1, <2>2 DEF Moves
  <2>4. CASE c = 0
    BY <1>2, <1>3, <1>6, <2>1, <2>2, <2>3, <2>4 DEF ReadyAt
  <2>5. CASE c # 0
    <3>1. ~connections'[c].open
      <4>1. connections' = [connections EXCEPT ![c] = Disposed(connections[c])]
        BY <1>11, <2>5 DEF CloseConnection, ObjectForKey
      <4>2. c \in 1 .. Len(connections)
        BY <1>1, <2>5
      <4> QED BY <4>1, <4>2, DisposeEffect, DisposeKeeps
    <3>2. u \in tasks'
      BY <1>6, <2>1, <2>3, <2>5 DEF Running
    <3> QED BY <1>2, <1>3, <1>6, <2>1, <2>2, <2>3, <2>5, <3>1, <3>2 DEF ReadyAt
  <2> QED BY <2>4, <2>5
<1>12. CASE DeleteFile(t)
  <2>1. PICK u : Moves(t, u)
    BY NativeEffect
  <2>2. t.pc = "delete" /\ UNCHANGED table /\ t.kind = "delete" /\ path'[t.db] = 0
    BY <1>1, <1>5, <1>7, <1>12 DEF DeleteFile
  <2>3. u.pc = IF path[t.db] # 0 \/ platform = "android" THEN "remove" ELSE "done"
    BY <2>1, <2>2 DEF Moves
  <2>4. u.pc = "remove" => u \in tasks'
    BY <1>6, <2>1 DEF Running
  <2>5. connections' = connections \/ u.pc = "remove"
    BY <1>12, <2>3 DEF DeleteFile
  <2> QED BY <1>2, <1>3, <1>4, <1>6, <2>1, <2>2, <2>3, <2>4, <2>5 DEF ReadyAt
<1>13. CASE Remove(t)
  <2>1. PICK u : Moves(t, u)
    BY NativeEffect
  <2>2. t.pc = "remove" /\ table' = [table EXCEPT ![t.db] = 0]
    BY <1>13 DEF Remove, RemoveObject
  <2>3. u.pc = "done" /\ t.kind \in {"close", "delete"}
    BY <1>7, <2>1, <2>2 DEF Moves
  <2>4. table'[t.db] = 0
    BY <1>1, <1>5, <2>2
  <2> QED BY <1>2, <1>3, <1>6, <2>1, <2>3, <2>4 DEF ReadyAt
<1>14. CASE ExecuteSql(t) \/ ExecuteNowhere(t)
  <2>1. PICK u : Moves(t, u)
    BY NativeEffect
  <2>2. t.pc = "statement" /\ UNCHANGED <<table, path>>
    BY <1>14 DEF ExecuteSql, ExecuteNowhere, sqliteVars
  <2>3. c # 0 /\ connections[c].open /\ t.kind = "batch"
    BY <1>4, <2>2, TaskType DEF ReadyAt
  <2>4. u.pc \in {"statement", "done", "lost"}
    BY <2>1, <2>2 DEF Moves
  <2>5. connections'[c].open
    <3>1. CASE ExecuteNowhere(t)
      BY <2>3, <3>1 DEF ExecuteNowhere, sqliteVars
    <3>2. CASE ExecuteSql(t)
      <4>1. PICK v : Executes(t, v)
        BY <3>2, ExecuteEffect
      <4>2. connections'[c].open = connections[c].open
        BY <4>1, ExecuteKeeps
      <4> QED BY <2>3, <4>2
    <3> QED BY <1>14, <3>1, <3>2
  <2> QED BY <1>6, <2>1, <2>2, <2>3, <2>4, <2>5 DEF ReadyAt
<1> QED BY <1>8, <1>9, <1>10, <1>11, <1>12, <1>13, <1>14 DEF Native

LEMMA NativeReadyElsewhere ==
  ASSUME CoreInv, Dictionary, NEW t \in tasks, Native(t),
         NEW d \in Databases, d # t.db, ReadyAt(d)
  PROVE  ReadyAt(d)'
<1>1. PICK u : Moves(t, u)
  BY NativeEffect
<1>2. UNCHANGED <<page, handle>>
  BY NativeEffect DEF NativeStep, pageVars
<1>3. u.db = t.db
  BY <1>1 DEF Moves
<1>4. /\ \A v \in tasks' : v.db = d => v \in tasks
      /\ \A v \in tasks : v.db = d => v \in tasks'
  BY <1>1, <1>2, <1>3, MovedTasks
<1>5. table'[d] = table[d] /\ path'[d] = path[d]
  BY NativeOthers
<1>6. ASSUME NEW c \in 1 .. Len(connections), connections[c].db = d
      PROVE  connections'[c] = connections[c]
  <2>1. t.db \in Databases
    BY TaskType
  <2>2. c # table[t.db]
    BY <1>6, <2>1 DEF Dictionary
  <2> QED BY <2>2, NativeOthers
<1>7. table[d] # 0 => connections'[table[d]] = connections[table[d]]
  <2>1. table[d] \in 0 .. Len(connections) /\ Len(connections) \in Nat
    BY DatabaseType
  <2> QED BY <1>6, <2>1 DEF Dictionary
<1>8. \A v \in tasks : v.db = d /\ v.pc = "set" => connections'[v.conn] = connections[v.conn]
  <2>1. \A v \in tasks : v.conn \in 0 .. Len(connections)
    BY TaskType
  <2> QED BY <1>6, <2>1 DEF Dictionary
<1> QED BY <1>2, <1>4, <1>5, <1>7, <1>8 DEF ReadyAt

LEMMA ReadyStep ==
  ASSUME CoreInv, Alone, Dictionary, Ready, [Next]_vars PROVE Ready'
<1>1. ASSUME NEW d \in Databases, Open(d) \/ Close(d) \/ Delete(d) PROVE Ready'
  <2>1. Calls(d)
    BY <1>1, CallEffect
  <2>2. /\ NoteOverlap(d) /\ UNCHANGED <<page, transactions, table, path, connections>>
        /\ handle'[d] # "open" /\ \A e \in Databases : e # d => handle'[e] = handle[e]
    BY <2>1 DEF Calls, sqliteVars
  <2>3. overlap \subseteq overlap'
    BY <2>2, OverlapGrows
  <2>4. \A v \in tasks : v \in tasks'
    BY <2>1 DEF Calls
  <2>5. \A v \in tasks' : v \in tasks \/
          /\ v.pc \in {"lookup", "close", "delete", "done"}
          /\ v.pc = "done" => v.db = d /\ table[d] # 0
    BY <2>1 DEF Calls
  <2>6. ASSUME NEW e \in Databases, ReadyAt(e) PROVE ReadyAt(e)'
    BY <2>2, <2>4, <2>5, <2>6 DEF ReadyAt
  <2> QED BY <2>3, <2>6 DEF Ready
<1>2. ASSUME NEW d \in Databases, NEW locked \in BOOLEAN, Transact(d, locked) PROVE Ready'
  <2>1. Transacts(d)
    BY <1>2, TransactEffect
  <2>2. /\ NoteOverlap(d) /\ UNCHANGED <<page, handle, table, path, connections>>
        /\ handle[d] = "open"
    BY <2>1 DEF Transacts, sqliteVars
  <2>3. overlap \subseteq overlap'
    BY <2>2, OverlapGrows
  <2>4. PICK v \in TaskRecords :
          tasks' = tasks \cup {v} /\ v.db = d /\ v.kind = "batch" /\ v.pc = "statement"
    BY <2>1 DEF Transacts
  <2>5. ASSUME NEW e \in Databases, ReadyAt(e) PROVE ReadyAt(e)'
    BY <2>2, <2>4, <2>5 DEF ReadyAt
  <2> QED BY <2>3, <2>5 DEF Ready
<1>3. ASSUME NEW t \in tasks, Native(t) PROVE Ready'
  <2>1. UNCHANGED overlap /\ t.db \in Databases
    BY <1>3, NativeEffect, TaskType DEF NativeStep
  <2>2. ASSUME NEW d \in Databases \ overlap PROVE ReadyAt(d)'
    <3>1. ReadyAt(d)
      BY DEF Ready
    <3>2. CASE d = t.db
      BY <1>3, <3>1, <3>2, NativeReadyHere
    <3>3. CASE d # t.db
      BY <1>3, <3>1, <3>3, NativeReadyElsewhere
    <3> QED BY <3>2, <3>3
  <2> QED BY <2>1, <2>2 DEF Ready
<1>4. ASSUME NEW t \in tasks, Answer(t) PROVE Ready'
  <2>0. UNCHANGED <<table, path, connections, overlap>> /\ t.pc = "done" /\ t.db \in Databases
    BY <1>4, PageSteps, TaskType DEF Answer, history
  <2>1. CASE t.kind # "batch"
    <3>1. /\ tasks' = tasks \ {t}
          /\ handle' = IF t.kind = "open" THEN [handle EXCEPT ![t.db] = "open"] ELSE handle
      BY <1>4, <2>1 DEF Answer
    <3>2. \A d \in Databases : handle'[d] = handle[d] \/ (d = t.db /\ t.kind = "open")
      BY <2>0, <3>1 DEF CoreInv, Types
    <3>3. ASSUME NEW d \in Databases, ReadyAt(d) PROVE ReadyAt(d)'
      BY <2>0, <3>1, <3>2, <3>3 DEF ReadyAt
    <3> QED BY <2>0, <3>3 DEF Ready
  <2>2. CASE t.kind = "batch"
    <3>1. Proceeds(t) \/ Reports(t)
      BY <1>4, <2>2, AnswerEffect
    <3>2. UNCHANGED handle /\ handle[t.db] = "open"
      BY <1>4, <2>0, <2>2, AnswerEffect, AnsweredTask
    <3>3. ASSUME tasks' = tasks \ {t} PROVE Ready'
      <4>1. ASSUME NEW d \in Databases, ReadyAt(d) PROVE ReadyAt(d)'
        BY <2>0, <3>2, <3>3, <4>1 DEF ReadyAt
      <4> QED BY <2>0, <4>1 DEF Ready
    <3>4. ASSUME NEW v, tasks' = (tasks \ {t}) \cup {v}, v.db = t.db, v.kind = "batch",
                 v.pc = "statement"
          PROVE  Ready'
      <4>1. ASSUME NEW d \in Databases, ReadyAt(d) PROVE ReadyAt(d)'
        BY <2>0, <3>2, <3>4, <4>1 DEF ReadyAt
      <4> QED BY <2>0, <4>1 DEF Ready
    <3> QED BY <3>1, <3>3, <3>4 DEF Proceeds, Reports
  <2> QED BY <2>1, <2>2
<1>5. CASE Reload
  <2>1. /\ UNCHANGED <<table, path, connections, overlap>>
        /\ handle' = [d \in Databases |-> Closed]
        /\ tasks' = {t \in tasks : Running(t)}
    BY <1>5, PageSteps DEF Reload, history
  <2>2. \A t \in tasks : t.pc = "remove" => t \in tasks'
    BY <2>1 DEF Running
  <2>3. ASSUME NEW d \in Databases, ReadyAt(d) PROVE ReadyAt(d)'
    BY <2>1, <2>2, <2>3 DEF ReadyAt, Closed
  <2> QED BY <2>1, <2>3 DEF Ready
<1>6. CASE UNCHANGED vars
  BY <1>6 DEF vars, pageVars, nativeVars, sqliteVars, history, Ready, ReadyAt
<1> QED BY <1>1, <1>2, <1>3, <1>4, <1>5, <1>6 DEF Next

TableInv == CoreInv /\ Alone /\ Dictionary /\ Ready

LEMMA TableHolds == Spec => []TableInv
<1>1. Init => TableInv
  <2> SUFFICES ASSUME Init PROVE TableInv
    OBVIOUS
  <2>1. tasks = {} /\ table = [d \in Databases |-> 0] /\ handle = [d \in Databases |-> Closed]
    BY DEF Init
  <2>2. Alone /\ Dictionary /\ Ready
    BY <2>1 DEF Alone, Dictionary, Ready, ReadyAt, Closed
  <2> QED BY <2>2, InitCore DEF TableInv
<1>2. TableInv /\ [Next]_vars => TableInv'
  BY CoreStep, AloneStep, DictionaryStep, ReadyStep DEF TableInv
<1> QED BY <1>1, <1>2, PTL DEF Spec

\* A batch of a database that no two pages' calls overlapped on is executed on an
\* open connection.
LEMMA BatchHasConnection ==
  ASSUME TableInv, NEW t \in tasks, t.pc = "statement", t.db \notin overlap
  PROVE  table[t.db] # 0 /\ connections[table[t.db]].open
<1>1. t.db \in Databases
  BY TaskType DEF TableInv
<1>2. \A v \in tasks : v.db = t.db => v = t
  BY <1>1 DEF TableInv, Alone
<1> QED BY <1>1, <1>2 DEF TableInv, Ready, ReadyAt

\* A statement is executed on an open connection, although the tasks of close and
\* delete calls are not kept apart from batches (iOS): that the page has no
\* transaction in progress when it makes such a call is enough, unless a call of
\* the page before it is still out.
THEOREM NoStatementNowhere == Spec => []StatementsHaveConnection
<1>1. Init => StatementsHaveConnection
  BY DEF Init, StatementsHaveConnection
<1>2. TableInv /\ StatementsHaveConnection /\ [Next]_vars => StatementsHaveConnection'
  <2> SUFFICES ASSUME TableInv, StatementsHaveConnection, [Next]_vars
               PROVE  StatementsHaveConnection'
    OBVIOUS
  <2>1. CoreInv
    BY DEF TableInv
  <2>2. ASSUME UNCHANGED misused, overlap \subseteq overlap' PROVE StatementsHaveConnection'
    BY <2>2 DEF StatementsHaveConnection
  <2>3. ASSUME NEW d \in Databases,
               \/ Open(d) \/ Close(d) \/ Delete(d)
               \/ \E locked \in BOOLEAN : Transact(d, locked)
        PROVE  StatementsHaveConnection'
    <3>1. UNCHANGED misused
      BY <2>1, <2>3, PageSteps
    <3>2. NoteOverlap(d)
      BY <2>1, <2>3, CallEffect DEF Calls, Transact
    <3> QED BY <2>2, <3>1, <3>2, OverlapGrows
  <2>4. ASSUME NEW t \in tasks, Answer(t) PROVE StatementsHaveConnection'
    BY <2>2, <2>4 DEF Answer, history
  <2>5. ASSUME NEW t \in tasks, Native(t) PROVE StatementsHaveConnection'
    <3>1. UNCHANGED overlap
      BY <2>1, <2>5, NativeEffect DEF NativeStep
    <3>2. CASE ExecuteNowhere(t)
      <4>1. t.pc = "statement" /\ misused' = misused \cup {t.db}
            /\ ~(table[t.db] # 0 /\ connections[table[t.db]].open)
        BY <3>2 DEF ExecuteNowhere, IsOpen, ObjectForKey
      <4>2. t.db \in overlap
        BY <4>1, BatchHasConnection
      <4> QED BY <3>1, <4>1, <4>2 DEF StatementsHaveConnection
    <3>3. ~ExecuteNowhere(t) => UNCHANGED misused
      BY <2>5 DEF Native, OpenLookup, OpenConnect, OpenSet, CloseConnection, DeleteFile, Remove,
                  ExecuteSql
    <3> QED BY <2>2, <3>1, <3>2, <3>3
  <2>6. CASE Reload \/ UNCHANGED vars
    BY <2>2, <2>6 DEF Reload, vars, history
  <2> QED BY <2>3, <2>4, <2>5, <2>6 DEF Next
<1> QED BY <1>1, <1>2, TableHolds, PTL DEF Spec

-----------------------------------------------------------------------------
(* Open connections are in the table. *)

Placed(c) ==
  LET k == connections[c]
  IN  k.open =>
        \/ table[k.db] = c
        \/ path[k.db] # k.file
        \/ \E t \in tasks : t.pc = "set" /\ t.conn = c
        \/ k.db \in overlap

LEMMA NativePlaces ==
  ASSUME TableInv, NEW t \in tasks, Native(t), NEW c \in 1 .. Len(connections), Placed(c)
  PROVE  Placed(c)'
<1> DEFINE k == connections[c]
           d == t.db
<1>1. CoreInv /\ Alone /\ Dictionary /\ Ready
  BY DEF TableInv
<1>2. PICK u : Moves(t, u)
  BY <1>1, NativeEffect
<1>3. UNCHANGED <<page, overlap>>
  BY <1>1, NativeEffect DEF NativeStep, pageVars
<1>4. k.db \in Databases /\ t.db \in Databases /\ k.file \in 1 .. Len(files)
  BY <1>1, ConnectionType, TaskType
<1>5. connections'[c].db = k.db /\ connections'[c].file = k.file
  BY <1>1, NativeOthers
<1>6. CASE k.db \in overlap
  BY <1>3, <1>5, <1>6 DEF Placed
<1>7. CASE k.db # t.db
  <2>1. c # table[t.db]
    BY <1>1, <1>4, <1>7 DEF Dictionary
  <2>2. connections'[c] = k /\ table'[k.db] = table[k.db] /\ path'[k.db] = path[k.db]
    BY <1>1, <1>4, <1>7, <2>1, NativeOthers
  <2>3. \A v \in tasks : v.pc = "set" /\ v.conn = c => v \in tasks'
    BY <1>1, <1>2, <1>3, <1>7, MovedTasks DEF Dictionary
  <2> QED BY <1>3, <2>2, <2>3 DEF Placed
<1>8. CASE k.db = t.db /\ k.db \notin overlap
  <2>1. \A v \in tasks : v.pc = "set" /\ v.conn = c => v = t
    BY <1>1, <1>4, <1>8 DEF Dictionary, Alone
  <2>2. ReadyAt(t.db)
    BY <1>1, <1>4, <1>8 DEF Ready
  <2>3. k.open => \/ table[t.db] = c \/ path[t.db] # k.file
                  \/ t.pc = "set" /\ t.conn = c
    BY <1>8, <2>1 DEF Placed
  <2>4. SUFFICES ASSUME connections'[c].open
                 PROVE  table'[t.db] = c \/ path'[t.db] # k.file
    BY <1>5, <1>8 DEF Placed
  <2>5. table \in [Databases -> Nat] /\ path \in [Databases -> Nat]
        /\ connections \in Seq(Connections) /\ Len(connections) \in Nat
    BY <1>1 DEF CoreInv, Types
  <2>6. CASE OpenLookup(t)
    BY <2>3, <2>4, <2>6 DEF OpenLookup, sqliteVars
  <2>7. CASE OpenConnect(t)
    <3>1. t.pc = "connect" /\ UNCHANGED table
      BY <1>1, <2>7, ConnectEffect DEF OpenConnect
    <3>2. table[t.db] = 0
      BY <2>2, <3>1 DEF ReadyAt
    <3>3. PICK r \in Connections :
            /\ connections' = Append(connections, r)
            /\ path' = [path EXCEPT ![t.db] = r.file]
            /\ \/ path[t.db] # 0 /\ r.file = path[t.db]
               \/ r.file = Len(files) + 1
      BY <1>1, <2>7, ConnectEffect DEF Connects
    <3>4. connections'[c] = k /\ path'[t.db] = r.file
      BY <1>4, <2>5, <3>3
    <3>5. path[t.db] # k.file
      BY <2>3, <2>4, <3>1, <3>2, <3>4
    <3>6. Len(files) \in Nat
      BY <1>1 DEF CoreInv, Types
    <3> QED BY <1>4, <3>3, <3>4, <3>5, <3>6
  <2>8. CASE OpenSet(t)
    <3>1. table' = [table EXCEPT ![t.db] = t.conn] /\ UNCHANGED <<connections, path>>
          /\ t.pc = "set"
      BY <2>8 DEF OpenSet, SetObject, sqliteVars
    <3>2. table[t.db] = 0
      BY <2>2, <3>1 DEF ReadyAt
    <3> QED BY <1>4, <2>3, <2>4, <2>5, <3>1, <3>2
  <2>9. CASE CloseConnection(t)
    <3>1. UNCHANGED <<table, path>> /\ t.pc = "close"
      BY <2>9 DEF CloseConnection
    <3>2. CASE table[t.db] = c
      BY <3>1, <3>2
    <3>3. CASE table[t.db] # c
      <4>1. connections'[c] = k
        BY <1>1, <3>3, NativeOthers
      <4> QED BY <2>3, <2>4, <3>1, <3>3, <4>1
    <3> QED BY <3>2, <3>3
  <2>10. CASE DeleteFile(t)
    <3>1. path'[t.db] = 0
      BY <1>4, <2>5, <2>10 DEF DeleteFile
    <3> QED BY <1>4, <3>1
  <2>11. CASE Remove(t)
    <3>1. t.pc = "remove" /\ UNCHANGED <<connections, path>>
      BY <2>11 DEF Remove, sqliteVars
    <3>2. CASE table[t.db] = c
      <4>1. path[t.db] = 0
        BY <1>4, <2>2, <2>4, <3>1, <3>2 DEF ReadyAt
      <4> QED BY <1>4, <3>1, <4>1
    <3>3. CASE table[t.db] # c
      BY <2>3, <2>4, <3>1, <3>3
    <3> QED BY <3>2, <3>3
  <2>12. CASE ExecuteSql(t)
    <3>1. PICK v : Executes(t, v)
      BY <1>1, <2>12, ExecuteEffect
    <3>2. UNCHANGED <<table, path>> /\ t.pc = "statement"
      BY <3>1 DEF Executes
    <3>3. connections'[c].open = k.open
      BY <1>1, <3>1, ExecuteKeeps
    <3> QED BY <2>3, <2>4, <3>2, <3>3
  <2>13. CASE ExecuteNowhere(t)
    BY <2>3, <2>4, <2>13 DEF ExecuteNowhere, sqliteVars
  <2> QED BY <2>6, <2>7, <2>8, <2>9, <2>10, <2>11, <2>12, <2>13 DEF Native
<1> QED BY <1>6, <1>7, <1>8

\* Every open connection is the one in the table, unless it is about to be put
\* there, its file was deleted, or calls of two pages overlapped: two tasks do not
\* open the same file twice, although looking a connection up and putting one in
\* are steps of their own.
THEOREM OpenConnectionsAreKnown == Spec => []ConnectionsAreInTable
<1>1. Init => ConnectionsAreInTable
  <2> SUFFICES ASSUME Init PROVE ConnectionsAreInTable
    OBVIOUS
  <2>1. Len(connections) = 0
    BY DEF Init
  <2> QED BY <2>1 DEF ConnectionsAreInTable
<1>2. TableInv /\ ConnectionsAreInTable /\ [Next]_vars => ConnectionsAreInTable'
  <2> SUFFICES ASSUME TableInv, ConnectionsAreInTable, [Next]_vars
               PROVE  ConnectionsAreInTable'
    OBVIOUS
  <2>1. CoreInv
    BY DEF TableInv
  <2>2. \A c \in 1 .. Len(connections) : Placed(c)
    BY DEF ConnectionsAreInTable, Placed
  <2>3. SUFFICES \A c \in 1 .. Len(connections') : Placed(c)'
    BY DEF ConnectionsAreInTable, Placed
  <2>4. ASSUME UNCHANGED <<table, path, connections>>, overlap \subseteq overlap',
               \A t \in tasks : t.pc = "set" => t \in tasks'
        PROVE  \A c \in 1 .. Len(connections') : Placed(c)'
    BY <2>2, <2>4 DEF Placed
  <2>5. ASSUME NEW d \in Databases,
               \/ Open(d) \/ Close(d) \/ Delete(d)
               \/ \E locked \in BOOLEAN : Transact(d, locked)
        PROVE  \A c \in 1 .. Len(connections') : Placed(c)'
    <3>1. UNCHANGED <<table, path, connections>>
      BY <2>1, <2>5, PageSteps
    <3>2. NoteOverlap(d)
      BY <2>1, <2>5, CallEffect DEF Calls, Transact
    <3>3. tasks \subseteq tasks'
      BY <2>1, <2>5, CallEffect, TransactEffect DEF Calls, Transacts
    <3> QED BY <2>4, <3>1, <3>2, <3>3, OverlapGrows
  <2>6. ASSUME NEW t \in tasks, Answer(t) PROVE \A c \in 1 .. Len(connections') : Placed(c)'
    <3>1. UNCHANGED <<table, path, connections, overlap>> /\ t.pc = "done"
      BY <2>1, <2>6, PageSteps DEF Answer, history
    <3>2. \A v \in tasks : v # t => v \in tasks'
      <4>1. CASE t.kind = "batch"
        BY <2>1, <2>6, <4>1, AnswerEffect DEF Proceeds, Reports
      <4>2. CASE t.kind # "batch"
        BY <2>6, <4>2 DEF Answer
      <4> QED BY <4>1, <4>2
    <3> QED BY <2>4, <3>1, <3>2
  <2>7. ASSUME NEW t \in tasks, Native(t) PROVE \A c \in 1 .. Len(connections') : Placed(c)'
    <3> SUFFICES ASSUME NEW c \in 1 .. Len(connections') PROVE Placed(c)'
      OBVIOUS
    <3>1. CASE c \in 1 .. Len(connections)
      BY <2>2, <2>7, <3>1, NativePlaces
    <3>2. CASE c \notin 1 .. Len(connections)
      <4>1. Len(connections) \in Nat /\ Len(connections') \in Nat
        BY <2>1, <2>7, NativeOthers
      <4>2. OpenConnect(t)
        <5>1. OpenLookup(t) \/ OpenSet(t) \/ CloseConnection(t) \/ DeleteFile(t) \/ Remove(t)
              \/ ExecuteNowhere(t) => Len(connections') = Len(connections)
          BY <2>1 DEF OpenLookup, OpenSet, CloseConnection, DeleteFile, Remove, ExecuteNowhere,
                      sqliteVars, CoreInv, Types
        <5>2. ExecuteSql(t) => Len(connections') = Len(connections)
          BY <2>1, ExecuteEffect, ExecuteKeeps
        <5> QED BY <2>7, <3>2, <5>1, <5>2 DEF Native
      <4>3. PICK u : Moves(t, u)
        BY <2>1, <2>7, NativeEffect
      <4>4. UNCHANGED page /\ t.pc = "connect"
        BY <4>2 DEF OpenConnect, NativeStep, pageVars
      <4>5. u.pc = "set" /\ u.conn = Len(connections) + 1
        BY <4>3, <4>4 DEF Moves
      <4>6. u \in tasks'
        BY <4>3, <4>4, <4>5, MovedTasks DEF Running
      <4>7. Len(connections') = Len(connections) + 1
        BY <2>1, <4>2, ConnectEffect DEF Connects, CoreInv, Types
      <4>8. c = Len(connections) + 1
        BY <3>2, <4>1, <4>7
      <4> QED BY <4>5, <4>6, <4>8 DEF Placed
    <3> QED BY <3>1, <3>2
  <2>8. CASE Reload
    <3>1. UNCHANGED <<table, path, connections, overlap>> /\ tasks' = {t \in tasks : Running(t)}
      BY <2>8 DEF Reload, sqliteVars, history
    <3>2. \A t \in tasks : t.pc = "set" => t \in tasks'
      BY <3>1 DEF Running
    <3> QED BY <2>4, <3>1, <3>2
  <2>9. CASE UNCHANGED vars
    BY <2>4, <2>9 DEF vars, nativeVars, sqliteVars, history
  <2> QED BY <2>5, <2>6, <2>7, <2>8, <2>9 DEF Next
<1> QED BY <1>1, <1>2, TableHolds, PTL DEF Spec

-----------------------------------------------------------------------------
(***************************************************************************)
(* What transactions leave in the files, where tasks are in order: on      *)
(* Android, and on iOS for a database on which no two pages' calls         *)
(* overlapped.  A batch that has begun to be executed is then the first of *)
(* its database; its connection stays the one in the table, and is inside  *)
(* its transaction, unless BEGIN was refused; what the connection has not  *)
(* committed are the writes of that transaction.                           *)
(***************************************************************************)

Ordered(d) == platform = "android" \/ d \notin overlap

Live(t) == t.kind = "batch" /\ t.pc # "lost"
LiveLocked(t) == Live(t) /\ transactions[t.tx].locked

\* A batch that has not executed its BEGIN, and one that has.
Unbegun(t) == t.pc = "statement" /\ t.sqls = <<"BEGIN", "WRITE">>
Begun(t) == LiveLocked(t) /\ ~Unbegun(t)

\* Connection c has nothing to do with transaction i.
Apart(c, i) ==
  connections[c].begun # i /\ \A w \in connections[c].writes : w[1] # i

Of(i, s) == {w \in s : w[1] = i}
Numbers(i, n) == {i} \X (1 .. n)

\* A write in a file; a transaction with none there, and with none at all.
InFiles(w) == \E f \in 1 .. Len(files) : w \in files[f]

NotFiled(i) == \A f \in 1 .. Len(files) : \A w \in files[f] : w[1] # i

Unwritten(i) ==
  NotFiled(i) /\ \A c \in 1 .. Len(connections) : \A w \in connections[c].writes : w[1] # i

\* The writes its transaction has made when batch t is where it is.
Made(t) ==
  IF PendingWrite(t) THEN transactions[t.tx].writes - 1 ELSE transactions[t.tx].writes

Has(c, t) ==
  connections[c].begun = t.tx /\ Of(t.tx, connections[c].writes) = Numbers(t.tx, Made(t))

\* Where a transaction's connection is, by how far the transaction is.
StageAt(c, t) ==
  LET x == transactions[t.tx]
  IN  /\ x.phase = "running" => connections[c].begun # 0 /\ (~t.error => Has(c, t))
      /\ x.phase = "finishing" =>
           /\ t.pc = "statement" => ~t.error /\ Has(c, t)
           /\ t.pc = "done" /\ t.error => connections[c].begun \in {0, t.tx}
           /\ t.pc = "done" /\ ~t.error =>
                /\ connections[c].begun = 0
                /\ \A w \in Numbers(t.tx, x.writes) : InFiles(w)
      /\ x.phase = "aborting" =>
           (t.pc = "done") <=> (connections[c].begun = 0)

Stage(t) ==
  LET c == table[t.db]
  IN  /\ Unbegun(t) => \A e \in 1 .. Len(connections) : Apart(e, t.tx)
      /\ Begun(t) =>
           /\ c # 0 /\ connections[c].open
           /\ \A e \in 1 .. Len(connections) : e # c => Apart(e, t.tx)
           /\ StageAt(c, t)

\* A batch that has begun is the first of its database's tasks.
Front ==
  \A t \in tasks : Begun(t) /\ Ordered(t.db) =>
    \A u \in tasks : u.db = t.db /\ Running(u) => t.id <= u.id

Stages == \A t \in tasks : LiveLocked(t) /\ Ordered(t.db) => Stage(t)

\* A connection is inside a transaction of its database, or has nothing that is
\* not committed.
Homes ==
  \A c \in 1 .. Len(connections) :
    LET k == connections[c]
    IN  /\ k.begun = 0 => k.writes = {}
        /\ k.begun # 0 => transactions[k.begun].locked /\ transactions[k.begun].db = k.db
        /\ \A w \in k.writes : transactions[w[1]].db = k.db

\* Transaction i may have been left open: it has not ended, or its COMMIT failed.
MayBeOpen(i) ==
  \/ transactions[i].outcome = "none"
  \/ transactions[i].phase = "finishing" /\ transactions[i].outcome = "error"

\* The transaction a connection is in may be open, and if it still has a batch to
\* come, all that is not committed is its own.
Begins ==
  \A c \in 1 .. Len(connections) :
    LET k == connections[c]
    IN  k.begun # 0 /\ Ordered(k.db) =>
          /\ MayBeOpen(k.begun)
          /\ \A t \in tasks : Live(t) /\ t.tx = k.begun =>
               \A w \in k.writes : w[1] = t.tx

\* No COMMIT of transaction i has been executed with success.
Uncommitted(i) ==
  \/ transactions[i].phase # "finishing" \/ transactions[i].outcome = "error"
  \/ \E t \in tasks : Live(t) /\ t.tx = i /\ (t.pc = "statement" \/ t.error)

\* Of a transaction with BEGIN, the files have nothing unless its COMMIT was
\* executed, and everything when it was reported as successful.
Filed ==
  \A i \in TransactionIds :
    LET x == transactions[i]
    IN  x.locked /\ Ordered(x.db) =>
          /\ x.phase # "finishing" => x.outcome # "success"
          /\ Uncommitted(i) => NotFiled(i)
          /\ x.outcome = "success" => \A w \in Numbers(i, x.writes) : InFiles(w)

\* Transaction i is not executed inside another.
Outside(i) == Ordered(transactions[i].db) /\ ~LeftOpenBefore(i)

\* A transaction without BEGIN has written when its one statement has succeeded;
\* the write is in a file, unless the transaction before was left open.
Plain ==
  /\ \A i \in TransactionIds :
       LET x == transactions[i]
       IN  ~x.locked =>
             /\ x.outcome = "error" => Unwritten(i)
             /\ x.outcome = "success" /\ Outside(i) => InFiles(<<i, 1>>)
  /\ \A t \in tasks : Live(t) /\ ~transactions[t.tx].locked =>
       /\ t.pc = "statement" => ~t.error
       /\ t.pc = "statement" \/ t.error => Unwritten(t.tx)
       /\ t.pc = "done" /\ ~t.error /\ Outside(t.tx) => InFiles(<<t.tx, 1>>)

\* The transaction in progress is the last of its database.
Latest ==
  \A d \in Databases : current[d] # 0 =>
    \A k \in TransactionIds : transactions[k].db = d => k <= current[d]

\* No transaction with BEGIN that came after i on database d has ended.
NoneEndedAfter(i, d) ==
  \A k \in TransactionIds :
    k > i /\ transactions[k].db = d /\ transactions[k].locked =>
      transactions[k].outcome = "none"

\* So it is for a batch with statements to come, and for the transaction that the
\* connection in the table is in.
Pending ==
  \A t \in tasks : Live(t) /\ t.pc = "statement" /\ Ordered(t.db) =>
    NoneEndedAfter(t.tx, t.db)

Recent ==
  \A d \in Databases :
    LET c == table[d]
    IN  c # 0 /\ connections[c].begun # 0 /\ Ordered(d) =>
          NoneEndedAfter(connections[c].begun, d)

\* A connection that is to be put into the table is in no transaction, and is in
\* the table of no database nor with another task.
Waiting ==
  \A t \in tasks : t.pc = "set" =>
    /\ t.conn # 0 /\ connections[t.conn].begun = 0
    /\ \A d \in Databases : table[d] # t.conn
    /\ \A v \in tasks : v.pc = "set" /\ v # t => v.conn # t.conn

\* After a page's first transaction, the connection is not inside one of a page
\* before it.
Recovered ==
  \A d \in Databases \ overlap : \A i \in TransactionIds :
    LET x == transactions[i]
        c == table[d]
    IN  /\ x.db = d /\ x.page = page /\ x.locked /\ x.outcome # "none"
        /\ c # 0 /\ connections[c].begun # 0
        => transactions[connections[c].begun].page = page

CommitInv ==
  /\ Front /\ Stages /\ Homes /\ Begins /\ Filed /\ Plain /\ Recovered
  /\ Latest /\ Pending /\ Recent /\ Waiting

-----------------------------------------------------------------------------
(* The order of tasks. *)

\* Where tasks are in order, the one that takes a step is the first.
LEMMA FirstSteps ==
  ASSUME CoreInv, Alone, NEW t \in tasks, NativeStep(t), Running(t), Ordered(t.db),
         NEW u \in tasks, u.db = t.db, Running(u)
  PROVE  t.id <= u.id
<1>1. t.id \in Nat /\ t.db \in Databases
  BY TaskType
<1>2. CASE platform = "android"
  BY <1>2 DEF NativeStep, MayStep, SameThread
<1>3. CASE t.db \notin overlap
  BY <1>1, <1>3 DEF Alone
<1> QED BY <1>2, <1>3 DEF Ordered

\* So no other task of the database takes a step when a batch has begun.
LEMMA OnlyTheFirst ==
  ASSUME CoreInv, Alone, Front, NEW t \in tasks, NativeStep(t), Running(t), Ordered(t.db),
         NEW v \in tasks, v.db = t.db, Begun(v)
  PROVE  v = t
<1>1. /\ t.id \in Nat /\ v.id \in Nat /\ t.page \in Nat /\ v.page \in Nat /\ page \in Nat
      /\ t.page <= page /\ v.page <= page
  BY TaskType
<1>2. v.id <= t.id
  BY DEF Front
<1>3. /\ v.page = t.page => v = t
      /\ v.page < t.page => v.id < t.id
      /\ t.page < v.page => t.id < v.id
  BY DEF CoreInv, TaskOrder
<1>4. CASE Running(v)
  <2>1. t.id <= v.id
    BY <1>4, FirstSteps
  <2> QED BY <1>1, <1>2, <1>3, <2>1
<1>5. CASE ~Running(v)
  <2>1. v.page = page
    BY <1>5 DEF CoreInv, TaskOrder
  <2> QED BY <1>1, <1>2, <1>3, <2>1
<1> QED BY <1>4, <1>5

\* A batch that can still be executed or answered.
LEMMA LiveTask ==
  ASSUME CoreInv, NEW t \in tasks, Live(t)
  PROVE  /\ t.tx \in TransactionIds /\ t.tx # 0
         /\ t.db = transactions[t.tx].db /\ t.db \in Databases
         /\ t.page = transactions[t.tx].page /\ transactions[t.tx].outcome = "none"
         /\ t.pc \in {"statement", "done"}
         /\ t.pc = "statement" => Script(t)
         /\ transactions[t.tx].phase \in {"running", "finishing", "aborting"}
         /\ transactions[t.tx].locked \in BOOLEAN /\ t.error \in BOOLEAN
         /\ transactions[t.tx].writes \in {1, 2}
<1>1. t.tx \in TransactionIds /\ t.kind = "batch" /\ t.pc # "lost"
  BY TaskType DEF Live
<1>2. /\ t.db = transactions[t.tx].db /\ t.page = transactions[t.tx].page
      /\ transactions[t.tx].outcome = "none" /\ t.pc \in {"statement", "done"}
      /\ t.pc = "statement" => Script(t)
  BY <1>1 DEF CoreInv, TaskKinds
<1>3. transactions[t.tx] \in Transactions /\ t.tx \in Nat \ {0}
  BY <1>1, TransactionType
<1>4. t.error \in BOOLEAN /\ t.db \in Databases
  BY TaskType
<1> QED BY <1>1, <1>2, <1>3, <1>4 DEF Transactions

\* Whether the transaction before i may have been left open, after a step.
LEMMA OutsideKept ==
  ASSUME CoreInv, NEW i \in TransactionIds,
         Ordered(transactions[i].db)' => Ordered(transactions'[i].db),
         \A j \in 1 .. i :
           transactions'[j].db = transactions[j].db
           /\ (transactions'[j].locked <=> transactions[j].locked),
         \A j \in 1 .. i - 1 :
           transactions[j].db = transactions[i].db /\ MayBeOpen(j) => MayBeOpen(j)'
  PROVE  Outside(i)' => Outside(i)
<1>1. i \in Nat \ {0} /\ i \in 1 .. i /\ \A j \in 1 .. i - 1 : j \in 1 .. i
  BY TransactionType
<1>2. transactions'[i].db = transactions[i].db
  BY <1>1
<1>3. ASSUME LeftOpenBefore(i) PROVE LeftOpenBefore(i)'
  <2>1. PICK j \in 1 .. i - 1 :
          /\ transactions[j].locked /\ transactions[j].db = transactions[i].db
          /\ MayBeOpen(j)
          /\ \A k \in j + 1 .. i - 1 :
               ~(transactions[k].locked /\ transactions[k].db = transactions[i].db)
    BY <1>3 DEF LeftOpenBefore, MayBeOpen
  <2>2. /\ transactions'[j].locked /\ transactions'[j].db = transactions'[i].db
        /\ MayBeOpen(j)'
    BY <1>1, <1>2, <2>1
  <2>3. j \in Nat \ {0} /\ \A k \in j + 1 .. i - 1 : k \in 1 .. i
    BY <1>1, <2>1
  <2>4. \A k \in j + 1 .. i - 1 :
          ~(transactions'[k].locked /\ transactions'[k].db = transactions'[i].db)
    BY <1>2, <2>1, <2>3
  <2> QED BY <2>1, <2>2, <2>4 DEF LeftOpenBefore, MayBeOpen
<1> QED BY <1>2, <1>3 DEF Outside, Ordered

\* The databases' connections in the table are not the same.
LEMMA OwnConnection ==
  ASSUME CoreInv, Dictionary, NEW d \in Databases, NEW e \in Databases, d # e, table[d] # 0
  PROVE  table[d] # table[e] /\ connections[table[d]].db = d
         /\ table[d] \in 1 .. Len(connections)
<1>1. table[d] \in 0 .. Len(connections) /\ Len(connections) \in Nat
  BY DatabaseType
<1> QED BY <1>1 DEF Dictionary

-----------------------------------------------------------------------------
(* Native steps that execute no statement. *)

Quiet(t, u) ==
  /\ Moves(t, u)
  /\ t.kind = "batch" => u.pc = "lost"
  /\ \A w : InFiles(w) => InFiles(w)'
  /\ \A i \in TransactionIds : NotFiled(i) => NotFiled(i)'
  /\ \A c \in 1 .. Len(connections) : KeptOrClosed(c)
  /\ \A c \in 1 .. Len(connections') : c \notin 1 .. Len(connections) =>
       connections'[c].begun = 0 /\ connections'[c].writes = {}
  /\ \A d \in Databases : \/ table'[d] = table[d] \/ table'[d] = 0
                          \/ t.pc = "set" /\ d = t.db /\ table'[d] = t.conn

LEMMA QuietEffect ==
  ASSUME CoreInv, NEW t \in tasks, Native(t), ~ExecuteSql(t)
  PROVE  \E u : Quiet(t, u)
<1>1. connections \in Seq(Connections) /\ Len(connections) \in Nat
      /\ files \in Seq(SUBSET (Nat \X Nat)) /\ Len(files) \in Nat
      /\ table \in [Databases -> Nat]
  BY DEF CoreInv, Types
<1>2. PICK u : Moves(t, u)
  BY NativeEffect
<1>3. t.kind = "batch" => t.pc \in {"statement", "done", "lost"}
  BY DEF CoreInv, TaskKinds
<1>4. CASE OpenConnect(t)
  <2>1. t.pc = "connect" /\ UNCHANGED table
    BY <1>4, ConnectEffect DEF OpenConnect
  <2>2. PICK k \in Connections :
          /\ connections' = Append(connections, k) /\ k.begun = 0 /\ k.writes = {}
          /\ files' = files \/ files' = Append(files, {})
    BY <1>4, ConnectEffect DEF Connects
  <2>3. /\ \A c \in 1 .. Len(connections) : connections'[c] = connections[c]
        /\ \A c \in 1 .. Len(connections') : c \notin 1 .. Len(connections) => connections'[c] = k
    BY <1>1, <2>2
  <2>4. /\ Len(files') \in Nat /\ Len(files) <= Len(files')
        /\ \A f \in 1 .. Len(files) : files'[f] = files[f]
        /\ \A f \in 1 .. Len(files') : f \in 1 .. Len(files) \/ files'[f] = {}
    <3>1. CASE files' = files
      BY <1>1, <3>1
    <3>2. CASE files' = Append(files, {})
      BY <1>1, <3>2
    <3> QED BY <2>2, <3>1, <3>2
  <2>5. \A w : InFiles(w) => InFiles(w)'
    BY <1>1, <2>4 DEF InFiles
  <2>6. \A i \in TransactionIds : NotFiled(i) => NotFiled(i)'
    BY <1>1, <2>4 DEF NotFiled
  <2>7. \A c \in 1 .. Len(connections) : KeptOrClosed(c)
    BY <2>3 DEF KeptOrClosed
  <2> QED BY <1>2, <1>3, <2>1, <2>2, <2>3, <2>5, <2>6, <2>7 DEF Quiet
<1>5. ASSUME UNCHANGED files PROVE /\ \A w : InFiles(w) => InFiles(w)'
                                   /\ \A i \in TransactionIds : NotFiled(i) => NotFiled(i)'
  BY <1>5 DEF InFiles, NotFiled
<1>6. CASE UNCHANGED connections
  <2>1. \A c \in 1 .. Len(connections) : KeptOrClosed(c)
    BY <1>6 DEF KeptOrClosed
  <2>2. CASE OpenLookup(t)
    BY <1>2, <1>3, <1>5, <1>6, <2>1, <2>2 DEF Quiet, OpenLookup, sqliteVars
  <2>3. CASE OpenSet(t)
    <3>1. \A d \in Databases : d # t.db => table'[d] = table[d]
      BY <1>1, <2>3 DEF OpenSet, SetObject
    <3>2. t.db \in Databases /\ table'[t.db] = t.conn
      BY <1>1, <2>3, TaskType DEF OpenSet, SetObject
    <3> QED BY <1>2, <1>3, <1>5, <1>6, <2>1, <2>3, <3>1, <3>2 DEF Quiet, OpenSet, sqliteVars
  <2>4. CASE CloseConnection(t)
    BY <1>2, <1>3, <1>5, <1>6, <2>1, <2>4 DEF Quiet, CloseConnection
  <2>5. CASE DeleteFile(t)
    BY <1>2, <1>3, <1>5, <1>6, <2>1, <2>5 DEF Quiet, DeleteFile
  <2>6. CASE Remove(t)
    <3>1. \A d \in Databases : table'[d] = table[d] \/ table'[d] = 0
      BY <1>1, <2>6 DEF Remove, RemoveObject
    <3> QED BY <1>2, <1>3, <1>5, <1>6, <2>1, <2>6, <3>1 DEF Quiet, Remove, sqliteVars
  <2>7. CASE ExecuteNowhere(t)
    <3> DEFINE z == [t EXCEPT !.pc = "lost"]
    <3>1. t \in TaskRecords /\ t.pc = "statement" /\ Become(t, z)
      BY <2>7 DEF CoreInv, Types, ExecuteNowhere
    <3>2. /\ z \in TaskRecords /\ z.id = t.id /\ z.kind = t.kind /\ z.db = t.db
          /\ z.page = t.page /\ z.tx = t.tx /\ z.conn = t.conn /\ z.pc = "lost"
      BY <3>1 DEF TaskRecords
    <3> HIDE DEF z
    <3>3. Moves(t, z)
      BY <3>1, <3>2 DEF Moves
    <3>4. Quiet(t, z)
      BY <1>5, <1>6, <2>1, <2>7, <3>2, <3>3 DEF Quiet, ExecuteNowhere, sqliteVars
    <3> QED BY <3>4
  <2> QED BY <1>4, <2>2, <2>3, <2>4, <2>5, <2>6, <2>7 DEF Native
<1>7. CASE CloseConnection(t) \/ DeleteFile(t)
  <2>1. t.pc \in {"close", "delete"} /\ UNCHANGED <<files, table>>
    BY <1>7 DEF CloseConnection, DeleteFile
  <2>2. CASE UNCHANGED connections
    BY <1>6, <2>2
  <2>3. CASE ~UNCHANGED connections
    <3> DEFINE c == table[t.db]
    <3>1. c # 0 /\ connections' = [connections EXCEPT ![c] = Disposed(connections[c])]
      BY <1>7, <2>3 DEF CloseConnection, DeleteFile, ObjectForKey
    <3>2. c \in 1 .. Len(connections)
      BY <3>1, DatabaseType, TaskType
    <3>3. \A e \in 1 .. Len(connections) : KeptOrClosed(e)
      BY <3>1, <3>2, DisposeEffect, DisposeKeeps
    <3>4. Len(connections') = Len(connections)
      BY <3>1, <3>2, DisposeEffect, DisposeKeeps
    <3> QED BY <1>2, <1>3, <1>5, <2>1, <3>3, <3>4 DEF Quiet
  <2> QED BY <2>2, <2>3
<1> QED
  <2>1. OpenLookup(t) \/ OpenSet(t) \/ Remove(t) \/ ExecuteNowhere(t) => UNCHANGED connections
    BY DEF OpenLookup, OpenSet, Remove, ExecuteNowhere, sqliteVars
  <2> QED BY <1>4, <1>6, <1>7, <2>1 DEF Native

LEMMA NativeKeeps ==
  ASSUME NEW t, NativeStep(t)
  PROVE  /\ UNCHANGED <<platform, page, handle, asked, current, transactions, calls, overlap>>
         /\ \A d : Ordered(d)' <=> Ordered(d)
         /\ TransactionIds' = TransactionIds
  BY DEF NativeStep, pageVars, Ordered, TransactionIds

\* A batch that takes no step, while one of its own or of another database does.
LEMMA OthersKeepStage ==
  ASSUME TableInv, Front, NEW t \in tasks, Native(t), Running(t),
         NEW v \in tasks, v # t, LiveLocked(v), Ordered(v.db), Stage(v),
         \A w : InFiles(w) => InFiles(w)',
         \A c \in 1 .. Len(connections') :
           Apart(c, v.tx)' \/ (~Apart(c, v.tx) /\ c \in 1 .. Len(connections))
  PROVE  Stage(v)'
<1>1. CoreInv /\ Alone /\ Dictionary
  BY DEF TableInv
<1>2. NativeStep(t) /\ UNCHANGED transactions
  BY <1>1, NativeEffect, NativeKeeps
<1>3. v.db \in Databases /\ t.db \in Databases
  BY <1>1, TaskType
<1>4. Begun(v) => v.db # t.db
  BY <1>1, <1>2, OnlyTheFirst
<1>5. ASSUME Begun(v)
      PROVE  /\ table'[v.db] = table[v.db]
             /\ table[v.db] # 0 => connections'[table[v.db]] = connections[table[v.db]]
  <2>1. table'[v.db] = table[v.db]
    BY <1>1, <1>3, <1>4, <1>5, NativeOthers
  <2>2. table[v.db] # 0 => /\ table[v.db] # table[t.db]
                           /\ table[v.db] \in 1 .. Len(connections)
    BY <1>1, <1>3, <1>4, <1>5, OwnConnection
  <2> QED BY <1>1, <2>1, <2>2, NativeOthers
<1>6. Begun(v)' => Begun(v)
  BY <1>2 DEF Begun, LiveLocked, Live, Unbegun
<1>7. Unbegun(v)' => Unbegun(v)
  BY DEF Unbegun
<1>8. ASSUME Unbegun(v) PROVE \A e \in 1 .. Len(connections') : Apart(e, v.tx)'
  BY <1>8 DEF Stage
<1>9. ASSUME Begun(v)
      PROVE  LET c == table[v.db]
             IN  /\ c # 0 /\ connections'[c].open
                 /\ \A e \in 1 .. Len(connections') : e # c => Apart(e, v.tx)'
                 /\ StageAt(c, v)'
  <2> DEFINE c == table[v.db]
  <2>1. /\ c # 0 /\ connections[c].open /\ StageAt(c, v)
        /\ \A e \in 1 .. Len(connections) : e # c => Apart(e, v.tx)
    BY <1>9 DEF Stage
  <2>2. connections'[c] = connections[c]
    BY <1>5, <1>9, <2>1
  <2>3. StageAt(c, v)'
    BY <1>2, <1>5, <1>9, <2>1, <2>2 DEF StageAt, Has, Made, PendingWrite
  <2> QED BY <2>1, <2>2, <2>3
<1> QED BY <1>5, <1>6, <1>7, <1>8, <1>9 DEF Stage

LEMMA QuietCommit ==
  ASSUME TableInv, CommitInv, NEW t \in tasks, Native(t), ~ExecuteSql(t)
  PROVE  CommitInv'
<1>1. CoreInv /\ Alone /\ Dictionary /\ Ready
  BY DEF TableInv
<1>2. PICK u : Quiet(t, u)
  BY <1>1, QuietEffect
<1>3. Moves(t, u) /\ NativeStep(t) /\ Running(t)
  BY <1>1, <1>2, NativeEffect DEF Quiet, Moves, Running
<1>4. UNCHANGED <<platform, page, handle, current, transactions, overlap>>
      /\ (\A d : Ordered(d)' <=> Ordered(d)) /\ TransactionIds' = TransactionIds
  BY <1>3, NativeKeeps
<1>5. \A v \in tasks' : v \in tasks \ {t} \/ v = u
  BY <1>3, <1>4, MovedTasks
<1>6. ~Live(u)
  BY <1>2, <1>3 DEF Quiet, Moves, Live
<1>7. \A v \in tasks' : Live(v) => v \in tasks \ {t}
  BY <1>5, <1>6
<1>8. u.id = t.id /\ u.db = t.db
  BY <1>3 DEF Moves
<1>9. \A c \in 1 .. Len(connections') :
        \/ c \in 1 .. Len(connections) /\ KeptOrClosed(c)
        \/ c \notin 1 .. Len(connections) /\ connections'[c].begun = 0 /\ connections'[c].writes = {}
  BY <1>2 DEF Quiet
<1>10. \A w : InFiles(w) => InFiles(w)'
  BY <1>2 DEF Quiet
<1>11. \A i \in TransactionIds : NotFiled(i) => NotFiled(i)'
  BY <1>2 DEF Quiet
<1>12. Front'
  <2> SUFFICES ASSUME NEW v \in tasks', Begun(v)', Ordered(v.db)',
                      NEW z \in tasks', z.db = v.db, Running(z)
               PROVE  v.id <= z.id
    BY DEF Front, Running
  <2>1. Live(v) /\ Begun(v) /\ Ordered(v.db)
    BY <1>4 DEF Begun, LiveLocked, Live, Unbegun
  <2>2. v \in tasks
    BY <1>7, <2>1
  <2>3. \A y \in tasks : y.db = v.db /\ Running(y) => v.id <= y.id
    BY <2>1, <2>2 DEF CommitInv, Front
  <2> QED BY <1>3, <1>5, <1>8, <2>3
<1>13. Stages'
  <2> SUFFICES ASSUME NEW v \in tasks', LiveLocked(v)', Ordered(v.db)'
               PROVE  Stage(v)'
    BY DEF Stages
  <2>1. LiveLocked(v) /\ Live(v) /\ Ordered(v.db)
    BY <1>4 DEF LiveLocked, Live
  <2>2. v \in tasks \ {t}
    BY <1>7, <2>1
  <2>3. Stage(v) /\ Front
    BY <2>1, <2>2 DEF CommitInv, Stages
  <2>4. v.tx # 0
    BY <1>1, <2>1, <2>2, LiveTask
  <2>5. \A c \in 1 .. Len(connections') :
           Apart(c, v.tx)' \/ (~Apart(c, v.tx) /\ c \in 1 .. Len(connections))
    BY <1>9, <2>4 DEF Apart, KeptOrClosed
  <2> QED BY <1>3, <1>10, <2>1, <2>2, <2>3, <2>5, OthersKeepStage
<1>14. Homes'
  BY <1>4, <1>9 DEF CommitInv, Homes, KeptOrClosed
<1>15. Begins'
  <2> SUFFICES ASSUME NEW c \in 1 .. Len(connections'), connections'[c].begun # 0,
                      Ordered(connections[c].db)'
               PROVE  /\ MayBeOpen(connections[c].begun)'
                      /\ \A v \in tasks' : Live(v) /\ v.tx = connections'[c].begun =>
                           \A w \in connections'[c].writes : w[1] = v.tx
    BY DEF Begins, Live, MayBeOpen
  <2>1. c \in 1 .. Len(connections) /\ connections'[c] = connections[c]
    BY <1>9 DEF KeptOrClosed
  <2> QED BY <1>4, <1>7, <2>1 DEF CommitInv, Begins, MayBeOpen
<1>16. Filed'
  <2>1. \A i : Uncommitted(i)' => Uncommitted(i)
    BY <1>4, <1>7 DEF Uncommitted, Live
  <2> QED BY <1>4, <1>10, <1>11, <2>1 DEF CommitInv, Filed
<1>17. Plain'
  <2>1. \A i \in TransactionIds : Unwritten(i) => Unwritten(i)'
    BY <1>9, <1>11 DEF Unwritten, KeptOrClosed
  <2>4. \A i : Outside(i)' <=> Outside(i)
    BY <1>4 DEF Outside, LeftOpenBefore, Ordered
  <2>2. ASSUME NEW v \in tasks', Live(v)', ~transactions'[v.tx].locked
        PROVE  /\ v.pc = "statement" => ~v.error
               /\ v.pc = "statement" \/ v.error => Unwritten(v.tx)'
               /\ v.pc = "done" /\ ~v.error /\ Outside(v.tx)' => InFiles(<<v.tx, 1>>)'
    <3>1. Live(v)
      BY <2>2 DEF Live
    <3>2. v \in tasks
      BY <1>7, <3>1
    <3>3. v.tx \in TransactionIds
      BY <1>1, <3>1, <3>2, LiveTask
    <3> QED BY <1>4, <1>10, <2>1, <2>2, <2>4, <3>1, <3>2, <3>3 DEF CommitInv, Plain
  <2>3. ASSUME NEW i \in TransactionIds', ~transactions'[i].locked
        PROVE  /\ transactions'[i].outcome = "error" => Unwritten(i)'
               /\ transactions'[i].outcome = "success" /\ Outside(i)' => InFiles(<<i, 1>>)'
    BY <1>4, <1>10, <2>1, <2>3, <2>4 DEF CommitInv, Plain
  <2> QED BY <2>2, <2>3 DEF Plain
<1>18. Recovered'
  <2> SUFFICES ASSUME NEW d \in Databases \ overlap', NEW i \in TransactionIds',
                      transactions'[i].db = d, transactions'[i].page = page',
                      transactions'[i].locked, transactions'[i].outcome # "none",
                      table'[d] # 0, connections'[table'[d]].begun # 0
               PROVE  transactions'[connections'[table'[d]].begun].page = page'
    BY DEF Recovered
  <2>1. table'[d] = table[d] \/ (t.pc = "set" /\ d = t.db /\ table'[d] = t.conn)
    BY <1>2 DEF Quiet
  <2>2. CASE table'[d] = table[d]
    <3>1. table[d] \in 1 .. Len(connections)
      BY <1>1, <2>2, DatabaseType
    <3>2. KeptOrClosed(table[d])
      BY <1>2, <3>1 DEF Quiet
    <3>3. connections'[table[d]] = connections[table[d]]
      BY <2>2, <3>2 DEF KeptOrClosed
    <3> QED BY <1>4, <2>2, <3>3 DEF CommitInv, Recovered
  <2>3. CASE t.pc = "set" /\ d = t.db /\ table'[d] = t.conn
    <3>1. connections[t.conn].begun = 0
      BY <1>1, <1>4, <2>3 DEF Ready, ReadyAt
    <3>2. t.conn \in 1 .. Len(connections)
      BY <1>1, <2>3, TaskType
    <3>3. KeptOrClosed(t.conn)
      BY <1>2, <3>2 DEF Quiet
    <3> QED BY <2>3, <3>1, <3>3 DEF KeptOrClosed
  <2> QED BY <2>1, <2>2, <2>3
<1>19. Latest'
  BY <1>4 DEF CommitInv, Latest
<1>20. Pending'
  BY <1>4, <1>7 DEF CommitInv, Pending, NoneEndedAfter, Live
<1>21. CoreInv'
  BY <1>1, CoreStep DEF Next
<1>22. ASSUME NEW v \in tasks, v.pc = "set"
       PROVE  /\ v.conn # 0 /\ v.conn \in 1 .. Len(connections)
              /\ connections'[v.conn].begun = 0 /\ \A d \in Databases : table[d] # v.conn
  <2>1. v.conn # 0 /\ connections[v.conn].begun = 0 /\ \A d \in Databases : table[d] # v.conn
    BY <1>22 DEF CommitInv, Waiting
  <2>2. v.conn \in 1 .. Len(connections)
    BY <1>1, <2>1, TaskType
  <2> QED BY <1>2, <2>1, <2>2 DEF Quiet, KeptOrClosed
<1>23. \A d \in Databases : \/ table'[d] = table[d] \/ table'[d] = 0
                            \/ t.pc = "set" /\ d = t.db /\ table'[d] = t.conn
  BY <1>2 DEF Quiet
<1>24. Recent'
  <2> SUFFICES ASSUME NEW d \in Databases, table'[d] # 0,
                      connections'[table'[d]].begun # 0, Ordered(d)'
               PROVE  NoneEndedAfter(connections[table[d]].begun, d)'
    BY DEF Recent
  <2>1. table'[d] = table[d]
    BY <1>22, <1>23
  <2>2. table[d] \in 1 .. Len(connections)
    BY <1>1, <2>1, DatabaseType
  <2>3. connections'[table[d]].begun = connections[table[d]].begun
    BY <1>2, <2>1, <2>2 DEF Quiet, KeptOrClosed
  <2>4. NoneEndedAfter(connections[table[d]].begun, d)
    BY <1>4, <2>1, <2>3 DEF CommitInv, Recent
  <2> QED BY <1>4, <2>1, <2>3, <2>4 DEF NoneEndedAfter
<1>25. Waiting'
  <2>1. ASSUME NEW v \in tasks', v.pc = "set", v \in tasks \ {t}
        PROVE  /\ v.conn # 0 /\ connections'[v.conn].begun = 0
               /\ \A d \in Databases : table'[d] # v.conn
    <3>1. t.pc = "set" => v.conn # t.conn
      BY <2>1 DEF CommitInv, Waiting
    <3> QED BY <1>22, <1>23, <2>1, <3>1
  <2>2. ASSUME u.pc = "set", u \in tasks'
        PROVE  /\ u.conn # 0 /\ connections'[u.conn].begun = 0
               /\ \A d \in Databases : table'[d] # u.conn
               /\ \A v \in tasks \ {t} : v.pc = "set" => v.conn # u.conn
    <3>1. t.pc = "connect" /\ u.conn = Len(connections) + 1 /\ Len(connections) \in Nat
      BY <1>1, <1>3, <2>2 DEF Moves, CoreInv, Types
    <3>2. \A d \in Databases : table'[d] # u.conn
      <4> TAKE d \in Databases
      <4>1. table'[d] \in {0, table[d]} /\ table[d] \in 0 .. Len(connections)
        BY <1>1, <1>23, <3>1, DatabaseType
      <4> QED BY <3>1, <4>1
    <3>3. \A v \in tasks \ {t} : v.pc = "set" => v.conn # u.conn
      BY <1>22, <3>1
    <3>4. Types' /\ Names'
      BY <1>1, <1>21 DEF CoreInv
    <3>5. u.conn <= Len(connections') /\ Len(connections') \in Nat
      BY <2>2, <3>4 DEF Types, Names
    <3>6. u.conn \in 1 .. Len(connections') /\ u.conn \notin 1 .. Len(connections)
      BY <3>1, <3>5
    <3>7. connections'[u.conn].begun = 0
      BY <1>2, <3>6 DEF Quiet
    <3> QED BY <3>1, <3>2, <3>3, <3>7
  <2>3. ASSUME NEW v \in tasks', v.pc = "set", NEW z \in tasks', z.pc = "set", z # v
        PROVE  z.conn # v.conn
    <3>1. CASE v = u
      BY <1>5, <2>2, <2>3, <3>1
    <3>2. CASE z = u
      BY <1>5, <2>2, <2>3, <3>2
    <3>3. CASE v \in tasks \ {t} /\ z \in tasks \ {t}
      BY <2>3, <3>3 DEF CommitInv, Waiting
    <3> QED BY <1>5, <3>1, <3>2, <3>3
  <2> QED BY <1>5, <2>1, <2>2, <2>3 DEF Waiting
<1> QED BY <1>12, <1>13, <1>14, <1>15, <1>16, <1>17, <1>18, <1>19, <1>20, <1>24, <1>25
        DEF CommitInv

-----------------------------------------------------------------------------
(* Native steps that execute a statement. *)

LEMMA NumbersMore ==
  ASSUME NEW i, NEW n \in Nat \ {0}, NEW s, Of(i, s) = Numbers(i, n - 1)
  PROVE  Of(i, s \cup {<<i, n>>}) = Numbers(i, n)
<1>1. 1 .. n = (1 .. (n - 1)) \cup {n}
  OBVIOUS
<1>2. Numbers(i, n) = Numbers(i, n - 1) \cup {<<i, n>>}
  BY <1>1 DEF Numbers
<1>3. Of(i, s \cup {<<i, n>>}) = Of(i, s) \cup {<<i, n>>}
  BY DEF Of
<1> QED BY <1>2, <1>3

LEMMA NumbersCount ==
  ASSUME NEW i, NEW n \in Nat
  PROVE  IsFiniteSet(Numbers(i, n)) /\ Cardinality(Numbers(i, n)) = n
<1>1. IsFiniteSet(1 .. n) /\ Cardinality(1 .. n) = n
  BY FS_Interval
<1>2. IsFiniteSet({i}) /\ Cardinality({i}) = 1
  BY FS_Singleton
<1>3. /\ IsFiniteSet({i} \X (1 .. n))
      /\ Cardinality({i} \X (1 .. n)) = Cardinality({i}) * Cardinality(1 .. n)
  BY <1>1, <1>2, FS_Product
<1> QED BY <1>1, <1>2, <1>3 DEF Numbers

\* Which write it is, when nothing of the transaction is in the files.
LEMMA NextWrite ==
  ASSUME CoreInv, NEW t \in tasks, NEW c \in 1 .. Len(connections), NotFiled(t.tx),
         NEW n \in Nat, Of(t.tx, connections[c].writes) = Numbers(t.tx, n)
  PROVE  WriteOf(c, t) = <<t.tx, n + 1>>
<1> DEFINE s == {x \in connections[c].writes \cup files[connections[c].file] : x[1] = t.tx}
<1>1. connections[c].file \in 1 .. Len(files)
  BY ConnectionType
<1>2. s = Of(t.tx, connections[c].writes)
  BY <1>1 DEF Of, NotFiled
<1>3. Cardinality(s) = n
  BY <1>2, NumbersCount
<1> QED BY <1>3 DEF WriteOf

\* The step of a statement on the connection in the table, by what it makes of
\* the connection and the files.
Steps(t, u) ==
  LET c == table[t.db]
      k == connections[c]
      r == connections'[c]
      sql == Head(t.sqls)
      w == WriteOf(c, t)
  IN  \/ /\ sql = "BEGIN" /\ k.begun = 0 /\ u.error = t.error
         /\ r.begun = t.tx /\ r.writes = k.writes /\ UNCHANGED files
      \/ /\ sql = "WRITE" /\ k.begun # 0 /\ u.error = t.error
         /\ r.begun = k.begun /\ r.writes = k.writes \cup {w} /\ UNCHANGED files
      \/ /\ sql = "WRITE" /\ k.begun = 0 /\ u.error = t.error /\ r = k
         /\ \A z : InFiles(z)' <=> InFiles(z) \/ z = w
      \/ /\ sql = "COMMIT" /\ k.begun # 0 /\ u.error = t.error
         /\ r.begun = 0 /\ r.writes = {}
         /\ \A z : InFiles(z)' <=> InFiles(z) \/ z \in k.writes
      \/ /\ sql = "ROLLBACK" /\ k.begun # 0 /\ u.error = t.error
         /\ r.begun = 0 /\ r.writes = {} /\ UNCHANGED files
      \/ /\ sql = "COMMIT" /\ k.begun # 0 /\ u.error = TRUE
         /\ r.begun = 0 /\ r.writes = {} /\ UNCHANGED files
      \/ /\ u.error = TRUE /\ r = k /\ UNCHANGED files
         /\ \/ sql = "BEGIN" /\ k.begun # 0
            \/ sql = "WRITE" \/ sql = "COMMIT"
            \/ sql = "ROLLBACK" /\ k.begun = 0

\* That a write is in the files, and which are.
LEMMA FilesAgree ==
  ASSUME NEW i
  PROVE  NotFiled(i) <=> \A w : InFiles(w) => w[1] # i
  BY DEF NotFiled, InFiles

LEMMA StepOf ==
  ASSUME CoreInv, NEW t \in tasks, NEW u, Executes(t, u)
  PROVE  LET c == table[t.db]
         IN  /\ c \in 1 .. Len(connections) /\ connections[c].open
             /\ Len(connections') = Len(connections)
             /\ \A e \in 1 .. Len(connections) : e # c => connections'[e] = connections[e]
             /\ connections'[c].db = connections[c].db
             /\ connections'[c].open = connections[c].open
             /\ UNCHANGED table
             /\ \A w : InFiles(w) => InFiles(w)'
             /\ Steps(t, u)
<1> DEFINE c == table[t.db]
           k == connections[c]
           r == connections'[c]
           f == k.file
           sql == Head(t.sqls)
           w == WriteOf(c, t)
<1>1. /\ c \in 1 .. Len(connections) /\ f \in 1 .. Len(files)
      /\ connections' \in Seq(Connections) /\ Len(connections') = Len(connections)
      /\ files' \in Seq(SUBSET (Nat \X Nat)) /\ Len(files') = Len(files)
      /\ \A e \in 1 .. Len(connections) : e # c => connections'[e] = connections[e]
      /\ \A e \in 1 .. Len(files) : e # f => files'[e] = files[e]
      /\ r.db = k.db /\ r.file = k.file /\ r.open = k.open
  BY ExecuteKeeps
<1>2. \/ /\ sql = "BEGIN" /\ k.begun = 0 /\ u.error = t.error
         /\ r.begun = t.tx /\ r.writes = k.writes
         /\ files'[f] = files[f]
      \/ /\ sql = "WRITE" /\ k.begun # 0 /\ u.error = t.error
         /\ r.begun = k.begun /\ r.writes = k.writes \cup {w}
         /\ files'[f] = files[f]
      \/ /\ sql = "WRITE" /\ k.begun = 0 /\ u.error = t.error
         /\ r = k /\ files'[f] = files[f] \cup {w}
      \/ /\ sql = "COMMIT" /\ k.begun # 0 /\ u.error = t.error
         /\ r.begun = 0 /\ r.writes = {}
         /\ files'[f] = files[f] \cup k.writes
      \/ /\ sql = "ROLLBACK" /\ k.begun # 0 /\ u.error = t.error
         /\ r.begun = 0 /\ r.writes = {}
         /\ files'[f] = files[f]
      \/ /\ sql = "COMMIT" /\ k.begun # 0 /\ u.error = TRUE
         /\ r.begun = 0 /\ r.writes = {}
         /\ files'[f] = files[f]
      \/ /\ u.error = TRUE /\ r = k /\ files'[f] = files[f]
         /\ \/ sql = "BEGIN" /\ k.begun # 0
            \/ sql = "WRITE" \/ sql = "COMMIT"
            \/ sql = "ROLLBACK" /\ k.begun = 0
  BY ExecuteKeeps
<1>3. c # 0 /\ k.open /\ UNCHANGED table
  BY DEF Executes
<1>4. files \in Seq(SUBSET (Nat \X Nat))
  BY DEF CoreInv, Types
<1> HIDE DEF c, k, r, f, sql, w
<1>5. files'[f] = files[f] => UNCHANGED files
  <2> SUFFICES ASSUME files'[f] = files[f] PROVE files' = files
    OBVIOUS
  <2>1. \A e \in 1 .. Len(files) : files'[e] = files[e]
    BY <1>1
  <2>2. DOMAIN files = 1 .. Len(files) /\ DOMAIN files' = 1 .. Len(files)
    BY <1>1, <1>4
  <2>3. files = [e \in DOMAIN files |-> files[e]] /\ files' = [e \in DOMAIN files' |-> files'[e]]
    BY <1>1, <1>4
  <2> QED BY <2>1, <2>2, <2>3
<1>6. ASSUME NEW s, files'[f] = files[f] \cup s
      PROVE  \A z : InFiles(z)' <=> InFiles(z) \/ z \in s
  BY <1>1, <1>6 DEF InFiles
<1>7. files'[f] = files[f] \cup {w} => \A z : InFiles(z)' <=> InFiles(z) \/ z = w
  <2> SUFFICES ASSUME files'[f] = files[f] \cup {w} PROVE \A z : InFiles(z)' <=> InFiles(z) \/ z = w
    OBVIOUS
  <2>1. \A z : InFiles(z)' <=> InFiles(z) \/ z \in {w}
    BY <1>6
  <2> QED BY <2>1
<1>8. files'[f] = files[f] \cup k.writes => \A z : InFiles(z)' <=> InFiles(z) \/ z \in k.writes
  BY <1>6
<1>9. files'[f] = files[f] => \A z : InFiles(z)' <=> InFiles(z)
  BY <1>5 DEF InFiles
<1>10. \A z : InFiles(z) => InFiles(z)'
  BY <1>2, <1>7, <1>8, <1>9
<1>11. Steps(t, u)
  BY <1>2, <1>5, <1>7, <1>8 DEF Steps, c, k, r, sql, w
<1> QED BY <1>1, <1>3, <1>10, <1>11 DEF c, k, r, f

\* Where a batch is and what is left of it when its next statement is sql.
LEMMA ScriptStep ==
  ASSUME CoreInv, NEW t \in tasks, NEW u, Executes(t, u)
  PROVE  LET x == transactions[t.tx]
             sql == Head(t.sqls)
         IN  /\ t.pc = "statement" /\ Live(t) /\ Running(t) /\ Live(u)
             /\ u.tx = t.tx /\ u.db = t.db /\ u.id = t.id /\ u.page = t.page
             /\ sql \in {"BEGIN", "WRITE", "COMMIT", "ROLLBACK"}
             /\ sql = "BEGIN" => /\ Unbegun(t) /\ PendingWrite(t)
                                 /\ x.locked /\ x.phase = "running" /\ x.writes = 1 /\ ~t.error
                                 /\ u.pc = "statement" /\ PendingWrite(u) /\ ~Unbegun(u)
             /\ sql # "BEGIN" => ~Unbegun(t) /\ u.pc = "done" /\ ~PendingWrite(u) /\ ~Unbegun(u)
             /\ sql = "WRITE" => PendingWrite(t) /\ x.phase = "running"
             /\ sql = "COMMIT" => /\ x.locked /\ x.phase = "finishing" /\ ~t.error
                                  /\ ~PendingWrite(t)
             /\ sql = "ROLLBACK" => x.locked /\ x.phase = "aborting"
<1> DEFINE x == transactions[t.tx]
           sql == Head(t.sqls)
<1>1. /\ t.pc = "statement" /\ Moves(t, u) /\ u.sqls = Tail(t.sqls)
      /\ u.pc = IF Len(t.sqls) = 1 THEN "done" ELSE "statement"
  BY DEF Executes
<1>2. /\ u.tx = t.tx /\ u.db = t.db /\ u.id = t.id /\ u.page = t.page /\ u.kind = t.kind
  BY <1>1 DEF Moves
<1>3. /\ t.kind = "batch" /\ Script(t) /\ t.sqls # <<>>
      /\ \/ /\ t.sqls = <<"BEGIN", "WRITE">> /\ Len(t.sqls) # 1
           /\ sql = "BEGIN" /\ Tail(t.sqls) = <<"WRITE">>
         \/ /\ \E s \in {"WRITE", "COMMIT", "ROLLBACK"} : t.sqls = <<s>> /\ sql = s
           /\ Len(t.sqls) = 1 /\ Tail(t.sqls) = <<>>
  BY <1>1, StatementOf
<1>4. Len(<<"BEGIN", "WRITE">>) = 2 /\ Len(<<"WRITE">>) = 1
  OBVIOUS
<1>5. /\ Head(<<"WRITE">>) = "WRITE" /\ Head(<<"COMMIT">>) = "COMMIT"
      /\ Head(<<"ROLLBACK">>) = "ROLLBACK" /\ Head(<<"BEGIN", "WRITE">>) = "BEGIN"
  OBVIOUS
<1>6. CASE t.sqls = <<"BEGIN", "WRITE">> /\ Len(t.sqls) # 1 /\ sql = "BEGIN"
           /\ Tail(t.sqls) = <<"WRITE">>
  <2>1. x.locked /\ x.phase = "running" /\ x.writes = 1 /\ ~t.error
    BY <1>3, <1>5, <1>6 DEF Script
  <2>2. u.pc = "statement" /\ u.sqls = <<"WRITE">> /\ u.sqls # <<"BEGIN", "WRITE">>
    BY <1>1, <1>4, <1>6
  <2> QED BY <1>1, <1>2, <1>3, <1>6, <2>1, <2>2
          DEF Live, Running, Unbegun, PendingWrite
<1>7. CASE /\ \E s \in {"WRITE", "COMMIT", "ROLLBACK"} : t.sqls = <<s>> /\ sql = s
           /\ Len(t.sqls) = 1
  <2>1. u.pc = "done" /\ t.sqls # <<"BEGIN", "WRITE">>
    BY <1>1, <1>4, <1>7
  <2>2. t.sqls = <<sql>> /\ sql \in {"WRITE", "COMMIT", "ROLLBACK"}
    BY <1>7
  <2>3. /\ sql = "WRITE" => t.sqls = <<"WRITE">> /\ x.phase = "running"
        /\ sql = "COMMIT" => x.locked /\ x.phase = "finishing" /\ ~t.error /\ t.sqls # <<"WRITE">>
        /\ sql = "ROLLBACK" => x.locked /\ x.phase = "aborting"
    BY <1>3, <1>5, <2>1, <2>2 DEF Script
  <2> QED BY <1>1, <1>2, <1>3, <2>1, <2>2, <2>3
          DEF Live, Running, Unbegun, PendingWrite
<1> QED BY <1>3, <1>6, <1>7

\* The batch itself.
LEMMA ExecuteStage ==
  ASSUME TableInv, CommitInv, NEW t \in tasks, NEW u, Executes(t, u), Ordered(t.db),
         transactions[t.tx].locked
  PROVE  Stage(u)'
<1> DEFINE x == transactions[t.tx]
           i == t.tx
           c == table[t.db]
           k == connections[c]
           r == connections'[c]
           sql == Head(t.sqls)
           w == WriteOf(c, t)
<1>1. CoreInv /\ UNCHANGED transactions
  BY NativeKeeps DEF TableInv, Executes
<1>2. /\ t.pc = "statement" /\ Live(t) /\ Live(u) /\ u.tx = i /\ u.db = t.db
      /\ sql \in {"BEGIN", "WRITE", "COMMIT", "ROLLBACK"}
      /\ sql = "BEGIN" => /\ Unbegun(t) /\ PendingWrite(t)
                          /\ x.phase = "running" /\ x.writes = 1 /\ ~t.error
                          /\ u.pc = "statement" /\ PendingWrite(u) /\ ~Unbegun(u)
      /\ sql # "BEGIN" => ~Unbegun(t) /\ u.pc = "done" /\ ~PendingWrite(u) /\ ~Unbegun(u)
      /\ sql = "WRITE" => PendingWrite(t) /\ x.phase = "running"
      /\ sql = "COMMIT" => x.phase = "finishing" /\ ~t.error /\ ~PendingWrite(t)
      /\ sql = "ROLLBACK" => x.phase = "aborting"
  BY <1>1, ScriptStep
<1>3. /\ c \in 1 .. Len(connections) /\ c # 0 /\ k.open
      /\ Len(connections') = Len(connections)
      /\ \A e \in 1 .. Len(connections) : e # c => connections'[e] = connections[e]
      /\ r.open = k.open /\ UNCHANGED table
      /\ Steps(t, u)
  BY <1>1, StepOf
<1>0. UNCHANGED table
  BY <1>3
<1>4. /\ i \in TransactionIds /\ i # 0 /\ x.writes \in {1, 2} /\ t.db = x.db /\ x.outcome = "none"
      /\ t.error \in BOOLEAN
  BY <1>1, <1>2, LiveTask
<1>5. Stage(t)
  BY <1>2 DEF CommitInv, Stages, LiveLocked
<1>6. \A e \in 1 .. Len(connections) : e # c => Apart(e, i)
  BY <1>2, <1>5 DEF Stage, Begun, LiveLocked
<1>7. ~Unbegun(t) => StageAt(c, t)
  BY <1>2, <1>5 DEF Stage, Begun, LiveLocked
<1>8. Unbegun(t) => Apart(c, i)
  BY <1>3, <1>5 DEF Stage
<1>9. k.begun = 0 => k.writes = {}
  BY <1>3 DEF CommitInv, Homes
<1>10. x.phase # "finishing" => NotFiled(i)
  BY <1>4 DEF CommitInv, Filed, Uncommitted
<1>11. \A e \in 1 .. Len(connections') : e # c => Apart(e, i)'
  BY <1>3, <1>6 DEF Apart
<1> SUFFICES StageAt(c, u)'
  BY <1>2, <1>3, <1>11 DEF Stage
<1>12. CASE sql = "BEGIN"
  <2>1. Made(u)' = 0
    BY <1>1, <1>0, <1>2, <1>12 DEF Made, PendingWrite
  <2>2. CASE k.begun = 0 /\ u.error = t.error /\ r.begun = i /\ r.writes = k.writes
    <3>1. r.writes = {}
      BY <1>9, <2>2
    <3>2. Of(i, r.writes) = Numbers(i, 0)
      BY <3>1 DEF Of, Numbers
    <3> QED BY <1>1, <1>0, <1>2, <1>4, <1>12, <2>1, <2>2, <3>2 DEF StageAt, Has
  <2>3. CASE u.error = TRUE /\ r = k /\ k.begun # 0
    BY <1>1, <1>0, <1>2, <1>12, <2>3 DEF StageAt
  <2> QED BY <1>3, <1>12, <2>2, <2>3 DEF Steps
<1>13. CASE sql = "WRITE"
  <2>1. k.begun # 0 /\ (~t.error => Has(c, t))
    BY <1>2, <1>7, <1>13 DEF StageAt
  <2>2. Made(t) = x.writes - 1 /\ Made(u)' = x.writes
    BY <1>1, <1>0, <1>2, <1>13 DEF Made, PendingWrite
  <2>3. CASE u.error = t.error /\ r.begun = k.begun /\ r.writes = k.writes \cup {w}
    <3>1. ASSUME ~t.error PROVE r.begun = i /\ Of(i, r.writes) = Numbers(i, x.writes)
      <4>1. k.begun = i /\ Of(i, k.writes) = Numbers(i, x.writes - 1)
        BY <2>1, <2>2, <3>1 DEF Has
      <4>2. x.writes - 1 \in Nat /\ x.writes \in Nat \ {0}
        BY <1>4
      <4>3. w = <<i, (x.writes - 1) + 1>>
        BY <1>1, <1>0, <1>2, <1>3, <1>10, <1>13, <4>1, <4>2, NextWrite
      <4>4. w = <<i, x.writes>>
        BY <4>2, <4>3
      <4>5. Of(i, k.writes \cup {<<i, x.writes>>}) = Numbers(i, x.writes)
        BY <4>1, <4>2, NumbersMore
      <4> QED BY <2>3, <4>1, <4>4, <4>5
    <3> QED BY <1>1, <1>0, <1>2, <1>13, <2>1, <2>2, <2>3, <3>1 DEF StageAt, Has
  <2>4. CASE u.error = TRUE /\ r = k
    BY <1>1, <1>0, <1>2, <1>13, <2>1, <2>4 DEF StageAt
  <2> QED BY <1>3, <1>13, <2>1, <2>3, <2>4 DEF Steps
<1>14. CASE sql = "COMMIT"
  <2>1. Has(c, t) /\ Made(t) = x.writes
    BY <1>2, <1>7, <1>14 DEF StageAt, Made
  <2>2. k.begun # 0 /\ \A z \in Numbers(i, x.writes) : z \in k.writes
    BY <1>4, <2>1 DEF Has, Of
  <2>3. k.begun = i
    BY <2>1 DEF Has
  <2>4. \/ r.begun = 0 /\ u.error = t.error /\ \A z \in k.writes : InFiles(z)'
        \/ r.begun \in {0, i} /\ u.error = TRUE
    BY <1>3, <1>14, <2>2, <2>3 DEF Steps
  <2> QED BY <1>1, <1>0, <1>2, <1>14, <2>2, <2>4 DEF StageAt
<1>15. CASE sql = "ROLLBACK"
  <2>1. k.begun # 0
    BY <1>2, <1>7, <1>15 DEF StageAt
  <2>2. r.begun = 0
    BY <1>3, <1>15, <2>1 DEF Steps
  <2> QED BY <1>1, <1>0, <1>2, <1>15, <2>2 DEF StageAt
<1> QED BY <1>2, <1>12, <1>13, <1>14, <1>15

\* A transaction of the page without BEGIN is not executed inside another, if the
\* one before it was not left open.
LEMMA PlainIsAlone ==
  ASSUME TableInv, CommitInv, NEW t \in tasks, Live(t), ~transactions[t.tx].locked,
         t.page = page, Outside(t.tx), table[t.db] # 0
  PROVE  connections[table[t.db]].begun = 0
<1>1. PICK b : b = connections[table[t.db]].begun
  OBVIOUS
<1> SUFFICES ASSUME b # 0 PROVE FALSE
  BY <1>1
<1>2. CoreInv /\ Dictionary
  BY DEF TableInv
<1>3. PICK i : i = t.tx
  OBVIOUS
<1>4. PICK d : d = t.db
  OBVIOUS
<1>5. i \in TransactionIds /\ i # 0 /\ d = transactions[i].db /\ d \in Databases
  BY <1>2, <1>3, <1>4, LiveTask
<1>6. table[d] \in 1 .. Len(connections) /\ connections[table[d]].db = d
  BY <1>2, <1>4, <1>5, DatabaseType DEF Dictionary
<1>7. b \in TransactionIds
  BY <1>1, <1>2, <1>4, <1>6, ConnectionType DEF TransactionIds
<1>8. b \in Nat \ {0} /\ i \in Nat \ {0} /\ i <= Len(transactions) /\ Len(transactions) \in Nat
  BY <1>2, <1>5, <1>7, TransactionType, DatabaseType
<1>9. Ordered(d)
  BY <1>3, <1>5 DEF Outside
<1>10. transactions[b].locked /\ transactions[b].db = d /\ MayBeOpen(b)
  BY <1>1, <1>4, <1>6, <1>9 DEF CommitInv, Homes, Begins
<1>11. b < i
  <2>1. current[d] = i
    BY <1>2, <1>3, <1>4 DEF CoreInv, PageView, Live
  <2>2. b <= i
    BY <1>5, <1>7, <1>10, <2>1 DEF CommitInv, Latest
  <2> QED BY <1>3, <1>8, <1>10, <2>2
<1>12. \A k \in TransactionIds :
         k > b /\ transactions[k].db = d /\ transactions[k].locked =>
           transactions[k].outcome = "none"
  BY <1>1, <1>4, <1>5, <1>9 DEF CommitInv, Recent, NoneEndedAfter
<1> DEFINE T == {j \in 1 .. i - 1 : transactions[j].locked /\ transactions[j].db = d}
<1>13. T \subseteq Nat /\ b \in T /\ \A j \in T : j <= i
  BY <1>8, <1>10, <1>11
<1>14. Max(T) \in T /\ \A j \in T : j <= Max(T)
  <2> HIDE DEF T
  <2> QED BY <1>8, <1>13, NatMax
<1>15. PICK j \in T : \A k \in T : k <= j
  BY <1>14
<1>16. j \in 1 .. i - 1 /\ transactions[j].locked /\ transactions[j].db = d
  OBVIOUS
<1>17. MayBeOpen(j)
  <2>1. j >= b /\ j \in TransactionIds
    BY <1>8, <1>13, <1>15, <1>16 DEF TransactionIds
  <2>2. CASE j = b
    BY <1>10, <2>2
  <2>3. CASE j > b
    BY <1>12, <1>16, <2>1, <2>3 DEF MayBeOpen
  <2> QED BY <1>8, <1>16, <2>1, <2>2, <2>3
<1>18. \A k \in j + 1 .. i - 1 : ~(transactions[k].locked /\ transactions[k].db = d)
  <2> SUFFICES ASSUME NEW k \in j + 1 .. i - 1, transactions[k].locked, transactions[k].db = d
               PROVE  FALSE
    OBVIOUS
  <2>1. k \in 1 .. i - 1 /\ k > j
    BY <1>8, <1>16
  <2>2. k <= j
    BY <1>15, <2>1
  <2> QED BY <1>8, <1>16, <2>1, <2>2
<1>19. LeftOpenBefore(i)
  BY <1>5, <1>16, <1>17, <1>18 DEF LeftOpenBefore, MayBeOpen
<1> QED BY <1>3, <1>19 DEF Outside

LEMMA ExecuteCommit ==
  ASSUME TableInv, CommitInv, NEW t \in tasks, ExecuteSql(t)
  PROVE  CommitInv'
<1> DEFINE i == t.tx
           x == transactions[i]
           sql == Head(t.sqls)
<1>1. CoreInv /\ Alone /\ Dictionary /\ Ready
  BY DEF TableInv
<1>2. Native(t)
  BY DEF Native
<1>3. PICK u : Executes(t, u)
  BY <1>1, ExecuteEffect
<1>4. UNCHANGED <<platform, page, handle, current, transactions, overlap, table>>
      /\ (\A d : Ordered(d)' <=> Ordered(d)) /\ TransactionIds' = TransactionIds
      /\ NativeStep(t) /\ Moves(t, u)
  BY <1>3, NativeKeeps DEF Executes
<1>5. PICK c : c = table[t.db]
  OBVIOUS
<1>6. PICK w : w = WriteOf(c, t)
  OBVIOUS
<1>7. w[1] = i
  BY <1>6 DEF WriteOf
<1>8. /\ c \in 1 .. Len(connections) /\ c # 0 /\ connections[c].open
      /\ Len(connections') = Len(connections)
      /\ \A e \in 1 .. Len(connections) : e # c => connections'[e] = connections[e]
      /\ connections'[c].db = connections[c].db
      /\ \A z : InFiles(z) => InFiles(z)'
  BY <1>1, <1>3, <1>5, StepOf
<1>9. LET k == connections[c]
          r == connections'[c]
      IN  \/ /\ sql = "BEGIN" /\ k.begun = 0
             /\ r.begun = i /\ r.writes = k.writes /\ UNCHANGED files
          \/ /\ sql = "WRITE" /\ k.begun # 0 /\ u.error = t.error
             /\ r.begun = k.begun /\ r.writes = k.writes \cup {w} /\ UNCHANGED files
          \/ /\ sql = "WRITE" /\ k.begun = 0 /\ u.error = t.error /\ r = k
             /\ \A z : InFiles(z)' <=> InFiles(z) \/ z = w
          \/ /\ sql = "COMMIT" /\ k.begun # 0 /\ u.error = t.error
             /\ r.begun = 0 /\ r.writes = {}
             /\ \A z : InFiles(z)' <=> InFiles(z) \/ z \in k.writes
          \/ /\ sql \in {"COMMIT", "ROLLBACK"}
             /\ r.begun = 0 /\ r.writes = {} /\ UNCHANGED files
          \/ /\ u.error = TRUE /\ r = k /\ UNCHANGED files
  BY <1>1, <1>3, <1>5, <1>6, StepOf DEF Steps
<1>10. /\ t.pc = "statement" /\ Live(t) /\ Running(t) /\ Live(u)
       /\ u.tx = i /\ u.db = t.db /\ u.id = t.id /\ u.page = t.page
       /\ sql = "BEGIN" => x.locked
       /\ sql # "BEGIN" => u.pc = "done"
       /\ sql = "WRITE" => x.phase = "running" /\ ~Unbegun(t)
       /\ sql = "COMMIT" => x.locked /\ x.phase = "finishing" /\ ~Unbegun(t) /\ ~t.error
       /\ sql = "ROLLBACK" => x.locked
  BY <1>1, <1>3, ScriptStep
<1>11. /\ i \in TransactionIds /\ i # 0 /\ t.db = x.db /\ t.db \in Databases
       /\ t.page = x.page /\ x.outcome = "none" /\ x.locked \in BOOLEAN
  BY <1>1, <1>10, LiveTask
<1>12. connections[c].db = t.db
  BY <1>1, <1>5, <1>8, <1>11 DEF Dictionary
<1>13. \A v \in tasks' : v \in tasks \ {t} \/ (v = u /\ (Running(u) \/ u.page = page))
  BY <1>4, MovedTasks
<1>14. \A v \in tasks : Live(v) /\ v # t => v.tx # i
  BY <1>1, <1>10, OneBatch DEF Live
<1>15. Ordered(t.db) /\ x.locked => Stage(t)
  BY <1>10 DEF CommitInv, Stages, LiveLocked
<1>16. Ordered(t.db) /\ x.locked /\ ~Unbegun(t) => StageAt(c, t)
  BY <1>5, <1>10, <1>15 DEF Stage, Begun, LiveLocked
<1>17. Ordered(t.db) /\ x.locked /\ sql = "WRITE" => connections[c].begun # 0
  BY <1>10, <1>16 DEF StageAt
<1>18. Ordered(t.db) /\ sql = "COMMIT" => \A z \in connections[c].writes : z[1] = i
  <2> SUFFICES ASSUME Ordered(t.db), sql = "COMMIT"
               PROVE  \A z \in connections[c].writes : z[1] = i
    OBVIOUS
  <2>1. connections[c].begun = i
    BY <1>10, <1>16 DEF StageAt, Has
  <2> QED BY <1>8, <1>10, <1>11, <1>12, <2>1 DEF CommitInv, Begins
<1>19. Front'
  <2> SUFFICES ASSUME NEW v \in tasks', Begun(v)', Ordered(v.db)',
                      NEW z \in tasks', z.db = v.db, Running(z)
               PROVE  v.id <= z.id
    BY DEF Front, Running
  <2>1. Begun(v) /\ Ordered(v.db)
    BY <1>4 DEF Begun, LiveLocked, Live, Unbegun
  <2>2. CASE v = u
    <3>1. \A y \in tasks : y.db = t.db /\ Running(y) => t.id <= y.id
      BY <1>1, <1>4, <1>10, <2>1, <2>2, FirstSteps
    <3> QED BY <1>10, <1>13, <2>2, <3>1
  <2>3. CASE v \in tasks
    <3>1. \A y \in tasks : y.db = v.db /\ Running(y) => v.id <= y.id
      BY <2>1, <2>3 DEF CommitInv, Front
    <3> QED BY <1>10, <1>13, <3>1
  <2> QED BY <1>13, <2>2, <2>3
<1>20. Stages'
  <2> SUFFICES ASSUME NEW v \in tasks', LiveLocked(v)', Ordered(v.db)'
               PROVE  Stage(v)'
    BY DEF Stages
  <2>1. LiveLocked(v) /\ Live(v) /\ Ordered(v.db)
    BY <1>4 DEF LiveLocked, Live
  <2>2. CASE v = u
    BY <1>3, <1>10, <2>1, <2>2, ExecuteStage DEF LiveLocked
  <2>3. CASE v \in tasks /\ v # t
    <3>1. Stage(v) /\ Front
      BY <2>1, <2>3 DEF CommitInv, Stages
    <3>2. v.tx # i /\ v.tx # 0
      BY <1>1, <1>14, <2>1, <2>3, LiveTask
    <3>3. Apart(c, v.tx) => Apart(c, v.tx)'
      BY <1>7, <1>9, <3>2 DEF Apart
    <3>4. \A e \in 1 .. Len(connections') :
             Apart(e, v.tx)' \/ (~Apart(e, v.tx) /\ e \in 1 .. Len(connections))
      BY <1>8, <3>3 DEF Apart
    <3> QED BY <1>2, <1>8, <1>10, <2>1, <2>3, <3>1, <3>4, OthersKeepStage
  <2> QED BY <1>13, <2>2, <2>3
<1>21. Homes'
  <2>1. \A e \in 1 .. Len(connections) :
          LET k == connections[e]
          IN  /\ k.begun = 0 => k.writes = {}
              /\ k.begun # 0 => transactions[k.begun].locked /\ transactions[k.begun].db = k.db
              /\ \A z \in k.writes : transactions[z[1]].db = k.db
    BY DEF CommitInv, Homes
  <2>2. LET k == connections'[c]
        IN  /\ k.begun = 0 => k.writes = {}
            /\ k.begun # 0 => transactions[k.begun].locked /\ transactions[k.begun].db = k.db
            /\ \A z \in k.writes : transactions[z[1]].db = k.db
    BY <1>7, <1>8, <1>9, <1>10, <1>11, <1>12, <2>1
  <2> QED BY <1>4, <1>8, <2>1, <2>2 DEF Homes
<1>22. Begins'
  <2> SUFFICES ASSUME NEW e \in 1 .. Len(connections'), connections'[e].begun # 0,
                      Ordered(connections[e].db)'
               PROVE  /\ MayBeOpen(connections[e].begun)'
                      /\ \A v \in tasks' : Live(v) /\ v.tx = connections'[e].begun =>
                           \A z \in connections'[e].writes : z[1] = v.tx
    BY DEF Begins, Live, MayBeOpen
  <2>1. e \in 1 .. Len(connections) /\ Ordered(connections[e].db)
    BY <1>4, <1>8
  <2>2. \A v \in tasks' : Live(v) => \E y \in tasks : Live(y) /\ y.tx = v.tx
    BY <1>10, <1>13
  <2>3. connections[e].begun # 0 =>
          /\ MayBeOpen(connections[e].begun)
          /\ \A v \in tasks : Live(v) /\ v.tx = connections[e].begun =>
               \A z \in connections[e].writes : z[1] = v.tx
    BY <2>1 DEF CommitInv, Begins
  <2>4. CASE connections'[e] = connections[e]
    BY <1>4, <2>2, <2>3, <2>4 DEF MayBeOpen
  <2>5. CASE e = c /\ connections[c].begun = 0 /\ connections'[c].begun = i
             /\ connections'[c].writes = connections[c].writes
    <3>1. connections[c].writes = {}
      BY <1>8, <2>5 DEF CommitInv, Homes
    <3> QED BY <1>4, <1>11, <2>5, <3>1 DEF MayBeOpen
  <2>6. CASE e = c /\ sql = "WRITE" /\ connections[c].begun # 0
             /\ connections'[c].begun = connections[c].begun
             /\ connections'[c].writes = connections[c].writes \cup {w}
    <3>1. ASSUME NEW y \in tasks, Live(y), y.tx = connections[c].begun PROVE y = t
      <4>1. transactions[y.tx].locked /\ transactions[y.tx].db = t.db
        BY <1>8, <1>12, <2>6, <3>1 DEF CommitInv, Homes
      <4>2. y.db = t.db /\ LiveLocked(y)
        BY <1>1, <3>1, <4>1, LiveTask DEF LiveLocked
      <4>3. Ordered(t.db)
        BY <1>12, <2>1, <2>6
      <4>4. Stage(y) /\ Front
        BY <4>2, <4>3 DEF CommitInv, Stages
      <4>5. ~Apart(c, y.tx)
        BY <3>1 DEF Apart
      <4>6. Begun(y)
        BY <1>8, <4>2, <4>4, <4>5 DEF Begun, Stage
      <4> QED BY <1>1, <1>4, <1>10, <4>2, <4>3, <4>4, <4>6, OnlyTheFirst
    <3> QED BY <1>4, <1>7, <2>2, <2>3, <2>6, <3>1 DEF MayBeOpen
  <2> QED BY <1>8, <1>9, <2>4, <2>5, <2>6
<1>23. Filed'
  <2> SUFFICES ASSUME NEW j \in TransactionIds, transactions[j].locked,
                      Ordered(transactions[j].db), Uncommitted(j)'
               PROVE  NotFiled(j)'
    BY <1>4, <1>8 DEF CommitInv, Filed
  <2>6. Uncommitted(j)
    BY <1>4, <1>10, <1>13 DEF Uncommitted, Live
  <2>1. NotFiled(j)
    BY <2>6 DEF CommitInv, Filed
  <2>2. \A z : InFiles(z) => z[1] # j
    BY <2>1, FilesAgree
  <2>3. CASE UNCHANGED files
    BY <2>1, <2>3 DEF NotFiled
  <2>4. CASE sql = "WRITE" /\ connections[c].begun = 0
             /\ \A z : InFiles(z)' <=> InFiles(z) \/ z = w
    <3>1. j # i
      BY <1>11, <1>17, <2>4
    <3>2. \A z : InFiles(z)' => z[1] # j
      BY <1>7, <2>2, <2>4, <3>1
    <3> QED BY <3>2 DEF NotFiled, InFiles
  <2>5. CASE /\ sql = "COMMIT" /\ u.error = t.error
             /\ \A z : InFiles(z)' <=> InFiles(z) \/ z \in connections[c].writes
    <3>1. \A z \in connections[c].writes : z[1] # j
      <4> SUFFICES ASSUME NEW z \in connections[c].writes, z[1] = j PROVE FALSE
        OBVIOUS
      <4>1. transactions[j].db = t.db
        BY <1>8, <1>12 DEF CommitInv, Homes
      <4>2. i = j
        BY <1>18, <2>5, <4>1
      <4>3. x.phase = "finishing" /\ x.outcome = "none" /\ ~u.error /\ u.pc = "done"
        BY <1>10, <1>11, <2>5
      <4>4. \A v \in tasks' : Live(v) /\ v.tx = i => v = u
        BY <1>13, <1>14
      <4> QED BY <1>4, <4>2, <4>3, <4>4 DEF Uncommitted, Live
    <3>2. \A z : InFiles(z)' => z[1] # j
      BY <2>2, <2>5, <3>1
    <3> QED BY <3>2 DEF NotFiled, InFiles
  <2> QED BY <1>9, <2>3, <2>4, <2>5
<1>24. ASSUME NEW j, Unwritten(j), j # i PROVE Unwritten(j)'
  <2>1. \A z : InFiles(z) => z[1] # j
    BY <1>24, FilesAgree DEF Unwritten
  <2>2. \A e \in 1 .. Len(connections) : \A z \in connections[e].writes : z[1] # j
    BY <1>24 DEF Unwritten
  <2>3. \A z : InFiles(z)' => z[1] # j
    BY <1>7, <1>8, <1>9, <1>24, <2>1, <2>2 DEF InFiles
  <2>4. \A z \in connections'[c].writes : z[1] # j
    BY <1>7, <1>8, <1>9, <1>24, <2>2
  <2>5. \A e \in 1 .. Len(connections') : \A z \in connections'[e].writes : z[1] # j
    BY <1>8, <2>2, <2>4
  <2>6. NotFiled(j)'
    BY <2>3 DEF NotFiled, InFiles
  <2> QED BY <2>5, <2>6 DEF Unwritten
<1>25. Plain'
  <2>3. \A j : Outside(j)' <=> Outside(j)
    BY <1>4 DEF Outside, LeftOpenBefore, Ordered
  <2>1. ASSUME NEW v \in tasks', Live(v)', ~transactions'[v.tx].locked
        PROVE  /\ v.pc = "statement" => ~v.error
               /\ v.pc = "statement" \/ v.error => Unwritten(v.tx)'
               /\ v.pc = "done" /\ ~v.error /\ Outside(v.tx)' => InFiles(<<v.tx, 1>>)'
    <3>1. Live(v)
      BY <2>1 DEF Live
    <3>2. CASE v \in tasks /\ v # t
      BY <1>4, <1>8, <1>14, <1>24, <2>1, <2>3, <3>1, <3>2 DEF CommitInv, Plain
    <3>3. CASE v = u /\ (Running(u) \/ u.page = page)
      <4>1. ~x.locked /\ sql = "WRITE" /\ u.pc = "done"
        BY <1>1, <1>3, <1>4, <1>10, <2>1, <3>3, ScriptStep
      <4>2. Unwritten(i) /\ ~t.error
        BY <1>10, <4>1 DEF CommitInv, Plain
      <4>3. u.error => Unwritten(i)'
        <5>1. u.error => u.error # t.error
          BY <4>2
        <5>2. u.error => UNCHANGED files /\ connections'[c] = connections[c]
          BY <1>9, <4>1, <5>1
        <5> QED BY <1>8, <4>2, <5>2 DEF Unwritten, NotFiled
      <4>4. ASSUME ~u.error, Outside(i) PROVE InFiles(<<i, 1>>)'
        <5>1. connections[c].begun = 0
          <6>1. t.page = page
            BY <1>10, <1>13, <3>3, <4>1 DEF Running
          <6>2. Live(t) /\ ~transactions[t.tx].locked /\ Outside(t.tx) /\ table[t.db] # 0
            BY <1>5, <1>8, <1>10, <4>1, <4>4
          <6>3. connections[table[t.db]].begun = 0
            BY <6>1, <6>2, PlainIsAlone
          <6> QED BY <1>5, <6>3
        <5>2. InFiles(w)'
          BY <1>9, <4>1, <4>4, <5>1
        <5>3. Of(i, connections[c].writes) = Numbers(i, 0) /\ NotFiled(i)
          BY <1>8, <4>2 DEF Unwritten, Of, Numbers
        <5>4. w = <<i, 0 + 1>>
          BY <1>1, <1>6, <1>8, <5>3, NextWrite
        <5>5. w = <<i, 1>>
          BY <5>4
        <5> QED BY <5>2, <5>5
      <4> QED BY <1>10, <2>3, <3>3, <4>1, <4>3, <4>4
    <3> QED BY <1>13, <3>2, <3>3
  <2>2. ASSUME NEW j \in TransactionIds', ~transactions'[j].locked
        PROVE  /\ transactions'[j].outcome = "error" => Unwritten(j)'
               /\ transactions'[j].outcome = "success" /\ Outside(j)' => InFiles(<<j, 1>>)'
    BY <1>4, <1>8, <1>11, <1>24, <2>2, <2>3 DEF CommitInv, Plain
  <2> QED BY <2>1, <2>2 DEF Plain
<1>26. Recovered'
  <2> SUFFICES ASSUME NEW d \in Databases \ overlap, NEW j \in TransactionIds,
                      transactions[j].db = d, transactions[j].page = page,
                      transactions[j].locked, transactions[j].outcome # "none",
                      table[d] # 0, connections'[table[d]].begun # 0
               PROVE  transactions[connections'[table[d]].begun].page = page
    BY <1>4 DEF Recovered
  <2>1. connections[table[d]].begun # 0 =>
          transactions[connections[table[d]].begun].page = page
    BY DEF CommitInv, Recovered
  <2>2. CASE connections'[table[d]].begun = connections[table[d]].begun
    BY <2>1, <2>2
  <2>3. CASE connections'[table[d]].begun # connections[table[d]].begun
    <3>1. table[d] \in 1 .. Len(connections)
      BY <1>1, DatabaseType
    <3>2. table[d] = c /\ connections'[c].begun = i
      BY <1>8, <1>9, <2>3, <3>1
    <3>3. d = t.db
      BY <1>1, <1>12, <3>2 DEF Dictionary
    <3>4. UsedByPage(d)
      BY DEF UsedByPage
    <3>5. t.page = page
      BY <1>1, <3>3, <3>4 DEF Alone
    <3> QED BY <1>11, <3>2, <3>5
  <2> QED BY <2>2, <2>3
<1>27. Latest'
  BY <1>4 DEF CommitInv, Latest
<1>28. \A j, d : NoneEndedAfter(j, d)' <=> NoneEndedAfter(j, d)
  BY <1>4 DEF NoneEndedAfter
<1>29. Pending'
  BY <1>4, <1>10, <1>13, <1>28 DEF CommitInv, Pending, Live
<1>30. Recent'
  <2> SUFFICES ASSUME NEW d \in Databases, table[d] # 0, connections'[table[d]].begun # 0,
                      Ordered(d)
               PROVE  NoneEndedAfter(connections'[table[d]].begun, d)
    BY <1>4, <1>28 DEF Recent
  <2>1. CASE connections'[table[d]].begun = connections[table[d]].begun
    BY <2>1 DEF CommitInv, Recent
  <2>2. CASE connections'[table[d]].begun # connections[table[d]].begun
    <3>1. table[d] \in 1 .. Len(connections)
      BY <1>1, DatabaseType
    <3>2. table[d] = c /\ connections'[c].begun = i
      BY <1>8, <1>9, <2>2, <3>1
    <3>3. d = t.db
      BY <1>1, <1>12, <3>2 DEF Dictionary
    <3> QED BY <1>10, <3>2, <3>3 DEF CommitInv, Pending
  <2> QED BY <2>1, <2>2
<1>31. Waiting'
  <2>1. u.pc # "set"
    BY <1>3 DEF Executes
  <2>2. \A v \in tasks' : v.pc = "set" => v \in tasks
    BY <1>13, <2>1
  <2>3. ASSUME NEW v \in tasks, v.pc = "set" PROVE connections'[v.conn].begun = 0
    <3>1. v.conn # 0 /\ connections[v.conn].begun = 0 /\ v.conn # c
      BY <1>5, <1>11, <2>3 DEF CommitInv, Waiting
    <3>2. v.conn \in 1 .. Len(connections)
      BY <1>1, <3>1, TaskType
    <3> QED BY <1>8, <3>1, <3>2
  <2> QED BY <1>4, <2>2, <2>3 DEF CommitInv, Waiting
<1> QED BY <1>19, <1>20, <1>21, <1>22, <1>23, <1>25, <1>26, <1>27, <1>29, <1>30, <1>31
        DEF CommitInv

-----------------------------------------------------------------------------
(* Answers to batches. *)

LEMMA TransactionsUpdate ==
  ASSUME CoreInv, NEW i \in TransactionIds, NEW y, transactions' = [transactions EXCEPT ![i] = y]
  PROVE  /\ TransactionIds' = TransactionIds
         /\ transactions'[i] = y
         /\ \A j \in TransactionIds : j # i => transactions'[j] = transactions[j]
  BY DEF CoreInv, Types, TransactionIds

LEMMA ReportCommit ==
  ASSUME TableInv, CommitInv, NEW t \in tasks, t.pc = "done", t.kind = "batch", Reports(t),
         UNCHANGED <<platform, page, handle, asked, calls, table, monitor, crashed,
                     sqliteVars, history>>
  PROVE  CommitInv'
<1> DEFINE i == t.tx
           x == transactions[i]
<1>1. CoreInv
  BY DEF TableInv
<1>2. UNCHANGED <<platform, page, table, connections, files, overlap>>
      /\ \A d : Ordered(d)' <=> Ordered(d)
  BY DEF sqliteVars, history, Ordered
<1>3. PICK y \in Transactions :
        /\ transactions' = [transactions EXCEPT ![i] = y]
        /\ y.db = x.db /\ y.page = x.page /\ y.locked = x.locked
        /\ y.writes = x.writes /\ y.phase = x.phase
        /\ \/ /\ ~x.locked \/ x.phase = "finishing"
              /\ y.outcome = IF t.error THEN "error" ELSE "success"
           \/ x.phase = "aborting" /\ y.outcome = "error"
  BY DEF Reports
<1>4. /\ Live(t) /\ i \in TransactionIds /\ i # 0 /\ t.db = x.db /\ x.locked \in BOOLEAN
      /\ x.outcome = "none"
  BY <1>1, LiveTask DEF Live
<1>5. /\ TransactionIds' = TransactionIds
      /\ transactions'[i] = y
      /\ \A j \in TransactionIds : j # i => transactions'[j] = transactions[j]
  BY <1>1, <1>3, <1>4, TransactionsUpdate
<1>6. tasks' = tasks \ {t} /\ \A v \in tasks' : Live(v) => v.tx # i
  BY <1>1, <1>4, OneBatch DEF Reports, Live
<1>7. \A v \in tasks' : Live(v) => v.tx \in TransactionIds
  BY <1>1, <1>6, LiveTask
<1>8. \A j \in TransactionIds :
        /\ transactions'[j].db = transactions[j].db /\ transactions'[j].page = transactions[j].page
        /\ transactions'[j].locked = transactions[j].locked
        /\ transactions'[j].writes = transactions[j].writes
        /\ transactions'[j].phase = transactions[j].phase
  BY <1>3, <1>5
<1>9. \A c \in 1 .. Len(connections) :
        /\ connections[c].begun # 0 => connections[c].begun \in TransactionIds
        /\ \A w \in connections[c].writes : w[1] \in TransactionIds
  BY <1>1, ConnectionType DEF TransactionIds, CoreInv, WritesCounted, Counted
<1>10. Ordered(t.db) /\ x.locked => Stage(t) /\ Begun(t)
  BY <1>4 DEF CommitInv, Stages, LiveLocked, Begun, Unbegun
\* The transaction has ended: no connection is in it, unless its COMMIT failed.
<1>11. ASSUME Ordered(t.db), x.locked
       PROVE  /\ connections[table[t.db]].begun \in {0, i}
              /\ \A e \in 1 .. Len(connections) :
                   connections[e].begun = i => x.phase = "finishing" /\ t.error
              /\ x.phase = "finishing" /\ ~t.error => \A w \in Numbers(i, x.writes) : InFiles(w)
  <2>1. /\ \A e \in 1 .. Len(connections) : e # table[t.db] => Apart(e, i)
        /\ StageAt(table[t.db], t)
    BY <1>10, <1>11 DEF Stage
  <2>2. x.phase \in {"finishing", "aborting"}
    BY <1>3, <1>11
  <2>3. \/ connections[table[t.db]].begun = 0
        \/ connections[table[t.db]].begun = i /\ x.phase = "finishing" /\ t.error
    BY <2>1, <2>2 DEF StageAt
  <2> QED BY <1>4, <2>1, <2>3 DEF StageAt, Apart
<1>12. Front'
  <2>1. \A v \in tasks' : Begun(v)' => Begun(v) /\ v \in tasks
    BY <1>6, <1>7, <1>8 DEF Begun, LiveLocked, Live, Unbegun
  <2> QED BY <1>2, <1>6, <2>1 DEF CommitInv, Front, Running
<1>13. Stages'
  <2> SUFFICES ASSUME NEW v \in tasks', LiveLocked(v)', Ordered(v.db)'
               PROVE  Stage(v)'
    BY DEF Stages
  <2>1. Live(v) /\ v \in tasks /\ Ordered(v.db)
    BY <1>2, <1>6 DEF LiveLocked, Live
  <2>2. transactions'[v.tx] = transactions[v.tx]
    BY <1>5, <1>6, <1>7, <2>1
  <2>3. LiveLocked(v)
    BY <2>1, <2>2 DEF LiveLocked, Live
  <2>4. Stage(v)
    BY <2>1, <2>3 DEF CommitInv, Stages
  <2>5. Begun(v)' => Begun(v)
    BY <2>3 DEF Begun, Unbegun
  <2>6. Unbegun(v)' => Unbegun(v)
    BY DEF Unbegun
  <2>7. \A c : StageAt(c, v) => StageAt(c, v)'
    BY <1>2, <2>2 DEF StageAt, Has, Made, PendingWrite, InFiles
  <2>8. \A c : Apart(c, v.tx) => Apart(c, v.tx)'
    BY <1>2 DEF Apart
  <2> QED BY <1>2, <2>4, <2>5, <2>6, <2>7, <2>8 DEF Stage
<1>14. Homes'
  BY <1>2, <1>8, <1>9 DEF CommitInv, Homes
<1>15. Begins'
  <2> SUFFICES ASSUME NEW c \in 1 .. Len(connections), connections[c].begun # 0,
                      Ordered(connections[c].db)
               PROVE  /\ MayBeOpen(connections[c].begun)'
                      /\ \A v \in tasks' : Live(v) /\ v.tx = connections[c].begun =>
                           \A w \in connections[c].writes : w[1] = v.tx
    BY <1>2 DEF Begins, Live, MayBeOpen
  <2>1. /\ MayBeOpen(connections[c].begun)
        /\ \A v \in tasks : Live(v) /\ v.tx = connections[c].begun =>
             \A w \in connections[c].writes : w[1] = v.tx
    BY DEF CommitInv, Begins
  <2>2. connections[c].begun = i => transactions'[i].phase = "finishing"
                                    /\ transactions'[i].outcome = "error"
    <3> SUFFICES ASSUME connections[c].begun = i
                 PROVE  transactions'[i].phase = "finishing" /\ transactions'[i].outcome = "error"
      OBVIOUS
    <3>1. x.locked /\ x.db = connections[c].db
      BY <1>4 DEF CommitInv, Homes
    <3> QED BY <1>3, <1>4, <1>5, <1>11, <3>1
  <2>3. MayBeOpen(connections[c].begun)'
    BY <1>2, <1>5, <1>9, <2>1, <2>2 DEF MayBeOpen
  <2> QED BY <1>6, <2>1, <2>3
<1>16. Filed'
  <2> SUFFICES ASSUME NEW j \in TransactionIds, transactions[j].locked,
                      Ordered(transactions[j].db)
               PROVE  LET z == transactions'[j]
                      IN  /\ z.phase # "finishing" => z.outcome # "success"
                          /\ Uncommitted(j)' => NotFiled(j)
                          /\ z.outcome = "success" => \A w \in Numbers(j, z.writes) : InFiles(w)
    BY <1>2, <1>5, <1>8 DEF Filed, NotFiled, InFiles
  <2>1. CASE j = i
    <3>1. x.phase # "finishing" \/ t.error => NotFiled(i)
      BY <1>4, <2>1 DEF CommitInv, Filed, Uncommitted
    <3>2. Uncommitted(i)' => x.phase # "finishing" \/ y.outcome = "error"
      BY <1>3, <1>5, <1>6 DEF Uncommitted, Live
    <3> QED BY <1>3, <1>4, <1>5, <1>11, <2>1, <3>1, <3>2
  <2>2. CASE j # i
    <3>1. Uncommitted(j)' => Uncommitted(j)
      BY <1>5, <1>6, <2>2 DEF Uncommitted, Live
    <3> QED BY <1>5, <2>2, <3>1 DEF CommitInv, Filed
  <2> QED BY <2>1, <2>2
<1>20. \A j \in TransactionIds : transactions[j].db = t.db => j <= i
  <2>1. t.db \in Databases /\ current[t.db] = i
    BY <1>1, AnsweredTask, TaskType
  <2> QED BY <1>4, <2>1 DEF CommitInv, Latest
<1>21. ASSUME NEW j \in TransactionIds PROVE Outside(j)' => Outside(j)
  <2>1. j \in Nat /\ i \in Nat /\ \A k \in 1 .. j : k \in TransactionIds
    BY <1>1, <1>4, TransactionType DEF TransactionIds
  <2>2. \A k \in 1 .. j :
          transactions'[k].db = transactions[k].db
          /\ (transactions'[k].locked <=> transactions[k].locked)
    BY <1>8, <2>1
  <2>3. ASSUME NEW k \in 1 .. j - 1, transactions[k].db = transactions[j].db, MayBeOpen(k)
        PROVE  MayBeOpen(k)'
    <3>1. k \in TransactionIds /\ k < j
      BY <2>1
    <3>2. k # i
      BY <1>4, <1>20, <2>1, <2>3, <3>1
    <3> QED BY <1>5, <2>3, <3>1, <3>2 DEF MayBeOpen
  <2>4. Ordered(transactions[j].db)' => Ordered(transactions'[j].db)
    BY <1>2
  <2> QED BY <1>1, <2>2, <2>3, <2>4, OutsideKept
<1>17. Plain'
  <2>1. \A j : Unwritten(j) => Unwritten(j)'
    BY <1>2 DEF Unwritten, NotFiled
  <2>2. \A w : InFiles(w) => InFiles(w)'
    BY <1>2 DEF InFiles
  <2>3. ASSUME NEW v \in tasks', Live(v)', ~transactions'[v.tx].locked
        PROVE  /\ v.pc = "statement" => ~v.error
               /\ v.pc = "statement" \/ v.error => Unwritten(v.tx)'
               /\ v.pc = "done" /\ ~v.error /\ Outside(v.tx)' => InFiles(<<v.tx, 1>>)'
    <3>1. Live(v) /\ v \in tasks
      BY <1>6, <2>3 DEF Live
    <3>2. ~transactions[v.tx].locked
      BY <1>7, <1>8, <2>3, <3>1
    <3> QED BY <1>7, <1>6, <1>21, <2>1, <2>2, <3>1, <3>2 DEF CommitInv, Plain
  <2>4. ASSUME NEW j \in TransactionIds', ~transactions'[j].locked
        PROVE  /\ transactions'[j].outcome = "error" => Unwritten(j)'
               /\ transactions'[j].outcome = "success" /\ Outside(j)' => InFiles(<<j, 1>>)'
    <3>1. CASE j # i
      BY <1>5, <1>21, <2>1, <2>2, <2>4, <3>1 DEF CommitInv, Plain
    <3>2. CASE j = i
      <4>1. ~x.locked /\ x.phase = "running"
        BY <1>1, <1>4, <1>8, <2>4, <3>2 DEF CoreInv, PageView
      <4>2. /\ t.error => Unwritten(i)
            /\ ~t.error /\ Outside(i) => InFiles(<<i, 1>>)
        BY <1>4, <4>1 DEF CommitInv, Plain
      <4>3. y.outcome = IF t.error THEN "error" ELSE "success"
        BY <1>3, <4>1
      <4> QED BY <1>4, <1>5, <1>21, <2>1, <2>2, <3>2, <4>2, <4>3
    <3> QED BY <3>1, <3>2
  <2> QED BY <2>3, <2>4 DEF Plain
<1>18. Recovered'
  <2> SUFFICES ASSUME NEW d \in Databases \ overlap, NEW j \in TransactionIds,
                      transactions[j].db = d, transactions[j].page = page,
                      transactions[j].locked, transactions'[j].outcome # "none",
                      table[d] # 0, connections[table[d]].begun # 0
               PROVE  transactions'[connections[table[d]].begun].page = page
    BY <1>2, <1>5, <1>8 DEF Recovered
  <2>2. transactions[connections[table[d]].begun].page = page
    <3>1. CASE j # i
      BY <1>5, <3>1 DEF CommitInv, Recovered
    <3>2. CASE j = i
      BY <1>4, <1>11, <3>2 DEF Ordered
    <3> QED BY <3>1, <3>2
  <2>3. table[d] \in 1 .. Len(connections)
    BY <1>1, DatabaseType
  <2> QED BY <1>8, <1>9, <2>2, <2>3
<1>19. Latest'
  <2>1. \A d \in Databases : current'[d] # 0 => current'[d] = current[d]
    BY <1>1 DEF Reports, CoreInv, Types
  <2> QED BY <1>5, <1>8, <2>1 DEF CommitInv, Latest
<1>22. ASSUME NEW j, NEW d, NoneEndedAfter(j, d), x.locked /\ d = t.db => ~(i > j)
       PROVE  NoneEndedAfter(j, d)'
  BY <1>4, <1>5, <1>8, <1>22 DEF NoneEndedAfter
<1>23. Pending'
  <2> SUFFICES ASSUME NEW v \in tasks', Live(v), v.pc = "statement", Ordered(v.db)
               PROVE  NoneEndedAfter(v.tx, v.db)'
    BY <1>2 DEF Pending, Live
  <2>1. v \in tasks /\ v # t
    BY <1>6
  <2>2. NoneEndedAfter(v.tx, v.db)
    BY <2>1 DEF CommitInv, Pending
  <2>3. ASSUME x.locked, v.db = t.db PROVE FALSE
    <3>1. t.page = page /\ v.page # page
      BY <1>1, <2>1, <2>3, AnsweredTask
    <3>2. /\ t.id \in Nat /\ v.id \in Nat /\ v.page \in Nat /\ page \in Nat /\ v.page <= page
      BY <1>1, <2>1, TaskType
    <3>3. v.id < t.id
      BY <1>1, <2>1, <2>3, <3>1, <3>2 DEF CoreInv, TaskOrder
    <3>4. t.id <= v.id
      BY <1>10, <2>1, <2>3 DEF CommitInv, Front, Running
    <3> QED BY <3>2, <3>3, <3>4
  <2> QED BY <1>22, <2>2, <2>3
<1>24. Recent'
  <2> SUFFICES ASSUME NEW d \in Databases, table[d] # 0, connections[table[d]].begun # 0,
                      Ordered(d)
               PROVE  NoneEndedAfter(connections[table[d]].begun, d)'
    BY <1>2 DEF Recent
  <2>1. NoneEndedAfter(connections[table[d]].begun, d)
    BY DEF CommitInv, Recent
  <2>2. i \in Nat
    BY <1>1, <1>4, TransactionType
  <2>3. x.locked /\ d = t.db => ~(i > connections[table[d]].begun)
    BY <1>11, <2>2
  <2>4. PICK b : b = connections[table[d]].begun
    OBVIOUS
  <2>5. connections'[table'[d]].begun = b
    BY <1>2, <2>4
  <2>6. NoneEndedAfter(b, d)'
    BY <1>22, <2>1, <2>3, <2>4
  <2> QED BY <2>5, <2>6 DEF NoneEndedAfter
<1>25. Waiting'
  BY <1>2, <1>6 DEF CommitInv, Waiting
<1> QED BY <1>12, <1>13, <1>14, <1>15, <1>16, <1>17, <1>18, <1>19, <1>23, <1>24, <1>25
        DEF CommitInv

LEMMA ProceedCommit ==
  ASSUME TableInv, CommitInv, NEW t \in tasks, t.pc = "done", t.kind = "batch", Proceeds(t),
         UNCHANGED <<platform, page, handle, asked, calls, table, monitor, crashed,
                     sqliteVars, history>>
  PROVE  CommitInv'
<1> DEFINE i == t.tx
           x == transactions[i]
<1>1. CoreInv
  BY DEF TableInv
<1>2. UNCHANGED <<platform, page, table, connections, files, overlap>>
      /\ \A d : Ordered(d)' <=> Ordered(d)
  BY DEF sqliteVars, history, Ordered
<1>3. x.locked /\ x.phase = "running"
  BY DEF Proceeds
<1>4. PICK y \in Transactions :
        /\ transactions' = [transactions EXCEPT ![t.tx] = y]
        /\ y.db = x.db /\ y.page = x.page /\ y.locked /\ y.outcome = x.outcome
        /\ \E v \in TaskRecords :
             /\ tasks' = (tasks \ {t}) \cup {v}
             /\ \A u \in tasks : u.id < v.id
             /\ v.db = t.db /\ v.page = page /\ v.conn = 0 /\ v.tx = t.tx
             /\ v.kind = "batch" /\ v.pc = "statement" /\ ~v.error
             /\ \/ /\ t.error /\ y.phase = "aborting" /\ y.writes = x.writes
                   /\ v.sqls = <<"ROLLBACK">>
                \/ /\ ~t.error /\ y.phase = "running" /\ x.writes = 1 /\ y.writes = 2
                   /\ v.sqls = <<"WRITE">>
                \/ /\ ~t.error /\ y.phase = "finishing" /\ y.writes = x.writes
                   /\ v.sqls = <<"COMMIT">>
  BY DEF Proceeds
<1>5. PICK b \in TaskRecords :
        /\ tasks' = (tasks \ {t}) \cup {b}
        /\ \A u \in tasks : u.id < b.id
        /\ b.db = t.db /\ b.page = page /\ b.tx = i
        /\ b.kind = "batch" /\ b.pc = "statement" /\ ~b.error
        /\ \/ /\ t.error /\ y.phase = "aborting" /\ y.writes = x.writes
              /\ b.sqls = <<"ROLLBACK">>
           \/ /\ ~t.error /\ y.phase = "running" /\ x.writes = 1 /\ y.writes = 2
              /\ b.sqls = <<"WRITE">>
           \/ /\ ~t.error /\ y.phase = "finishing" /\ y.writes = x.writes
              /\ b.sqls = <<"COMMIT">>
  BY <1>4
<1>6. /\ Live(t) /\ i \in TransactionIds /\ i # 0 /\ t.db = x.db
      /\ x.outcome = "none" /\ t.error \in BOOLEAN
  BY <1>1, LiveTask DEF Live
<1>7. /\ TransactionIds' = TransactionIds
      /\ transactions'[i] = y
      /\ \A j \in TransactionIds : j # i => transactions'[j] = transactions[j]
  BY <1>1, <1>4, <1>6, TransactionsUpdate
<1>8. \A j \in TransactionIds :
        /\ transactions'[j].db = transactions[j].db /\ transactions'[j].page = transactions[j].page
        /\ transactions'[j].locked <=> transactions[j].locked
        /\ transactions'[j].outcome = transactions[j].outcome
  <2> TAKE j \in TransactionIds
  <2> QED BY <1>3, <1>4, <1>7
<1>9. \A c \in 1 .. Len(connections) :
        /\ connections[c].begun # 0 => connections[c].begun \in TransactionIds
        /\ \A w \in connections[c].writes : w[1] \in TransactionIds
  BY <1>1, ConnectionType DEF TransactionIds, CoreInv, WritesCounted, Counted
<1>10. \A v \in tasks : v # t /\ Live(v) => v.tx # i /\ v.tx \in TransactionIds
  BY <1>1, <1>6, OneBatch, LiveTask DEF Live
<1>11. \A v \in tasks' : v = b \/ (v \in tasks /\ v # t)
  BY <1>5
<1>12. Begun(t) /\ LiveLocked(t)
  BY <1>3, <1>6 DEF Begun, LiveLocked, Unbegun
<1>13. b.sqls # <<"BEGIN", "WRITE">>
       /\ (b.sqls = <<"COMMIT">> => b.sqls # <<"WRITE">>)
  <2>1. Len(<<"BEGIN", "WRITE">>) = 2 /\ Len(<<"WRITE">>) = 1 /\ Len(<<"COMMIT">>) = 1
        /\ Len(<<"ROLLBACK">>) = 1 /\ Head(<<"WRITE">>) = "WRITE" /\ Head(<<"COMMIT">>) = "COMMIT"
    OBVIOUS
  <2> QED BY <1>5, <2>1
<1>14. Front'
  <2> SUFFICES ASSUME NEW v \in tasks', Begun(v)', Ordered(v.db)',
                      NEW z \in tasks', z.db = v.db, Running(z)
               PROVE  v.id <= z.id
    BY DEF Front, Running
  <2>1. Ordered(v.db)
    BY <1>2
  <2>2. CASE v = b
    <3>1. CASE z = b
      BY <2>2, <3>1 DEF TaskRecords
    <3>2. CASE z \in tasks /\ z # t
      <4>1. t.id <= z.id
        BY <1>5, <1>12, <2>1, <2>2, <3>2 DEF CommitInv, Front
      <4>2. /\ t.id \in Nat /\ z.id \in Nat /\ z.page \in Nat /\ page \in Nat /\ z.page <= page
        BY <1>1, <3>2, TaskType
      <4>3. t.page = page /\ z.page # page
        BY <1>1, <1>5, <2>2, <3>2, AnsweredTask
      <4>4. z.id < t.id
        BY <1>1, <1>5, <2>2, <3>2, <4>2, <4>3 DEF CoreInv, TaskOrder
      <4> QED BY <4>1, <4>2, <4>4
    <3> QED BY <1>11, <3>1, <3>2
  <2>3. CASE v \in tasks /\ v # t
    <3>1. Live(v)
      BY DEF Begun, LiveLocked, Live
    <3>2. Begun(v)
      BY <1>8, <1>10, <2>3, <3>1 DEF Begun, LiveLocked, Unbegun
    <3>3. CASE z = b
      <4>1. v.id < b.id /\ v.id \in Nat /\ b.id \in Nat
        BY <1>1, <1>5, <2>3, TaskType DEF TaskRecords
      <4> QED BY <3>3, <4>1
    <3>4. CASE z \in tasks
      BY <2>1, <2>3, <3>2, <3>4 DEF CommitInv, Front
    <3> QED BY <1>11, <3>3, <3>4
  <2> QED BY <1>11, <2>2, <2>3
<1>15. Stages'
  <2> SUFFICES ASSUME NEW v \in tasks', LiveLocked(v)', Ordered(v.db)'
               PROVE  Stage(v)'
    BY DEF Stages
  <2>1. Live(v) /\ Ordered(v.db)
    BY <1>2 DEF LiveLocked, Live
  <2>2. CASE v \in tasks /\ v # t
    <3>1. transactions'[v.tx] = transactions[v.tx]
      BY <1>7, <1>10, <2>1, <2>2
    <3>2. LiveLocked(v)
      BY <2>1, <3>1 DEF LiveLocked, Live
    <3>3. Stage(v)
      BY <2>1, <2>2, <3>2 DEF CommitInv, Stages
    <3>4. Begun(v)' => Begun(v)
      BY <3>2 DEF Begun, Unbegun
    <3>5. Unbegun(v)' => Unbegun(v)
      BY DEF Unbegun
    <3>6. \A c : StageAt(c, v) => StageAt(c, v)'
      BY <1>2, <3>1 DEF StageAt, Has, Made, PendingWrite, InFiles
    <3>7. \A c : Apart(c, v.tx) => Apart(c, v.tx)'
      BY <1>2 DEF Apart
    <3> QED BY <1>2, <3>3, <3>4, <3>5, <3>6, <3>7 DEF Stage
  <2>3. CASE v = b
    <3>1. PICK c : c = table[t.db]
      OBVIOUS
    <3>2. /\ c # 0 /\ connections[c].open
          /\ \A e \in 1 .. Len(connections) : e # c => Apart(e, i)
          /\ StageAt(c, t)
      BY <1>5, <1>12, <2>1, <2>3, <3>1 DEF CommitInv, Stages, Stage
    <3>3. connections[c].begun # 0 /\ (~t.error => Has(c, t))
      BY <1>3, <3>2 DEF StageAt
    <3>4. Made(t) = x.writes
      BY DEF Made, PendingWrite
    <3>5. StageAt(c, b)'
      <4>1. CASE t.error /\ y.phase = "aborting"
        BY <1>2, <1>5, <1>7, <3>3, <4>1 DEF StageAt
      <4>2. CASE /\ ~t.error /\ y.phase = "running" /\ x.writes = 1 /\ y.writes = 2
                 /\ b.sqls = <<"WRITE">>
        <5>1. Made(b)' = 1
          BY <1>5, <1>7, <4>2 DEF Made, PendingWrite
        <5>2. Has(c, b)'
          BY <1>2, <1>5, <3>3, <3>4, <4>2, <5>1 DEF Has
        <5> QED BY <1>2, <1>5, <1>7, <3>3, <4>2, <5>2 DEF StageAt
      <4>3. CASE /\ ~t.error /\ y.phase = "finishing" /\ y.writes = x.writes
                 /\ b.sqls = <<"COMMIT">>
        <5>1. Made(b)' = x.writes
          BY <1>5, <1>7, <1>13, <4>3 DEF Made, PendingWrite
        <5>2. Has(c, b)'
          BY <1>2, <1>5, <3>3, <3>4, <4>3, <5>1 DEF Has
        <5> QED BY <1>2, <1>5, <1>7, <4>3, <5>2 DEF StageAt
      <4> QED BY <1>5, <4>1, <4>2, <4>3
    <3>6. ~Unbegun(b)'
      BY <1>13 DEF Unbegun
    <3>7. \A e \in 1 .. Len(connections') : e # c => Apart(e, i)'
      BY <1>2, <3>2 DEF Apart
    <3> QED BY <1>2, <1>5, <2>3, <3>1, <3>2, <3>5, <3>6, <3>7 DEF Stage
  <2> QED BY <1>11, <2>2, <2>3
<1>16. Homes'
  BY <1>2, <1>8, <1>9 DEF CommitInv, Homes
<1>17. Begins'
  <2> SUFFICES ASSUME NEW c \in 1 .. Len(connections), connections[c].begun # 0,
                      Ordered(connections[c].db)
               PROVE  /\ MayBeOpen(connections[c].begun)'
                      /\ \A v \in tasks' : Live(v) /\ v.tx = connections[c].begun =>
                           \A w \in connections[c].writes : w[1] = v.tx
    BY <1>2 DEF Begins, Live, MayBeOpen
  <2>1. /\ MayBeOpen(connections[c].begun)
        /\ \A v \in tasks : Live(v) /\ v.tx = connections[c].begun =>
             \A w \in connections[c].writes : w[1] = v.tx
    BY DEF CommitInv, Begins
  <2>2. MayBeOpen(connections[c].begun)'
    BY <1>2, <1>6, <1>7, <1>8, <1>9, <2>1 DEF MayBeOpen
  <2> QED BY <1>5, <1>6, <1>11, <2>1, <2>2
<1>18. Filed'
  <2> SUFFICES ASSUME NEW j \in TransactionIds, transactions[j].locked,
                      Ordered(transactions[j].db)
               PROVE  LET z == transactions'[j]
                      IN  /\ z.phase # "finishing" => z.outcome # "success"
                          /\ Uncommitted(j)' => NotFiled(j)
                          /\ z.outcome = "success" => \A w \in Numbers(j, z.writes) : InFiles(w)
    BY <1>2, <1>7, <1>8 DEF Filed, NotFiled, InFiles
  <2>1. CASE j = i
    <3>1. NotFiled(i)
      BY <1>3, <1>6, <2>1 DEF CommitInv, Filed, Uncommitted
    <3> QED BY <1>4, <1>6, <1>7, <2>1, <3>1
  <2>2. CASE j # i
    <3>1. Uncommitted(j)' => Uncommitted(j)
      BY <1>5, <1>7, <1>11, <2>2 DEF Uncommitted, Live
    <3> QED BY <1>7, <2>2, <3>1 DEF CommitInv, Filed
  <2> QED BY <2>1, <2>2
<1>22. ASSUME NEW j \in TransactionIds PROVE Outside(j)' => Outside(j)
  <2>1. \A k \in 1 .. j : k \in TransactionIds
    BY <1>1, TransactionType DEF TransactionIds
  <2>2. \A k \in 1 .. j :
          transactions'[k].db = transactions[k].db
          /\ (transactions'[k].locked <=> transactions[k].locked)
    BY <1>8, <2>1
  <2>3. ASSUME NEW k \in 1 .. j - 1, MayBeOpen(k) PROVE MayBeOpen(k)'
    <3>1. k \in TransactionIds
      BY <1>1, <2>1, TransactionType
    <3> QED BY <1>6, <1>7, <1>8, <2>3, <3>1 DEF MayBeOpen
  <2>4. Ordered(transactions[j].db)' => Ordered(transactions'[j].db)
    BY <1>2
  <2> QED BY <1>1, <2>2, <2>3, <2>4, OutsideKept
<1>19. Plain'
  <2>1. \A j : Unwritten(j) => Unwritten(j)'
    BY <1>2 DEF Unwritten, NotFiled
  <2>2. \A w : InFiles(w) => InFiles(w)'
    BY <1>2 DEF InFiles
  <2>3. ASSUME NEW v \in tasks', Live(v)', ~transactions'[v.tx].locked
        PROVE  /\ v.pc = "statement" => ~v.error
               /\ v.pc = "statement" \/ v.error => Unwritten(v.tx)'
               /\ v.pc = "done" /\ ~v.error /\ Outside(v.tx)' => InFiles(<<v.tx, 1>>)'
    <3>1. v # b
      BY <1>4, <1>5, <1>7, <2>3
    <3>2. Live(v) /\ v \in tasks /\ v # t
      BY <1>11, <2>3, <3>1 DEF Live
    <3>3. ~transactions[v.tx].locked
      BY <1>8, <1>10, <2>3, <3>2
    <3> QED BY <1>10, <1>22, <2>1, <2>2, <3>2, <3>3 DEF CommitInv, Plain
  <2>4. ASSUME NEW j \in TransactionIds', ~transactions'[j].locked
        PROVE  /\ transactions'[j].outcome = "error" => Unwritten(j)'
               /\ transactions'[j].outcome = "success" /\ Outside(j)' => InFiles(<<j, 1>>)'
    <3>1. j # i
      BY <1>4, <1>7, <2>4
    <3> QED BY <1>7, <1>22, <2>1, <2>2, <2>4, <3>1 DEF CommitInv, Plain
  <2> QED BY <2>3, <2>4 DEF Plain
<1>20. Recovered'
  <2> SUFFICES ASSUME NEW d \in Databases \ overlap, NEW j \in TransactionIds,
                      transactions[j].db = d, transactions[j].page = page,
                      transactions[j].locked, transactions[j].outcome # "none",
                      table[d] # 0, connections[table[d]].begun # 0
               PROVE  transactions'[connections[table[d]].begun].page = page
    BY <1>2, <1>7, <1>8 DEF Recovered
  <2>1. transactions[connections[table[d]].begun].page = page
    BY DEF CommitInv, Recovered
  <2>2. table[d] \in 1 .. Len(connections)
    BY <1>1, DatabaseType
  <2> QED BY <1>8, <1>9, <2>1, <2>2
<1>21. Latest'
  BY <1>7, <1>8 DEF CommitInv, Latest, Proceeds
<1>23. \A j, d : NoneEndedAfter(j, d) => NoneEndedAfter(j, d)'
  BY <1>7, <1>8 DEF NoneEndedAfter
<1>24. Pending'
  <2>1. NoneEndedAfter(i, t.db)
    <3>1. t.db \in Databases /\ current[t.db] = i
      BY <1>1, AnsweredTask, TaskType
    <3>2. \A k \in TransactionIds : transactions[k].db = t.db => k <= i /\ k \in Nat /\ i \in Nat
      BY <1>1, <1>6, <3>1, TransactionType DEF CommitInv, Latest
    <3> QED BY <3>2 DEF NoneEndedAfter
  <2> QED BY <1>2, <1>5, <1>11, <1>23, <2>1 DEF CommitInv, Pending, Live
<1>25. Recent'
  BY <1>2, <1>23 DEF CommitInv, Recent
<1>26. Waiting'
  BY <1>2, <1>5, <1>11 DEF CommitInv, Waiting
<1> QED BY <1>14, <1>15, <1>16, <1>17, <1>18, <1>19, <1>20, <1>21, <1>24, <1>25, <1>26
        DEF CommitInv

-----------------------------------------------------------------------------
(* The other steps of the page. *)

\* A task that is new.
Fresh(v) ==
  /\ \A t \in tasks : t.id < v.id
  /\ v.pc # "set"
  /\ Live(v) =>
       /\ v.tx = Len(transactions) + 1 /\ v.pc = "statement" /\ ~v.error
       /\ transactions'[v.tx].locked => v.sqls = <<"BEGIN", "WRITE">>

PageMoves ==
  /\ UNCHANGED <<platform, table, connections, files>>
  /\ overlap \subseteq overlap'
  /\ page' \in {page, page + 1}
  /\ \A v \in tasks' : v \in tasks \/ Fresh(v)
  /\ \A j \in TransactionIds : j \in TransactionIds' /\ transactions'[j] = transactions[j]
  /\ \A j \in TransactionIds' : j \notin TransactionIds =>
       /\ j = Len(transactions) + 1 /\ transactions'[j].page = page'
       /\ transactions'[j].phase = "running" /\ transactions'[j].outcome = "none"

LEMMA PageEffect ==
  ASSUME CoreInv,
         \/ Reload \/ UNCHANGED vars
         \/ \E d \in Databases :
              \/ Open(d) \/ Close(d) \/ Delete(d)
              \/ \E locked \in BOOLEAN : Transact(d, locked)
         \/ \E t \in tasks : Answer(t) /\ t.kind # "batch"
  PROVE  PageMoves
<1>1. UNCHANGED <<platform, table, connections, files>>
  BY PageSteps
<1>2. UNCHANGED transactions =>
        /\ \A j \in TransactionIds : j \in TransactionIds' /\ transactions'[j] = transactions[j]
        /\ TransactionIds' = TransactionIds
  BY DEF TransactionIds
<1>3. ASSUME NEW d \in Databases, NoteOverlap(d)
      PROVE  overlap \subseteq overlap'
  BY <1>3 DEF NoteOverlap
<1>4. CASE Reload
  BY <1>1, <1>2, <1>4 DEF Reload, PageMoves, history
<1>5. CASE UNCHANGED vars
  BY <1>1, <1>2, <1>5 DEF PageMoves, vars, pageVars, nativeVars, history
<1>6. ASSUME NEW d \in Databases, Open(d) \/ Close(d) \/ Delete(d) PROVE PageMoves
  <2>1. Calls(d)
    BY <1>6, CallEffect
  <2>2. \A v \in tasks' : v \in tasks \/ Fresh(v)
    BY <2>1 DEF Calls, Fresh, Live
  <2> QED BY <1>1, <1>2, <1>3, <2>1, <2>2 DEF Calls, PageMoves
<1>7. ASSUME NEW d \in Databases, NEW locked \in BOOLEAN, Transact(d, locked) PROVE PageMoves
  <2>1. Transacts(d)
    BY <1>7, TransactEffect
  <2> DEFINE i == Len(transactions) + 1
  <2>2. PICK x \in Transactions :
          /\ transactions' = Append(transactions, x)
          /\ x.page = page /\ x.phase = "running" /\ x.outcome = "none"
          /\ \E v \in TaskRecords :
               /\ tasks' = tasks \cup {v}
               /\ \A t \in tasks : t.id < v.id
               /\ v.tx = i /\ v.pc = "statement" /\ ~v.error
               /\ v.sqls = IF x.locked THEN <<"BEGIN", "WRITE">> ELSE <<"WRITE">>
    BY <2>1 DEF Transacts
  <2>3. transactions \in Seq(Transactions) /\ Len(transactions) \in Nat
    BY DEF CoreInv, Types
  <2>4. /\ Len(transactions') = i /\ transactions'[i] = x
        /\ \A j \in 1 .. Len(transactions) : transactions'[j] = transactions[j]
    BY <2>2, <2>3
  <2>5. \A j \in TransactionIds : j \in TransactionIds' /\ transactions'[j] = transactions[j]
    BY <2>3, <2>4 DEF TransactionIds
  <2>6. \A j \in TransactionIds' : j \notin TransactionIds => j = i
    BY <2>3, <2>4 DEF TransactionIds
  <2>7. \A v \in tasks' : v \in tasks \/ Fresh(v)
    BY <2>2, <2>4 DEF Fresh
  <2>8. UNCHANGED page
    BY <2>1 DEF Transacts
  <2> QED BY <1>1, <1>3, <2>1, <2>2, <2>4, <2>5, <2>6, <2>7, <2>8 DEF Transacts, PageMoves
<1>8. ASSUME NEW t \in tasks, Answer(t), t.kind # "batch" PROVE PageMoves
  BY <1>1, <1>2, <1>8 DEF Answer, PageMoves, history
<1> QED BY <1>4, <1>5, <1>6, <1>7, <1>8

LEMMA PageCommit ==
  ASSUME CoreInv, CoreInv', CommitInv, PageMoves
  PROVE  CommitInv'
<1> DEFINE n == Len(transactions) + 1
<1>1. /\ UNCHANGED <<platform, table, connections, files>>
      /\ overlap \subseteq overlap'
      /\ page' \in {page, page + 1} /\ page \in Nat \ {0}
      /\ \A v \in tasks' : v \in tasks \/ Fresh(v)
  BY DEF PageMoves, CoreInv, Types
<1>2. /\ \A j \in TransactionIds : j \in TransactionIds' /\ transactions'[j] = transactions[j]
      /\ \A j \in TransactionIds' : j \notin TransactionIds =>
           /\ j = n /\ transactions'[j].page = page'
           /\ transactions'[j].phase = "running" /\ transactions'[j].outcome = "none"
  BY DEF PageMoves
<1>3. \A d : Ordered(d)' => Ordered(d)
  BY <1>1 DEF Ordered
<1>4. /\ Len(transactions) \in Nat /\ n \notin TransactionIds
      /\ \A c \in 1 .. Len(connections) :
           /\ connections[c].begun # 0 => connections[c].begun \in TransactionIds
           /\ connections[c].begun # n
           /\ \A w \in connections[c].writes : w[1] \in TransactionIds
      /\ \A f \in 1 .. Len(files) : \A w \in files[f] : w[1] \in TransactionIds
  <2>1. Len(transactions) \in Nat
    BY DEF CoreInv, Types
  <2>2. \A c \in 1 .. Len(connections) : connections[c].begun \in 0 .. Len(transactions)
    BY ConnectionType
  <2> QED BY <2>1, <2>2 DEF TransactionIds, CoreInv, WritesCounted, Counted
<1>5. Unwritten(n) /\ \A c \in 1 .. Len(connections) : Apart(c, n)
  BY <1>4 DEF Unwritten, NotFiled, Apart
<1>6. \A v \in tasks : Live(v) => v.tx \in TransactionIds
  BY LiveTask
<1>7. \A j : Unwritten(j) => Unwritten(j)'
  BY <1>1 DEF Unwritten, NotFiled
<1>8. \A w : InFiles(w) => InFiles(w)'
  BY <1>1 DEF InFiles
<1>9. \A v \in tasks' : LiveLocked(v)' /\ v \notin tasks => Unbegun(v) /\ v.tx = n
  BY <1>1 DEF Fresh, LiveLocked, Live, Unbegun
<1>10. \A v \in tasks : LiveLocked(v)' => LiveLocked(v) /\ transactions'[v.tx] = transactions[v.tx]
  BY <1>2, <1>6 DEF LiveLocked, Live
<1>11. Front'
  <2> SUFFICES ASSUME NEW v \in tasks', Begun(v)', Ordered(v.db)',
                      NEW z \in tasks', z.db = v.db, Running(z)
               PROVE  v.id <= z.id
    BY DEF Front, Running
  <2>1. v \in tasks
    BY <1>9 DEF Begun, Unbegun
  <2>2. Begun(v) /\ Ordered(v.db)
    BY <1>3, <1>10, <2>1 DEF Begun, Unbegun
  <2>3. CASE z \in tasks
    BY <2>1, <2>2, <2>3 DEF CommitInv, Front
  <2>4. CASE Fresh(z)
    <3>1. v.id < z.id /\ v.id \in Nat
      BY <2>1, <2>4, TaskType DEF Fresh
    <3>2. z \in tasks'
      OBVIOUS
    <3>3. z.id \in Nat
      BY <3>2 DEF CoreInv, Types, TaskRecords
    <3> QED BY <3>1, <3>3
  <2> QED BY <1>1, <2>3, <2>4
<1>12. Stages'
  <2> SUFFICES ASSUME NEW v \in tasks', LiveLocked(v)', Ordered(v.db)'
               PROVE  Stage(v)'
    BY DEF Stages
  <2>1. CASE v \in tasks
    <3>1. LiveLocked(v) /\ transactions'[v.tx] = transactions[v.tx] /\ Ordered(v.db)
      BY <1>3, <1>10, <2>1
    <3>2. Stage(v)
      BY <2>1, <3>1 DEF CommitInv, Stages
    <3>3. Begun(v)' => Begun(v)
      BY <3>1 DEF Begun, Unbegun
    <3>4. Unbegun(v)' => Unbegun(v)
      BY DEF Unbegun
    <3>5. \A c : StageAt(c, v) => StageAt(c, v)'
      BY <1>1, <3>1 DEF StageAt, Has, Made, PendingWrite, InFiles
    <3>6. \A c : Apart(c, v.tx) => Apart(c, v.tx)'
      BY <1>1 DEF Apart
    <3> QED BY <1>1, <3>2, <3>3, <3>4, <3>5, <3>6 DEF Stage
  <2>2. CASE v \notin tasks
    <3>1. Unbegun(v) /\ v.tx = n
      BY <1>9, <2>2
    <3>2. \A c \in 1 .. Len(connections') : Apart(c, v.tx)'
      BY <1>1, <1>5, <3>1 DEF Apart
    <3> QED BY <3>1, <3>2 DEF Stage, Begun, Unbegun
  <2> QED BY <2>1, <2>2
<1>13. Homes'
  BY <1>1, <1>2, <1>4 DEF CommitInv, Homes
<1>14. Begins'
  <2> SUFFICES ASSUME NEW c \in 1 .. Len(connections), connections[c].begun # 0,
                      Ordered(connections[c].db)
               PROVE  /\ MayBeOpen(connections[c].begun)'
                      /\ \A v \in tasks' : Live(v) /\ v.tx = connections[c].begun =>
                           \A w \in connections[c].writes : w[1] = v.tx
    BY <1>1, <1>3 DEF Begins, Live, MayBeOpen
  <2>1. /\ MayBeOpen(connections[c].begun)
        /\ \A v \in tasks : Live(v) /\ v.tx = connections[c].begun =>
             \A w \in connections[c].writes : w[1] = v.tx
    BY DEF CommitInv, Begins
  <2>2. \A v \in tasks' : Live(v) /\ v \notin tasks => v.tx = n
    BY <1>1 DEF Fresh
  <2>3. MayBeOpen(connections[c].begun)'
    BY <1>1, <1>2, <1>4, <2>1 DEF MayBeOpen
  <2> QED BY <1>4, <2>1, <2>2, <2>3
<1>15. Filed'
  <2> SUFFICES ASSUME NEW j \in TransactionIds', transactions'[j].locked,
                      Ordered(transactions'[j].db)
               PROVE  LET z == transactions'[j]
                      IN  /\ z.phase # "finishing" => z.outcome # "success"
                          /\ Uncommitted(j)' => NotFiled(j)
                          /\ z.outcome = "success" => \A w \in Numbers(j, z.writes) : InFiles(w)
    <3>1. \A j \in TransactionIds' : Ordered(transactions[j].db)' => Ordered(transactions'[j].db)
      BY <1>1 DEF Ordered
    <3> QED BY <1>1, <3>1 DEF Filed, NotFiled, InFiles
  <2>1. CASE j \in TransactionIds
    <3>1. \A v \in tasks' : Live(v) /\ v.tx = j => v \in tasks
      BY <1>1, <1>4, <2>1 DEF Fresh
    <3>2. Uncommitted(j)' => Uncommitted(j)
      BY <1>2, <2>1, <3>1 DEF Uncommitted, Live
    <3> QED BY <1>2, <2>1, <3>2 DEF CommitInv, Filed
  <2>2. CASE j \notin TransactionIds
    BY <1>2, <1>5, <2>2 DEF Unwritten
  <2> QED BY <2>1, <2>2
<1>19. ASSUME NEW j \in TransactionIds PROVE Outside(j)' => Outside(j)
  <2>1. \A k \in 1 .. j : k \in TransactionIds
    BY TransactionType DEF TransactionIds
  <2>2. \A k \in 1 .. j :
          transactions'[k].db = transactions[k].db
          /\ (transactions'[k].locked <=> transactions[k].locked)
    BY <1>2, <2>1
  <2>3. ASSUME NEW k \in 1 .. j - 1, MayBeOpen(k) PROVE MayBeOpen(k)'
    <3>1. k \in TransactionIds
      BY <2>1, TransactionType
    <3> QED BY <1>2, <2>3, <3>1 DEF MayBeOpen
  <2>4. Ordered(transactions[j].db)' => Ordered(transactions'[j].db)
    BY <1>3
  <2> QED BY <2>2, <2>3, <2>4, OutsideKept
<1>16. Plain'
  <2>2. ASSUME NEW v \in tasks', Live(v)', ~transactions'[v.tx].locked
        PROVE  /\ v.pc = "statement" => ~v.error
               /\ v.pc = "statement" \/ v.error => Unwritten(v.tx)'
               /\ v.pc = "done" /\ ~v.error /\ Outside(v.tx)' => InFiles(<<v.tx, 1>>)'
    <3>1. Live(v)
      BY <2>2 DEF Live
    <3>2. CASE v \in tasks
      BY <1>2, <1>6, <1>7, <1>8, <1>19, <2>2, <3>1, <3>2 DEF CommitInv, Plain
    <3>3. CASE Fresh(v)
      BY <1>5, <1>7, <3>1, <3>3 DEF Fresh
    <3> QED BY <1>1, <3>2, <3>3
  <2>3. ASSUME NEW j \in TransactionIds', ~transactions'[j].locked
        PROVE  /\ transactions'[j].outcome = "error" => Unwritten(j)'
               /\ transactions'[j].outcome = "success" /\ Outside(j)' => InFiles(<<j, 1>>)'
    BY <1>2, <1>7, <1>8, <1>19, <2>3 DEF CommitInv, Plain
  <2> QED BY <2>2, <2>3 DEF Plain
<1>17. Recovered'
  <2> SUFFICES ASSUME NEW d \in Databases \ overlap, NEW j \in TransactionIds',
                      transactions'[j].db = d, transactions'[j].page = page',
                      transactions'[j].locked, transactions'[j].outcome # "none",
                      table[d] # 0, connections[table[d]].begun # 0
               PROVE  transactions'[connections[table[d]].begun].page = page'
    BY <1>1 DEF Recovered
  <2>1. j \in TransactionIds /\ transactions'[j] = transactions[j]
    BY <1>2
  <2>2. transactions[j].page <= page /\ transactions[j].page \in Nat
    BY <2>1, TransactionType
  <2>3. page' = page
    BY <1>1, <2>1, <2>2
  <2>4. transactions[connections[table[d]].begun].page = page
    BY <2>1, <2>3 DEF CommitInv, Recovered
  <2>5. table[d] \in 1 .. Len(connections)
    BY DatabaseType
  <2> QED BY <1>2, <1>4, <2>3, <2>4, <2>5
<1>18. Latest'
  <2> SUFFICES ASSUME NEW d \in Databases, current'[d] # 0,
                      NEW k \in TransactionIds', transactions'[k].db = d
               PROVE  k <= current'[d]
    BY DEF Latest
  <2>1. PICK i : i = current'[d]
    OBVIOUS
  <2>2. i \in TransactionIds' /\ transactions'[i].db = d /\ transactions'[i].page = page'
        /\ transactions'[i].outcome = "none"
    <3>1. /\ transactions'[current'[d]].db = d /\ transactions'[current'[d]].page = page'
          /\ transactions'[current'[d]].outcome = "none"
      BY DEF CoreInv, PageView
    <3>2. current'[d] \in Nat /\ current'[d] <= Len(transactions')
      BY DEF CoreInv, Types, Names
    <3> QED BY <2>1, <3>1, <3>2 DEF TransactionIds
  <2>3. k \in Nat /\ i \in Nat
    BY <2>2 DEF TransactionIds
  <2>4. CASE k \notin TransactionIds
    <3>1. transactions'[k].page = page' /\ transactions'[k].outcome = "none"
      BY <1>2, <2>4
    <3>2. current'[d] = k
      BY <3>1 DEF CoreInv, PageView
    <3> QED BY <2>3, <3>2
  <2>5. CASE k \in TransactionIds /\ i \notin TransactionIds
    <3>1. i = n /\ k <= Len(transactions)
      BY <1>2, <2>2, <2>5, TransactionType
    <3> QED BY <1>4, <2>1, <2>3, <3>1
  <2>6. CASE k \in TransactionIds /\ i \in TransactionIds
    <3>1. transactions[i] = transactions'[i] /\ transactions[k] = transactions'[k]
      BY <1>2, <2>6
    <3>2. transactions[i].page <= page /\ transactions[i].page \in Nat
      BY <2>6, TransactionType
    <3>3. page' = page
      BY <1>1, <2>2, <3>1, <3>2
    <3>4. current[d] = i
      BY <2>2, <2>6, <3>1, <3>3 DEF CoreInv, PageView
    <3>5. i # 0
      BY <2>1
    <3> QED BY <2>1, <2>6, <3>1, <3>4, <3>5 DEF CommitInv, Latest
  <2> QED BY <2>4, <2>5, <2>6
<1>20. \A j, d : NoneEndedAfter(j, d) => NoneEndedAfter(j, d)'
  BY <1>2 DEF NoneEndedAfter
<1>21. Pending'
  <2> SUFFICES ASSUME NEW v \in tasks', Live(v), v.pc = "statement", Ordered(v.db)
               PROVE  NoneEndedAfter(v.tx, v.db)'
    BY <1>3 DEF Pending, Live
  <2>1. CASE v \in tasks
    BY <1>20, <2>1 DEF CommitInv, Pending
  <2>2. CASE Fresh(v)
    <3>1. \A k \in TransactionIds' : k \in TransactionIds => k <= Len(transactions) /\ k \in Nat
      BY TransactionType
    <3>2. v.tx = n
      BY <2>2 DEF Fresh
    <3> QED BY <1>2, <1>4, <3>1, <3>2 DEF NoneEndedAfter
  <2> QED BY <1>1, <2>1, <2>2
<1>22. Recent'
  BY <1>1, <1>3, <1>20 DEF CommitInv, Recent
<1>23. Waiting'
  <2>1. \A v \in tasks' : v.pc = "set" => v \in tasks
    BY <1>1 DEF Fresh
  <2> QED BY <1>1, <2>1 DEF CommitInv, Waiting
<1> QED BY <1>11, <1>12, <1>13, <1>14, <1>15, <1>16, <1>17, <1>18, <1>21, <1>22, <1>23
        DEF CommitInv

LEMMA CommitStep ==
  ASSUME TableInv, CommitInv, [Next]_vars PROVE CommitInv'
<1>1. CoreInv
  BY DEF TableInv
<1>2. CoreInv'
  BY <1>1, CoreStep
<1>3. PageMoves => CommitInv'
  BY <1>1, <1>2, PageCommit
<1>4. ASSUME NEW d \in Databases,
             \/ Open(d) \/ Close(d) \/ Delete(d)
             \/ \E locked \in BOOLEAN : Transact(d, locked)
      PROVE  CommitInv'
  BY <1>1, <1>3, <1>4, PageEffect
<1>5. CASE Reload \/ UNCHANGED vars
  BY <1>1, <1>3, <1>5, PageEffect
<1>6. ASSUME NEW t \in tasks, Native(t) PROVE CommitInv'
  BY <1>6, QuietCommit, ExecuteCommit
<1>7. ASSUME NEW t \in tasks, Answer(t) PROVE CommitInv'
  <2>1. CASE t.kind # "batch"
    BY <1>1, <1>3, <1>7, <2>1, PageEffect
  <2>2. CASE t.kind = "batch"
    BY <1>1, <1>7, <2>2, AnswerEffect, ProceedCommit, ReportCommit
  <2> QED BY <2>1, <2>2
<1> QED BY <1>4, <1>5, <1>6, <1>7 DEF Next

LEMMA CommitHolds == Spec => [](TableInv /\ CommitInv)
<1>1. Init => CommitInv
  BY DEF Init, CommitInv, Front, Stages, Homes, Begins, Filed, Plain, Recovered,
         Latest, Pending, Recent, Waiting, TransactionIds
<1>2. TableInv /\ TableInv' /\ CommitInv /\ [Next]_vars => CommitInv'
  BY CommitStep
<1> QED BY <1>1, <1>2, TableHolds, PTL DEF Spec

-----------------------------------------------------------------------------
(* What the page may rely on. *)

LEMMA LateIsNotOrdered ==
  ASSUME CoreInv, NEW d, ~Ordered(d)
  PROVE  OldBatchMayBeLate(d)
BY ConnectionTableAssumption DEF Ordered, OldBatchMayBeLate, CoreInv, Types

LEMMA NothingCommitted ==
  ASSUME NEW i
  PROVE  NotFiled(i) => Committed(i) = {}
BY DEF NotFiled, Committed

\* All writes of a transaction are in the files.
LEMMA AllCommitted ==
  ASSUME CoreInv, NEW i \in TransactionIds,
         \A w \in Numbers(i, transactions[i].writes) : InFiles(w)
  PROVE  Cardinality(Committed(i)) = transactions[i].writes
<1> DEFINE n == transactions[i].writes
<1>1. n \in {1, 2}
  BY TransactionType
<1>2. \A w \in Committed(i) : w \in Numbers(i, n)
  <2> SUFFICES ASSUME NEW f \in 1 .. Len(files), NEW w \in files[f], w[1] = i
               PROVE  w \in Numbers(i, n)
    BY DEF Committed
  <2>1. w \in Nat \X Nat
    BY DEF CoreInv, Types
  <2>2. w[2] \in 1 .. n
    BY DEF CoreInv, WritesCounted, Counted
  <2> QED BY <2>1, <2>2 DEF Numbers
<1>3. \A w \in Numbers(i, n) : w \in Committed(i)
  BY DEF Numbers, InFiles, Committed
<1>4. Committed(i) = Numbers(i, n)
  BY <1>2, <1>3
<1> QED BY <1>1, <1>4, NumbersCount

\* What a page left unfinished, and had not sent COMMIT for, is never committed by
\* the pages after it: the transaction whose BEGIN fails inside it does not go on
\* to COMMIT, and a batch that commits finds only its own writes.
THEOREM OldPagesAreNotCommitted == Spec => []UnfinishedIsNotCommitted
<1>1. TableInv /\ CommitInv => UnfinishedIsNotCommitted
  BY LateIsNotOrdered, NothingCommitted
     DEF TableInv, CommitInv, Filed, Uncommitted, UnfinishedIsNotCommitted
<1> QED BY <1>1, CommitHolds, PTL

\* A transaction that was reported as failed has left nothing in a file.
THEOREM FailureLeavesNothing == Spec => []ErrorLeavesNothing
<1>1. ASSUME TableInv, CommitInv PROVE ErrorLeavesNothing
  <2> SUFFICES ASSUME NEW i \in TransactionIds, transactions[i].outcome = "error"
               PROVE  Committed(i) = {} \/ OldBatchMayBeLate(transactions[i].db)
    BY DEF ErrorLeavesNothing
  <2>1. CoreInv
    BY <1>1 DEF TableInv
  <2>2. CASE transactions[i].locked
    BY <1>1, <2>1, <2>2, LateIsNotOrdered, NothingCommitted DEF CommitInv, Filed, Uncommitted
  <2>3. CASE ~transactions[i].locked
    BY <1>1, <2>3, NothingCommitted DEF CommitInv, Plain, Unwritten
  <2> QED BY <2>2, <2>3
<1> QED BY <1>1, CommitHolds, PTL

\* A transaction that was reported as successful is in the file with all its
\* writes, and so is an executeSql() call, unless the transaction before it may have
\* been left open, by a page that is gone or since its COMMIT failed.
THEOREM SuccessIsCommitted == Spec => []SuccessIsDurable
<1>1. ASSUME TableInv, CommitInv PROVE SuccessIsDurable
  <2> SUFFICES ASSUME NEW i \in TransactionIds, transactions[i].outcome = "success",
                      transactions[i].locked \/ ~LeftOpenBefore(i)
               PROVE  \/ Cardinality(Committed(i)) = transactions[i].writes
                      \/ OldBatchMayBeLate(transactions[i].db)
    BY DEF SuccessIsDurable
  <2>1. CoreInv
    BY <1>1 DEF TableInv
  <2>2. CASE transactions[i].locked
    BY <1>1, <2>1, <2>2, LateIsNotOrdered, AllCommitted DEF CommitInv, Filed
  <2>3. CASE ~transactions[i].locked /\ Ordered(transactions[i].db)
    <3>1. transactions[i].writes = 1 /\ InFiles(<<i, 1>>)
      BY <1>1, <2>1, <2>3 DEF CoreInv, PageView, CommitInv, Plain, Outside
    <3>2. \A w \in Numbers(i, 1) : w = <<i, 1>>
      BY DEF Numbers
    <3> QED BY <2>1, <3>1, <3>2, AllCommitted
  <2> QED BY <2>1, <2>2, <2>3, LateIsNotOrdered
<1> QED BY <1>1, CommitHolds, PTL

\* The first transaction of a page, whether it succeeds or fails, leaves the
\* connection outside any transaction of a page before it.
THEOREM RecoversFromReload == Spec => []FirstTransactionRecovers
<1>1. ASSUME TableInv, CommitInv PROVE FirstTransactionRecovers
  <2>1. CoreInv
    BY <1>1 DEF TableInv
  <2>2. \A i \in TransactionIds : transactions[i].db \in Databases
    BY <2>1, TransactionType
  <2> QED BY <1>1, <2>2 DEF CommitInv, Recovered, FirstTransactionRecovers
<1> QED BY <1>1, CommitHolds, PTL
=============================================================================
