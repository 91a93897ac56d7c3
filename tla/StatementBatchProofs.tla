------------------------- MODULE StatementBatchProofs -------------------------
(***************************************************************************)
(* Theorems about StatementBatch, for any contexts, any numbers of         *)
(* transactions and statements, with or without chunks, and any size of    *)
(* the parts, where no statement fails behind its first row.               *)
(*                                                                         *)
(* What a context has sent is not kept in its state: an answered batch is  *)
(* forgotten.  The invariant therefore says that there is a history g of   *)
(* each context to which all variables agree (Way):                        *)
(*   g.n         the number of batches run() has made                      *)
(*   g.kind[i]   what the i-th statement of the transaction is             *)
(*   g.first[b]  the number of the last statement of batch b               *)
(*   g.at[b]     the callback id of the last message of batch b            *)
(*   g.taken     the number of messages the native side has taken          *)
(*   g.phase[b]  how far batch b has come                                  *)
(***************************************************************************)
EXTENDS StatementBatch, FlatResultsProofs

-----------------------------------------------------------------------------
(* Statements and messages. *)

Sql == Nat \X Kinds
Ends == {"COMMIT", "ROLLBACK"}
Owned == Contexts \X Nat \X Kinds

\* The statements of a batch as they are on the native side.
Tagged(c, stmts) == [i \in DOMAIN stmts |-> <<c>> \o stmts[i]]
Flat(c, stmts) == FlatList(Tagged(c, stmts), [i \in DOMAIN stmts |-> ParamCount(stmts[i])])
Parts(c, stmts) == PartCount(Flat(c, stmts), MaxPartSize)
Taken(c, stmts, k) == FirstParts(Flat(c, stmts), MaxPartSize, k)

\* The j-th message of batch b, and its callback id.
MessageCount(c, stmts) == IF c \in Workers THEN Parts(c, stmts) + 2 ELSE 1
Message(c, b, stmts, j, cbid) ==
  IF c \notin Workers
  THEN [op |-> "batch", flen |-> Len(stmts), flatlist |-> Flat(c, stmts), to |-> c, cbid |-> cbid]
  ELSE IF j = 1 THEN [op |-> "batchStart", id |-> BatchId(c, b), flen |-> Len(stmts)]
  ELSE IF j = MessageCount(c, stmts) THEN [op |-> "batchRun", id |-> BatchId(c, b), to |-> c, cbid |-> cbid]
  ELSE [op |-> "batchPart", id |-> BatchId(c, b), part |-> Part(Flat(c, stmts), MaxPartSize, j - 1)]

LEMMA Triple ==
  ASSUME NEW x, NEW y, NEW z
  PROVE  <<x>> \o <<y, z>> = <<x, y, z>>
<1> DEFINE V == {x, y, z}
           a == <<x>>  b == <<y, z>>  d == <<x, y, z>>
<1>1. a \in Seq(V) /\ b \in Seq(V) /\ d \in Seq(V) /\ Len(a) = 1 /\ Len(b) = 2 /\ Len(d) = 3
      /\ a[1] = x /\ b[1] = y /\ b[2] = z /\ d[1] = x /\ d[2] = y /\ d[3] = z
  OBVIOUS
<1> HIDE DEF a, b, d, V
<1>2. /\ a \o b \in Seq(V) /\ Len(a \o b) = Len(a) + Len(b)
      /\ \A i \in 1..(Len(a) + Len(b)) : (a \o b)[i] = IF i <= Len(a) THEN a[i] ELSE b[i - Len(a)]
  BY <1>1, ConcatProperties
<1>3. Len(a \o b) = 3 /\ \A i \in 1..3 : (a \o b)[i] = IF i <= 1 THEN a[i] ELSE b[i - 1]
  BY <1>1, <1>2
<1>4. \A i \in 1..3 : (a \o b)[i] = d[i]
  BY <1>1, <1>3
<1>5. a \o b = d
  BY <1>1, <1>2, <1>3, <1>4, SeqEqual
<1> QED BY <1>5 DEF a, b, d

LEMMA TaggedStatement ==
  ASSUME NEW c \in Contexts, NEW s \in Sql
  PROVE  /\ <<c>> \o s \in Owned /\ (<<c>> \o s)[1] = c /\ (<<c>> \o s)[3] = s[2]
         /\ Tail(<<c>> \o s) = s
<1>1. PICK n \in Nat, k \in Kinds : s = <<n, k>>
  BY DEF Sql
<1>2. <<c>> \o <<n, k>> = <<c, n, k>>
  BY Triple
<1>3. Tail(<<c, n, k>>) = <<n, k>>
  OBVIOUS
<1>4. <<c, n, k>> \in Owned /\ <<c, n, k>>[1] = c /\ <<c, n, k>>[3] = k /\ <<n, k>>[2] = k
  BY DEF Owned
<1> QED BY <1>1, <1>2, <1>3, <1>4

LEMMA TaggedFacts ==
  ASSUME NEW c \in Contexts, NEW stmts \in Seq(Sql)
  PROVE  /\ Tagged(c, stmts) \in Seq(Owned) /\ Len(Tagged(c, stmts)) = Len(stmts)
         /\ DOMAIN Tagged(c, stmts) = 1..Len(stmts) /\ DOMAIN stmts = 1..Len(stmts)
         /\ \A i \in 1..Len(stmts) :
              /\ Tagged(c, stmts)[i] = <<c>> \o stmts[i] /\ Tagged(c, stmts)[i][1] = c
              /\ Tagged(c, stmts)[i][3] = stmts[i][2] /\ Tail(Tagged(c, stmts)[i]) = stmts[i]
<1> DEFINE n == Len(stmts)
           tag(i) == <<c>> \o stmts[i]
<1>1. n \in Nat /\ DOMAIN stmts = 1..n
  OBVIOUS
<1>2. ASSUME NEW i \in 1..n
      PROVE  tag(i) \in Owned /\ tag(i)[1] = c /\ tag(i)[3] = stmts[i][2] /\ Tail(tag(i)) = stmts[i]
  <2>1. stmts[i] \in Sql
    BY <1>1
  <2> QED BY <2>1, TaggedStatement
<1>3. Tagged(c, stmts) = [i \in 1..n |-> tag(i)]
  BY <1>1 DEF Tagged
<1> DEFINE t == [i \in 1..n |-> tag(i)]
<1>4. t \in Seq(Owned) /\ Len(t) = n /\ DOMAIN t = 1..n /\ \A i \in 1..n : t[i] = tag(i)
  <2> HIDE DEF tag, n
  <2> QED BY <1>1, <1>2
<1>5. \A i \in 1..n : t[i] = <<c>> \o stmts[i] /\ t[i][1] = c /\ t[i][3] = stmts[i][2]
                      /\ Tail(t[i]) = stmts[i]
  <2> TAKE i \in 1..n
  <2>1. t[i] = tag(i)
    BY <1>4
  <2> HIDE DEF t
  <2> QED BY <1>2, <2>1
<1> HIDE DEF t
<1> QED BY <1>1, <1>3, <1>4, <1>5 DEF t

LEMMA FlatFacts ==
  ASSUME NEW c \in Contexts, NEW stmts \in Seq(Sql)
  PROVE  /\ Flat(c, stmts) \in Seq(Tokens(Owned))
         /\ Statements(Flat(c, stmts), Len(stmts)) = Tagged(c, stmts)
         /\ Parts(c, stmts) \in Nat /\ MessageCount(c, stmts) \in Nat \ {0}
         /\ Taken(c, stmts, 0) = << >> /\ Taken(c, stmts, Parts(c, stmts)) = Flat(c, stmts)
         /\ \A i \in 1..Parts(c, stmts) :
              Taken(c, stmts, i) =
                Taken(c, stmts, i - 1) \o Part(Flat(c, stmts), MaxPartSize, i)
<1> DEFINE t == Tagged(c, stmts)
           params == [i \in DOMAIN stmts |-> ParamCount(stmts[i])]
           f == Flat(c, stmts)
<1>1. t \in Seq(Owned) /\ DOMAIN t = DOMAIN stmts /\ Len(t) = Len(stmts)
  BY TaggedFacts
<1>2. params \in [DOMAIN t -> Nat]
  <2>1. MaxParams \in Nat
    BY StatementBatchAssumption
  <2>2. \A s : ParamCount(s) \in Nat
    BY <2>1 DEF ParamCount
  <2> HIDE DEF t
  <2> QED BY <1>1, <2>2
<1> HIDE DEF t, params
<1>3. f = FlatList(t, params)
  BY DEF Flat, t, params
<1>4. f \in Seq(Tokens(Owned))
  BY <1>1, <1>2, <1>3, FlatListLaid
<1>5. Statements(f, Len(stmts)) = t
  <2> HIDE DEF f
  <2>1. Statements(FlatList(t, params), Len(t)) = t
    BY <1>1, <1>2, StatementsAreRead
  <2> QED BY <1>1, <1>3, <2>1
<1>6. MaxPartSize \in Nat \ {0}
  BY StatementBatchAssumption
<1>7. /\ Parts(c, stmts) \in Nat /\ Taken(c, stmts, 0) = << >>
      /\ Taken(c, stmts, Parts(c, stmts)) = f
  <2> HIDE DEF f
  <2> QED BY <1>4, <1>6, AllParts DEF Parts, Taken, f
<1>8. \A i \in 1..Parts(c, stmts) :
        Taken(c, stmts, i) = Taken(c, stmts, i - 1) \o Part(f, MaxPartSize, i)
  <2> HIDE DEF f
  <2> QED BY <1>4, <1>6, PartsExtend DEF Parts, Taken, f
<1> QED BY <1>4, <1>5, <1>7, <1>8 DEF MessageCount, t

LEMMA TwoConcat ==
  ASSUME NEW V, NEW a \in V, NEW m \in Seq(V), NEW z \in V
  PROVE  /\ <<a>> \o m \o <<z>> \in Seq(V) /\ Len(<<a>> \o m \o <<z>>) = Len(m) + 2
         /\ (<<a>> \o m \o <<z>>)[1] = a /\ (<<a>> \o m \o <<z>>)[Len(m) + 2] = z
         /\ \A j \in 1..Len(m) : (<<a>> \o m \o <<z>>)[j + 1] = m[j]
<1> DEFINE x == <<a>>  y == <<z>>  n == Len(m)
<1>1. x \in Seq(V) /\ y \in Seq(V) /\ Len(x) = 1 /\ Len(y) = 1 /\ x[1] = a /\ y[1] = z /\ n \in Nat
  OBVIOUS
<1> DEFINE xm == x \o m
<1> HIDE DEF x, y
<1>2. /\ xm \in Seq(V) /\ Len(xm) = Len(x) + Len(m)
      /\ \A i \in 1..(Len(x) + Len(m)) : xm[i] = IF i <= Len(x) THEN x[i] ELSE m[i - Len(x)]
  BY <1>1, ConcatProperties
<1> HIDE DEF xm
<1>3. /\ xm \o y \in Seq(V) /\ Len(xm \o y) = Len(xm) + Len(y)
      /\ \A i \in 1..(Len(xm) + Len(y)) :
           (xm \o y)[i] = IF i <= Len(xm) THEN xm[i] ELSE y[i - Len(xm)]
  <2>1. xm \in Seq(V) /\ y \in Seq(V)
    BY <1>1, <1>2
  <2> QED BY <2>1, ConcatProperties
<1> DEFINE r == xm \o y
<1> HIDE DEF r
<1>4. /\ r \in Seq(V) /\ Len(r) = n + 2 /\ Len(xm) = n + 1
      /\ \A i \in 1..(n + 2) : r[i] = IF i <= n + 1 THEN xm[i] ELSE y[i - (n + 1)]
      /\ \A i \in 1..(n + 1) : xm[i] = IF i <= 1 THEN x[i] ELSE m[i - 1]
  <2>1. Len(x) + Len(m) = n + 1 /\ Len(xm) = n + 1 /\ Len(xm) + Len(y) = n + 2
    BY <1>1, <1>2
  <2> HIDE DEF n
  <2> QED BY <1>1, <1>2, <1>3, <2>1 DEF r
<1> HIDE DEF n
<1>5. r[1] = a
  <2>1. 1 \in 1..(n + 2) /\ 1 <= n + 1 /\ 1 \in 1..(n + 1)
    BY <1>1
  <2>2. r[1] = xm[1] /\ xm[1] = x[1]
    BY <1>4, <2>1
  <2> QED BY <1>1, <2>2
<1>6. r[n + 2] = z
  <2>1. n + 2 \in 1..(n + 2) /\ ~(n + 2 <= n + 1) /\ n + 2 - (n + 1) = 1
    BY <1>1
  <2>2. r[n + 2] = y[1]
    <3> DEFINE i == n + 2
    <3>1. i \in 1..(n + 2) /\ ~(i <= n + 1) /\ i - (n + 1) = 1
      BY <1>1
    <3> HIDE DEF i
    <3>2. r[i] = y[i - (n + 1)]
      BY <1>4, <3>1
    <3>3. r[i] = y[1]
      BY <3>1, <3>2
    <3> QED BY <3>3 DEF i
  <2> QED BY <1>1, <2>2
<1>7. ASSUME NEW j \in 1..n PROVE r[j + 1] = m[j]
  <2>1. j + 1 \in 1..(n + 2) /\ j + 1 <= n + 1 /\ j + 1 \in 1..(n + 1) /\ ~(j + 1 <= 1)
        /\ j + 1 - 1 = j
    BY <1>1
  <2>2. r[j + 1] = xm[j + 1] /\ xm[j + 1] = m[j]
    BY <1>4, <2>1
  <2> QED BY <2>2
<1> QED BY <1>4, <1>5, <1>6, <1>7 DEF r, xm, x, y, n

\* All messages a context can send.
AnyMessage(c) ==
  {Message(c, m[1], m[2], m[3], m[4]) : m \in Nat \X Seq(Sql) \X Nat \X Nat}

LEMMA MessageIsAny ==
  ASSUME NEW c, NEW b \in Nat, NEW stmts \in Seq(Sql), NEW j \in Nat, NEW cbid \in Nat
  PROVE  Message(c, b, stmts, j, cbid) \in AnyMessage(c)
<1> DEFINE m == <<b, stmts, j, cbid>>
<1>1. m \in Nat \X Seq(Sql) \X Nat \X Nat /\ m[1] = b /\ m[2] = stmts /\ m[3] = j /\ m[4] = cbid
  OBVIOUS
<1> HIDE DEF m
<1> QED BY <1>1 DEF AnyMessage

LEMMA MessagesAre ==
  ASSUME NEW c \in Contexts, NEW b \in Nat, NEW stmts \in Seq(Sql), NEW cbid \in Nat
  PROVE  /\ Messages(c, b, stmts, cbid) \in Seq(AnyMessage(c))
         /\ Len(Messages(c, b, stmts, cbid)) = MessageCount(c, stmts)
         /\ \A j \in 1..MessageCount(c, stmts) :
              Messages(c, b, stmts, cbid)[j] = Message(c, b, stmts, j, cbid + j)
<1> DEFINE ms == Messages(c, b, stmts, cbid)
           n == MessageCount(c, stmts)
           parts == Parts(c, stmts)
           V == AnyMessage(c)
           msg(j) == Message(c, b, stmts, j, cbid + j)
<1>1. parts \in Nat /\ n \in Nat
  BY FlatFacts
<1>2. ASSUME NEW j \in Nat PROVE msg(j) \in V
  <2>1. cbid + j \in Nat
    OBVIOUS
  <2> QED BY <2>1, MessageIsAny
<1> HIDE DEF V
<1>3. CASE c \notin Workers
  <2>1. n = 1
    BY <1>3 DEF MessageCount
  <2>2. ms = <<msg(1)>>
    BY <1>3 DEF Messages, Message, Flat, Tagged
  <2>3. msg(1) \in V
    BY <1>2
  <2> DEFINE m == msg(1)
  <2> HIDE DEF msg, ms, n
  <2>4. ms = <<m>>
    BY <2>2
  <2>5. m \in V
    BY <2>3
  <2> HIDE DEF m
  <2>6. ms \in Seq(V) /\ Len(ms) = 1 /\ ms[1] = m
    BY <2>4, <2>5
  <2>7. \A j \in 1..n : ms[j] = msg(j)
    BY <2>1, <2>6 DEF m
  <2> QED BY <2>1, <2>6, <2>7 DEF ms, msg, n, V
<1>4. CASE c \in Workers
  <2>1. n = parts + 2
    BY <1>4 DEF MessageCount
  <2> DEFINE a == msg(1)
             z == msg(parts + 2)
             m == [i \in 1..parts |-> msg(i + 1)]
  <2>2. ms = <<a>> \o m \o <<z>>
    <3>1. a = [op |-> "batchStart", id |-> BatchId(c, b), flen |-> Len(stmts)]
      BY <1>4 DEF Message
    <3>2. z = [op |-> "batchRun", id |-> BatchId(c, b), to |-> c, cbid |-> cbid + parts + 2]
      <4>1. parts + 2 # 1 /\ cbid + (parts + 2) = cbid + parts + 2
        <5> HIDE DEF parts
        <5> QED BY <1>1
      <4> HIDE DEF parts, n
      <4> QED BY <1>4, <2>1, <4>1 DEF Message, n
    <3>3. ASSUME NEW i \in 1..parts
          PROVE  msg(i + 1) = [op |-> "batchPart", id |-> BatchId(c, b),
                               part |-> Part(Flat(c, stmts), MaxPartSize, i)]
      <4>1. i + 1 # 1 /\ i + 1 # n /\ i + 1 - 1 = i
        <5> HIDE DEF parts, n
        <5> QED BY <1>1, <2>1
      <4> HIDE DEF parts
      <4> QED BY <1>4, <4>1 DEF Message
    <3>4. m = [i \in 1..parts |-> [op |-> "batchPart", id |-> BatchId(c, b),
                                   part |-> Part(Flat(c, stmts), MaxPartSize, i)]]
      <4> HIDE DEF msg, parts
      <4> QED BY <3>3
    <3> HIDE DEF a, z, m
    <3>5. ms = <<[op |-> "batchStart", id |-> BatchId(c, b), flen |-> Len(stmts)]>>
               \o [i \in 1..parts |-> [op |-> "batchPart", id |-> BatchId(c, b),
                                       part |-> Part(Flat(c, stmts), MaxPartSize, i)]]
               \o <<[op |-> "batchRun", id |-> BatchId(c, b), to |-> c,
                     cbid |-> cbid + parts + 2]>>
      BY <1>4 DEF Messages, Flat, Tagged, Parts
    <3> HIDE DEF ms, parts
    <3> QED BY <3>1, <3>2, <3>4, <3>5
  <2>3. a \in V /\ z \in V /\ m \in Seq(V) /\ Len(m) = parts /\ \A i \in 1..parts : m[i] = msg(i + 1)
    <3>1. \A i \in 1..parts : i + 1 \in Nat
      BY <1>1
    <3> HIDE DEF msg, parts
    <3> QED BY <1>1, <1>2, <3>1
  <2> HIDE DEF a, z, m
  <2> DEFINE r == <<a>> \o m \o <<z>>
  <2>4. /\ r \in Seq(V) /\ Len(r) = parts + 2 /\ r[1] = a /\ r[parts + 2] = z
        /\ \A i \in 1..parts : r[i + 1] = m[i]
    <3> HIDE DEF parts
    <3>1. /\ r \in Seq(V) /\ Len(r) = Len(m) + 2 /\ r[1] = a /\ r[Len(m) + 2] = z
          /\ \A i \in 1..Len(m) : r[i + 1] = m[i]
      BY <2>3, TwoConcat
    <3> QED BY <2>3, <3>1
  <2> HIDE DEF r
  <2>5. \A j \in 1..n : r[j] = msg(j)
    <3> TAKE j \in 1..n
    <3> HIDE DEF parts, n, msg
    <3>1. j = 1 \/ j = parts + 2 \/ (j - 1 \in 1..parts /\ j - 1 + 1 = j)
      BY <1>1, <2>1
    <3>2. CASE j - 1 \in 1..parts /\ j - 1 + 1 = j
      BY <2>3, <2>4, <3>2
    <3> QED BY <2>4, <3>1, <3>2 DEF a, z
  <2>6. ms = r
    BY <2>2 DEF r
  <2> HIDE DEF ms, msg, parts, n
  <2> QED BY <2>1, <2>4, <2>5, <2>6 DEF ms, msg, n, V
<1> QED BY <1>3, <1>4

-----------------------------------------------------------------------------
(* Statements by number. *)

\* Statements m + 1 to n of a transaction, kind[i] being what the i-th is.
Piece(kind, m, n) == [j \in 1..(n - m) |-> <<m + j, kind[m + j]>>]

\* kind with kinds added behind the first a.
Longer(kind, a, kinds) ==
  [i \in Nat |-> IF a < i /\ i <= a + Len(kinds) THEN kinds[i - a] ELSE kind[i]]

LEMMA PieceFacts ==
  ASSUME NEW kind \in [Nat -> Kinds], NEW m \in Nat, NEW n \in Nat, m <= n
  PROVE  /\ Piece(kind, m, n) \in Seq(Sql) /\ Len(Piece(kind, m, n)) = n - m
         /\ DOMAIN Piece(kind, m, n) = 1..(n - m)
         /\ \A j \in 1..(n - m) : /\ Piece(kind, m, n)[j] = <<m + j, kind[m + j]>>
                                  /\ Piece(kind, m, n)[j][1] = m + j
                                  /\ Piece(kind, m, n)[j][2] = kind[m + j]
<1> DEFINE r == n - m
           s(j) == <<m + j, kind[m + j]>>
<1>1. r \in Nat
  OBVIOUS
<1>2. ASSUME NEW j \in 1..r PROVE s(j) \in Sql /\ s(j)[1] = m + j /\ s(j)[2] = kind[m + j]
  <2>1. m + j \in Nat
    OBVIOUS
  <2>2. kind[m + j] \in Kinds
    BY <2>1
  <2> QED BY <2>1, <2>2 DEF Sql
<1>3. Piece(kind, m, n) = [j \in 1..r |-> s(j)]
  BY DEF Piece
<1> HIDE DEF r
<1> DEFINE p == [j \in 1..r |-> s(j)]
<1>4. p \in Seq(Sql) /\ Len(p) = r /\ DOMAIN p = 1..r /\ \A j \in 1..r : p[j] = s(j)
  <2> HIDE DEF s
  <2> QED BY <1>1, <1>2
<1>5. \A j \in 1..r : p[j] = s(j) /\ p[j][1] = m + j /\ p[j][2] = kind[m + j]
  BY <1>2, <1>4
<1> HIDE DEF p
<1> QED BY <1>3, <1>4, <1>5 DEF p, r

LEMMA PieceIs ==
  ASSUME NEW kind \in [Nat -> Kinds], NEW m \in Nat, NEW n \in Nat, m <= n,
         NEW s \in Seq(Sql), Len(s) = n - m, \A j \in 1..(n - m) : s[j] = <<m + j, kind[m + j]>>
  PROVE  s = Piece(kind, m, n)
<1> DEFINE p == Piece(kind, m, n)
<1>1. p \in Seq(Sql) /\ Len(p) = n - m /\ \A j \in 1..(n - m) : p[j] = <<m + j, kind[m + j]>>
  BY PieceFacts
<1> HIDE DEF p
<1>2. s = p
  BY <1>1, SeqEqual
<1> QED BY <1>2 DEF p

LEMMA PieceSame ==
  ASSUME NEW kind \in [Nat -> Kinds], NEW also \in [Nat -> Kinds], NEW m \in Nat, NEW n \in Nat,
         \A i \in 1..n : also[i] = kind[i]
  PROVE  Piece(also, m, n) = Piece(kind, m, n)
<1>1. \A j \in 1..(n - m) : m + j \in 1..n
  OBVIOUS
<1> QED BY <1>1 DEF Piece

\* What is behind the first i of the first k statements of a list.
Behind(stmts, i, k) == SubSeq(stmts, i + 1, k)

LEMMA PieceBehind ==
  ASSUME NEW kind \in [Nat -> Kinds], NEW m \in Nat, NEW n \in Nat, m <= n,
         NEW i \in Nat, NEW k \in Nat, i <= k, k <= n - m
  PROVE  Behind(Piece(kind, m, n), i, k) = Piece(kind, m + i, m + k)
<1> DEFINE p == Piece(kind, m, n)
           s == SubSeq(p, i + 1, k)
<1>1. p \in Seq(Sql) /\ Len(p) = n - m /\ \A j \in 1..(n - m) : p[j] = <<m + j, kind[m + j]>>
  BY PieceFacts
<1> HIDE DEF p
<1>2. \A j \in (i + 1)..k : p[j] \in Sql
  <2>1. \A j \in 1..Len(p) : p[j] \in Sql
    BY <1>1
  <2> QED BY <1>1, <2>1
<1>3. /\ s \in Seq(Sql) /\ Len(s) = k - i /\ \A j \in 1..(k - i) : s[j] = p[i + j]
  <2>1. /\ s \in Seq(Sql) /\ Len(s) = IF i + 1 <= k THEN k - (i + 1) + 1 ELSE 0
        /\ \A j \in 1..(k - (i + 1) + 1) : s[j] = p[i + 1 + j - 1]
    <3>1. i + 1 \in Int /\ k \in Int
      OBVIOUS
    <3> QED BY <1>2, <3>1, SubSeqProperties
  <2>2. k - (i + 1) + 1 = k - i /\ \A j \in 1..(k - i) : i + 1 + j - 1 = i + j
    OBVIOUS
  <2> HIDE DEF s
  <2>3. Len(s) = k - i
    BY <2>1
  <2> QED BY <2>1, <2>2, <2>3
<1> HIDE DEF s
<1>4. ASSUME NEW j \in 1..(k - i) PROVE s[j] = <<(m + i) + j, kind[(m + i) + j]>>
  <2>1. i + j \in 1..(n - m) /\ m + (i + j) = (m + i) + j
    OBVIOUS
  <2>2. p[i + j] = <<m + (i + j), kind[m + (i + j)]>>
    BY <1>1, <2>1
  <2>3. s[j] = p[i + j]
    BY <1>3
  <2> QED BY <2>1, <2>2, <2>3
<1> DEFINE a == m + i
           b == m + k
<1>5. a \in Nat /\ b \in Nat /\ a <= b /\ b - a = k - i
  OBVIOUS
<1>6. Len(s) = b - a /\ \A j \in 1..(b - a) : s[j] = <<a + j, kind[a + j]>>
  BY <1>3, <1>4, <1>5
<1> HIDE DEF a, b
<1>7. s = Piece(kind, a, b)
  BY <1>3, <1>5, <1>6, PieceIs
<1> QED BY <1>7 DEF a, b, s, p, Behind

LEMMA LongerFacts ==
  ASSUME NEW kind \in [Nat -> Kinds], NEW a \in Nat, NEW kinds \in Seq(Kinds)
  PROVE  /\ Longer(kind, a, kinds) \in [Nat -> Kinds] /\ Len(kinds) \in Nat
         /\ \A i \in 0..a : Longer(kind, a, kinds)[i] = kind[i]
         /\ \A i \in 1..Len(kinds) : a + i \in Nat /\ Longer(kind, a, kinds)[a + i] = kinds[i]
<1> DEFINE r == Len(kinds)
<1>1. r \in Nat /\ \A i \in 1..r : kinds[i] \in Kinds
  OBVIOUS
<1> HIDE DEF r
<1>2. ASSUME NEW i \in Nat
      PROVE (IF a < i /\ i <= a + r THEN kinds[i - a] ELSE kind[i]) \in Kinds
  <2>1. CASE a < i /\ i <= a + r
    <3>1. i - a \in 1..r
      BY <1>1, <2>1
    <3> QED BY <1>1, <2>1, <3>1
  <2>2. CASE ~(a < i /\ i <= a + r)
    BY <2>2
  <2> QED BY <2>1, <2>2
<1>3. Longer(kind, a, kinds) = [i \in Nat |-> IF a < i /\ i <= a + r THEN kinds[i - a] ELSE kind[i]]
  BY DEF Longer, r
<1> DEFINE also == Longer(kind, a, kinds)
<1> HIDE DEF also
<1>4. also \in [Nat -> Kinds]
  BY <1>2, <1>3 DEF also
<1>5. ASSUME NEW i \in 0..a PROVE also[i] = kind[i]
  <2>1. i \in Nat /\ ~(a < i)
    OBVIOUS
  <2> QED BY <1>3, <2>1 DEF also
<1>6. ASSUME NEW i \in 1..r PROVE a + i \in Nat /\ also[a + i] = kinds[i]
  <2>1. a + i \in Nat /\ a < a + i /\ a + i <= a + r /\ (a + i) - a = i
    BY <1>1
  <2> DEFINE k == a + i
  <2>2. also[k] = IF a < k /\ k <= a + r THEN kinds[k - a] ELSE kind[k]
    <3> HIDE DEF k
    <3>1. k \in Nat
      BY <2>1 DEF k
    <3> QED BY <1>3, <3>1 DEF also
  <2> QED BY <2>1, <2>2
<1> QED BY <1>1, <1>4, <1>5, <1>6 DEF also, r

\* Added statements continue the ones that wait.
LEMMA PieceLonger ==
  ASSUME NEW kind \in [Nat -> Kinds], NEW m \in Nat, NEW a \in Nat, m <= a, NEW kinds \in Seq(Kinds)
  PROVE  Piece(kind, m, a) \o [i \in DOMAIN kinds |-> <<a + i, kinds[i]>>]
           = Piece(Longer(kind, a, kinds), m, a + Len(kinds))
<1> DEFINE p == Piece(kind, m, a)
           r == Len(kinds)
           q == [i \in DOMAIN kinds |-> <<a + i, kinds[i]>>]
           also == Longer(kind, a, kinds)
<1>1. /\ p \in Seq(Sql) /\ Len(p) = a - m
      /\ \A j \in 1..(a - m) : p[j] = <<m + j, kind[m + j]>>
  BY PieceFacts
<1>2. /\ also \in [Nat -> Kinds] /\ r \in Nat /\ \A i \in 0..a : also[i] = kind[i]
      /\ \A i \in 1..r : a + i \in Nat /\ also[a + i] = kinds[i]
  BY LongerFacts
<1>3. DOMAIN kinds = 1..r /\ \A i \in 1..r : kinds[i] \in Kinds
  OBVIOUS
<1> HIDE DEF p, r, also
<1>4. q \in Seq(Sql) /\ Len(q) = r /\ \A i \in 1..r : q[i] = <<a + i, also[a + i]>>
  <2>1. \A i \in 1..r : <<a + i, kinds[i]>> \in Sql
    BY <1>2, <1>3 DEF Sql
  <2>2. q = [i \in 1..r |-> <<a + i, kinds[i]>>]
    BY <1>3
  <2> QED BY <1>2, <2>1, <2>2
<1> HIDE DEF q
<1> DEFINE s == p \o q
<1>5. /\ s \in Seq(Sql) /\ Len(s) = Len(p) + Len(q)
      /\ \A i \in 1..(Len(p) + Len(q)) : s[i] = IF i <= Len(p) THEN p[i] ELSE q[i - Len(p)]
  BY <1>1, <1>4, ConcatProperties
<1> HIDE DEF s
<1> DEFINE n == a + r
<1>6. n \in Nat /\ m <= n /\ Len(s) = n - m
  BY <1>1, <1>2, <1>4, <1>5
<1>7. ASSUME NEW j \in 1..(n - m) PROVE s[j] = <<m + j, also[m + j]>>
  <2>0. s[j] = IF j <= a - m THEN p[j] ELSE q[j - (a - m)]
    <3>1. Len(p) = a - m /\ j \in 1..(Len(p) + Len(q))
      BY <1>1, <1>2, <1>4
    <3> QED BY <1>5, <3>1
  <2>1. CASE j <= a - m
    <3>1. j \in 1..(a - m) /\ m + j \in 0..a
      BY <2>1, <1>2
    <3>2. p[j] = <<m + j, kind[m + j]>>
      BY <1>1, <3>1
    <3>3. also[m + j] = kind[m + j]
      BY <1>2, <3>1
    <3> QED BY <2>0, <2>1, <3>2, <3>3
  <2>2. CASE ~(j <= a - m)
    <3>1. j - (a - m) \in 1..r /\ a + (j - (a - m)) = m + j
      BY <2>2, <1>2
    <3> DEFINE i == j - (a - m)
    <3>2. q[i] = <<a + i, also[a + i]>>
      <4> HIDE DEF i
      <4>1. i \in 1..r
        BY <3>1 DEF i
      <4> QED BY <1>4, <4>1
    <3> QED BY <2>0, <2>2, <3>1, <3>2
  <2> QED BY <2>1, <2>2
<1> HIDE DEF n
<1>8. s = Piece(also, m, n)
  BY <1>2, <1>5, <1>6, <1>7, PieceIs
<1> QED BY <1>8 DEF s, p, q, also, n, r

-----------------------------------------------------------------------------
(* The history of a context. *)

Phases == {"sent", "queued", "executing", "answered", "delivered"}
Histories == [n : Nat, kind : [Nat -> Kinds], first : [Nat -> Nat], at : [Nat -> Nat],
              taken : Nat, phase : [Nat -> Phases]]

Batch(g, b) == Piece(g.kind, g.first[b - 1], g.first[b])

Numbered(c, g) ==
  /\ g \in Histories
  /\ g.at[0] = 0 /\ g.first[0] = 0
  /\ \A b \in 1..g.n : /\ g.at[b] = g.at[b - 1] + MessageCount(c, Batch(g, b))
                       /\ g.first[b - 1] <= g.first[b]

\* A batch is sent until its last message is taken.
Phased(g) ==
  /\ g.taken <= g.at[g.n]
  /\ \A b \in 1..g.n : g.phase[b] = "sent" <=> g.taken < g.at[b]
  /\ \A b \in Nat : b > g.n => g.phase[b] = "sent"

\* The message of this number.
IsMessage(c, g, msg, number) ==
  \E b \in 1..g.n :
    /\ g.at[b - 1] < number /\ number <= g.at[b]
    /\ msg = Message(c, b, Batch(g, b), number - g.at[b - 1], number)

\* Requests that are on their way.
Sent(c, g, reqs) ==
  /\ reqs \in Seq(AnyMessage(c))
  /\ \A k \in 1..Len(reqs) : IsMessage(c, g, reqs[k], g.taken + k)

\* All messages behind those taken are requests, and the callback id of a batch
\* that is not delivered is known.
Posted(c, g, reqs, ids) ==
  /\ Numbered(c, g) /\ Sent(c, g, reqs) /\ g.taken + Len(reqs) = g.at[g.n]
  /\ ids \in Seq(0..g.n) /\ Len(ids) = g.at[g.n]
  /\ \A b \in 1..g.n : g.phase[b] # "delivered" => ids[g.at[b]] = b

\* h is g and more batches.
Extends(g, h) ==
  /\ h \in Histories /\ g.n <= h.n /\ h.taken = g.taken /\ h.phase = g.phase
  /\ \A i \in 1..g.first[g.n] : h.kind[i] = g.kind[i]
  /\ \A b \in 0..g.n : h.at[b] = g.at[b] /\ h.first[b] = g.first[b]

LEMMA HistoryTypes ==
  ASSUME NEW g \in Histories
  PROVE  /\ g.n \in Nat /\ g.kind \in [Nat -> Kinds] /\ g.first \in [Nat -> Nat]
         /\ g.at \in [Nat -> Nat] /\ g.taken \in Nat /\ g.phase \in [Nat -> Phases]
BY DEF Histories

LEMMA Rising ==
  ASSUME NEW f \in [Nat -> Nat], NEW n \in Nat, \A b \in 1..n : f[b - 1] < f[b]
  PROVE  \A a, b \in 0..n : a < b => f[a] < f[b]
<1> DEFINE S == {b \in 0..n : \A a \in 0..n : a < b => f[a] < f[b]}
<1>1. 0 \in S
  OBVIOUS
<1>2. ASSUME NEW b \in 1..n, b - 1 \in S PROVE b \in S
  <2>1. b \in 0..n /\ b - 1 \in Nat /\ f[b - 1] \in Nat /\ f[b] \in Nat
    OBVIOUS
  <2>2. ASSUME NEW a \in 0..n, a < b PROVE f[a] < f[b]
    <3>1. a = b - 1 \/ a < b - 1
      BY <2>2
    <3>2. f[a] \in Nat /\ f[b - 1] < f[b]
      OBVIOUS
    <3>3. a < b - 1 => f[a] < f[b - 1]
      BY <1>2
    <3> QED BY <2>1, <3>1, <3>2, <3>3
  <2> QED BY <2>1, <2>2
<1>3. 0..n \subseteq S
  <2> HIDE DEF S
  <2> QED BY <1>1, <1>2, UpTo
<1> QED BY <1>3

LEMMA NotFalling ==
  ASSUME NEW f \in [Nat -> Nat], NEW n \in Nat, \A b \in 1..n : f[b - 1] <= f[b]
  PROVE  \A a, b \in 0..n : a <= b => f[a] <= f[b]
<1> DEFINE S == {b \in 0..n : \A a \in 0..n : a <= b => f[a] <= f[b]}
<1>1. 0 \in S
  <2>1. \A a \in 0..n : a <= 0 => a = 0
    OBVIOUS
  <2>2. f[0] <= f[0]
    OBVIOUS
  <2> QED BY <2>1, <2>2
<1>2. ASSUME NEW b \in 1..n, b - 1 \in S PROVE b \in S
  <2>1. b \in 0..n /\ b - 1 \in Nat /\ f[b - 1] \in Nat /\ f[b] \in Nat
    OBVIOUS
  <2>2. ASSUME NEW a \in 0..n, a <= b PROVE f[a] <= f[b]
    <3>1. a = b \/ a <= b - 1
      BY <2>2
    <3>2. f[a] \in Nat /\ f[b - 1] <= f[b]
      OBVIOUS
    <3>3. a <= b - 1 => f[a] <= f[b - 1]
      BY <1>2
    <3> QED BY <2>1, <3>1, <3>2, <3>3
  <2> QED BY <2>1, <2>2
<1>3. 0..n \subseteq S
  <2> HIDE DEF S
  <2> QED BY <1>1, <1>2, UpTo
<1> QED BY <1>3

LEMMA Order ==
  ASSUME NEW c \in Contexts, NEW g, Numbered(c, g)
  PROVE  /\ \A b \in 0..g.n : g.at[b] \in Nat /\ g.first[b] \in Nat
         /\ \A a, b \in 0..g.n : a < b => g.at[a] < g.at[b]
         /\ \A a, b \in 0..g.n : a <= b => g.first[a] <= g.first[b]
<1>1. g \in Histories /\ g.n \in Nat /\ g.first \in [Nat -> Nat] /\ g.at \in [Nat -> Nat]
      /\ g.kind \in [Nat -> Kinds]
  BY HistoryTypes DEF Numbered
<1>2. \A b \in 1..g.n : g.first[b - 1] <= g.first[b]
  BY DEF Numbered
<1>3. ASSUME NEW b \in 1..g.n PROVE g.at[b - 1] < g.at[b]
  <2>1. b - 1 \in Nat /\ b \in Nat
    BY <1>1
  <2>2. g.first[b - 1] \in Nat /\ g.first[b] \in Nat /\ g.at[b - 1] \in Nat
    BY <1>1, <2>1
  <2>3. Batch(g, b) \in Seq(Sql)
    BY <1>1, <1>2, <2>2, PieceFacts DEF Batch
  <2>4. MessageCount(c, Batch(g, b)) \in Nat \ {0}
    BY <2>3, FlatFacts
  <2>5. g.at[b] = g.at[b - 1] + MessageCount(c, Batch(g, b))
    BY DEF Numbered
  <2> QED BY <2>2, <2>4, <2>5
<1> DEFINE n == g.n
           at == g.at
           first == g.first
<1> HIDE DEF n, at, first
<1>4. n \in Nat /\ at \in [Nat -> Nat] /\ first \in [Nat -> Nat]
  BY <1>1 DEF n, at, first
<1>5. \A a, b \in 0..n : a < b => at[a] < at[b]
  <2>1. \A b \in 1..n : at[b - 1] < at[b]
    BY <1>3 DEF n, at
  <2> QED BY <1>4, <2>1, Rising
<1>6. \A a, b \in 0..n : a <= b => first[a] <= first[b]
  <2>1. \A b \in 1..n : first[b - 1] <= first[b]
    BY <1>2 DEF n, first
  <2> QED BY <1>4, <2>1, NotFalling
<1>7. \A b \in 0..n : at[b] \in Nat /\ first[b] \in Nat
  BY <1>4
<1> QED BY <1>5, <1>6, <1>7 DEF n, at, first

LEMMA BatchFacts ==
  ASSUME NEW c \in Contexts, NEW g, Numbered(c, g), NEW b \in 1..g.n
  PROVE  /\ b - 1 \in 0..g.n /\ b \in 0..g.n /\ g.n \in Nat
         /\ g.at[b - 1] \in Nat /\ g.at[b] \in Nat /\ g.first[b - 1] \in Nat /\ g.first[b] \in Nat
         /\ g.first[b - 1] <= g.first[b] /\ g.first[b] <= g.first[g.n]
         /\ g.at[b - 1] < g.at[b] /\ g.at[b] <= g.at[g.n]
         /\ Batch(g, b) \in Seq(Sql) /\ Len(Batch(g, b)) = g.first[b] - g.first[b - 1]
         /\ DOMAIN Batch(g, b) = 1..Len(Batch(g, b))
         /\ \A j \in 1..Len(Batch(g, b)) :
              Batch(g, b)[j] = <<g.first[b - 1] + j, g.kind[g.first[b - 1] + j]>>
         /\ g.at[b] = g.at[b - 1] + MessageCount(c, Batch(g, b))
         /\ MessageCount(c, Batch(g, b)) \in Nat \ {0}
<1>1. g \in Histories /\ g.n \in Nat /\ g.first \in [Nat -> Nat] /\ g.at \in [Nat -> Nat]
      /\ g.kind \in [Nat -> Kinds]
  BY HistoryTypes DEF Numbered
<1>2. b - 1 \in 0..g.n /\ b \in 0..g.n /\ b - 1 < b /\ b <= g.n /\ g.n \in 0..g.n
  BY <1>1
<1>3. /\ g.at[b - 1] \in Nat /\ g.at[b] \in Nat /\ g.first[b - 1] \in Nat /\ g.first[b] \in Nat
      /\ g.at[b - 1] < g.at[b] /\ g.first[b] <= g.first[g.n]
  BY <1>2, Order
<1>4. g.first[b - 1] <= g.first[b] /\ g.at[b] = g.at[b - 1] + MessageCount(c, Batch(g, b))
  BY DEF Numbered
<1>5. g.at[b] <= g.at[g.n]
  <2>1. b = g.n \/ b < g.n
    BY <1>1
  <2>2. b < g.n => g.at[b] < g.at[g.n]
    BY <1>2, Order
  <2>3. g.at[g.n] \in Nat
    BY <1>2, Order
  <2> QED BY <1>3, <2>1, <2>2, <2>3
<1>6. /\ Batch(g, b) \in Seq(Sql) /\ Len(Batch(g, b)) = g.first[b] - g.first[b - 1]
      /\ DOMAIN Batch(g, b) = 1..Len(Batch(g, b))
      /\ \A j \in 1..Len(Batch(g, b)) :
           Batch(g, b)[j] = <<g.first[b - 1] + j, g.kind[g.first[b - 1] + j]>>
  <2> DEFINE kind == g.kind
             m == g.first[b - 1]
             n == g.first[b]
             p == Piece(kind, m, n)
  <2>1. kind \in [Nat -> Kinds] /\ m \in Nat /\ n \in Nat /\ m <= n
    BY <1>1, <1>3, <1>4
  <2> HIDE DEF kind, m, n
  <2>2. /\ p \in Seq(Sql) /\ Len(p) = n - m /\ DOMAIN p = 1..(n - m)
        /\ \A j \in 1..(n - m) : p[j] = <<m + j, kind[m + j]>>
    BY <2>1, PieceFacts
  <2> HIDE DEF p
  <2>3. DOMAIN p = 1..Len(p) /\ \A j \in 1..Len(p) : p[j] = <<m + j, kind[m + j]>>
    BY <2>2
  <2> QED BY <2>2, <2>3 DEF Batch, p, kind, m, n
<1>7. MessageCount(c, Batch(g, b)) \in Nat \ {0}
  BY <1>6, FlatFacts
<1> QED BY <1>1, <1>2, <1>3, <1>4, <1>5, <1>6, <1>7

\* A number is that of a message of one batch only.
LEMMA OneBatchOf ==
  ASSUME NEW c \in Contexts, NEW g, Numbered(c, g), NEW a \in 1..g.n, NEW b \in 1..g.n, NEW k \in Nat,
         g.at[a - 1] < k, k <= g.at[a], g.at[b - 1] < k, k <= g.at[b]
  PROVE  a = b
<1>1. /\ g.at[a] \in Nat /\ g.at[b] \in Nat /\ g.at[a - 1] \in Nat /\ g.at[b - 1] \in Nat
      /\ a - 1 \in 0..g.n /\ b - 1 \in 0..g.n /\ a \in 0..g.n /\ b \in 0..g.n
  BY BatchFacts
<1>2. ASSUME NEW x \in 1..g.n, NEW y \in 1..g.n, x < y PROVE g.at[x] <= g.at[y - 1]
  <2>1. x \in 0..g.n /\ y - 1 \in 0..g.n /\ (x = y - 1 \/ x < y - 1)
    <3>1. x \in 0..g.n /\ y - 1 \in 0..g.n /\ g.n \in Nat
      BY BatchFacts
    <3> QED BY <1>2, <3>1
  <2>2. g.at[x] \in Nat /\ g.at[y - 1] \in Nat
    BY BatchFacts
  <2>3. x < y - 1 => g.at[x] < g.at[y - 1]
    BY <2>1, Order
  <2> QED BY <2>1, <2>2, <2>3
<1>3. ~(a < b) /\ ~(b < a)
  BY <1>1, <1>2
<1> QED BY <1>1, <1>3

LEMMA ExtendsFacts ==
  ASSUME NEW c \in Contexts, NEW g, Numbered(c, g), NEW h, Extends(g, h)
  PROVE  \A b \in 1..g.n : /\ b \in 1..h.n /\ Batch(h, b) = Batch(g, b)
                           /\ h.at[b] = g.at[b] /\ h.at[b - 1] = g.at[b - 1]
                           /\ h.first[b] = g.first[b] /\ h.first[b - 1] = g.first[b - 1]
                           /\ h.phase[b] = g.phase[b]
<1> TAKE b \in 1..g.n
<1>1. g \in Histories /\ h \in Histories /\ g.n \in Nat /\ h.n \in Nat /\ g.n <= h.n
  BY HistoryTypes DEF Numbered, Extends
<1>2. b \in 0..g.n /\ b - 1 \in 0..g.n /\ g.first[b - 1] \in Nat /\ g.first[b] \in Nat
      /\ g.first[b] <= g.first[g.n] /\ g.first[g.n] \in Nat
  <2>1. g.n \in 0..g.n
    BY <1>1
  <2> QED BY <2>1, BatchFacts, Order
<1>3. h.at[b] = g.at[b] /\ h.at[b - 1] = g.at[b - 1] /\ h.first[b] = g.first[b]
      /\ h.first[b - 1] = g.first[b - 1] /\ h.phase[b] = g.phase[b]
  BY <1>2 DEF Extends
<1>4. \A i \in 1..g.first[b] : h.kind[i] = g.kind[i]
  <2>1. \A i \in 1..g.first[b] : i \in 1..g.first[g.n]
    BY <1>2
  <2> QED BY <2>1 DEF Extends
<1>5. Batch(h, b) = Batch(g, b)
  <2>1. g.kind \in [Nat -> Kinds] /\ h.kind \in [Nat -> Kinds]
    BY <1>1, HistoryTypes
  <2>2. Piece(h.kind, g.first[b - 1], g.first[b]) = Piece(g.kind, g.first[b - 1], g.first[b])
    BY <1>2, <1>4, <2>1, PieceSame
  <2> QED BY <1>3, <2>2 DEF Batch
<1> QED BY <1>1, <1>3, <1>5

LEMMA ExtendsMessage ==
  ASSUME NEW c \in Contexts, NEW g, Numbered(c, g), NEW h, Extends(g, h), NEW msg, NEW k,
         IsMessage(c, g, msg, k)
  PROVE  IsMessage(c, h, msg, k)
<1>1. PICK b \in 1..g.n : /\ g.at[b - 1] < k /\ k <= g.at[b]
                          /\ msg = Message(c, b, Batch(g, b), k - g.at[b - 1], k)
  BY DEF IsMessage
<1>2. b \in 1..h.n /\ Batch(h, b) = Batch(g, b) /\ h.at[b] = g.at[b] /\ h.at[b - 1] = g.at[b - 1]
  BY ExtendsFacts
<1> QED BY <1>1, <1>2 DEF IsMessage

-----------------------------------------------------------------------------
(* Sending batches. *)

Set(f, i, v) == [f EXCEPT ![i] = v]

\* One more batch, of the statements up to to.
NextBatch(g, to) == Piece(g.kind, g.first[g.n], to)
Grown(c, g, to) ==
  [n |-> g.n + 1, kind |-> g.kind, first |-> Set(g.first, g.n + 1, to),
   at |-> Set(g.at, g.n + 1, g.at[g.n] + MessageCount(c, NextBatch(g, to))),
   taken |-> g.taken, phase |-> g.phase]

LEMMA SetFacts ==
  ASSUME NEW D, NEW V, NEW f \in [D -> V], NEW i \in D, NEW v \in V
  PROVE  /\ Set(f, i, v) \in [D -> V] /\ Set(f, i, v)[i] = v
         /\ \A j \in D : j # i => Set(f, i, v)[j] = f[j]
BY DEF Set

LEMMA GrownFacts ==
  ASSUME NEW c \in Contexts, NEW g, Numbered(c, g), NEW to \in Nat, g.first[g.n] <= to
  PROVE  /\ Extends(g, Grown(c, g, to)) /\ Numbered(c, Grown(c, g, to))
         /\ Grown(c, g, to).n = g.n + 1 /\ Grown(c, g, to).first[g.n + 1] = to
         /\ Grown(c, g, to).kind = g.kind /\ Batch(Grown(c, g, to), g.n + 1) = NextBatch(g, to)
         /\ NextBatch(g, to) \in Seq(Sql) /\ MessageCount(c, NextBatch(g, to)) \in Nat \ {0}
         /\ Grown(c, g, to).at[g.n + 1] = g.at[g.n] + MessageCount(c, NextBatch(g, to))
<1> DEFINE n == g.n
           h == Grown(c, g, to)
           list == NextBatch(g, to)
           count == MessageCount(c, list)
<1>1. /\ g \in Histories /\ n \in Nat /\ g.kind \in [Nat -> Kinds] /\ g.first \in [Nat -> Nat]
      /\ g.at \in [Nat -> Nat] /\ g.taken \in Nat /\ g.phase \in [Nat -> Phases]
  BY HistoryTypes DEF Numbered
<1>2. g.first[n] \in Nat /\ g.at[n] \in Nat /\ n + 1 \in Nat
  BY <1>1
<1>3. list \in Seq(Sql)
  BY <1>1, <1>2, PieceFacts DEF NextBatch
<1>4. count \in Nat \ {0}
  BY <1>3, FlatFacts
<1> HIDE DEF list, count
<1> DEFINE first == Set(g.first, n + 1, to)
           at == Set(g.at, n + 1, g.at[n] + count)
<1>5. first \in [Nat -> Nat] /\ first[n + 1] = to /\ \A j \in Nat : j # n + 1 => first[j] = g.first[j]
  <2> DEFINE f == g.first
             i == n + 1
             v == to
  <2>1. f \in [Nat -> Nat] /\ i \in Nat /\ v \in Nat
    BY <1>1, <1>2
  <2> HIDE DEF f, i, v
  <2> DEFINE D == Nat
  <2>5. f \in [D -> D] /\ i \in D /\ v \in D
    BY <2>1
  <2> HIDE DEF D
  <2>2. Set(f, i, v) \in [D -> D] /\ Set(f, i, v)[i] = v
        /\ \A j \in D : j # i => Set(f, i, v)[j] = f[j]
    BY <2>5, SetFacts
  <2> QED BY <2>2 DEF f, i, v, D
<1>6. /\ at \in [Nat -> Nat] /\ at[n + 1] = g.at[n] + count
      /\ \A j \in Nat : j # n + 1 => at[j] = g.at[j]
  <2>1. g.at[n] + count \in Nat
    BY <1>2, <1>4
  <2> DEFINE f == g.at
             i == n + 1
             v == g.at[n] + count
  <2>2. f \in [Nat -> Nat] /\ i \in Nat /\ v \in Nat
    BY <1>1, <1>2, <2>1
  <2> HIDE DEF f, i, v
  <2> DEFINE D == Nat
  <2>5. f \in [D -> D] /\ i \in D /\ v \in D
    BY <2>2
  <2> HIDE DEF D
  <2>3. Set(f, i, v) \in [D -> D] /\ Set(f, i, v)[i] = v
        /\ \A j \in D : j # i => Set(f, i, v)[j] = f[j]
    BY <2>5, SetFacts
  <2> QED BY <2>3 DEF f, i, v, D
<1> HIDE DEF first, at
<1>7. h = [n |-> n + 1, kind |-> g.kind, first |-> first, at |-> at, taken |-> g.taken,
           phase |-> g.phase]
  BY DEF Grown, first, at, count, list
<1> HIDE DEF h
<1>8. /\ h \in Histories /\ h.n = n + 1 /\ h.kind = g.kind /\ h.first = first /\ h.at = at
      /\ h.taken = g.taken /\ h.phase = g.phase
  BY <1>1, <1>2, <1>5, <1>6, <1>7 DEF Histories
<1>9. \A b \in 0..n : h.at[b] = g.at[b] /\ h.first[b] = g.first[b]
  <2>1. \A b \in 0..n : b \in Nat /\ b # n + 1
    BY <1>1
  <2> HIDE DEF n
  <2> QED BY <1>5, <1>6, <1>8, <2>1
<1>10. Extends(g, h)
  <2>1. n <= n + 1
    BY <1>1
  <2> QED BY <1>8, <1>9, <2>1 DEF Extends
<1>11. Batch(h, n + 1) = list
  <2>1. (n + 1) - 1 = n /\ n \in 0..n
    BY <1>1
  <2>2. h.first[n] = g.first[n]
    BY <1>9, <2>1
  <2> QED BY <1>5, <1>8, <2>1, <2>2 DEF Batch, NextBatch, list
<1>12. Numbered(c, h)
  <2>1. h.at[0] = 0 /\ h.first[0] = 0
    <3>1. 0 \in 0..n /\ g.at[0] = 0 /\ g.first[0] = 0
      BY <1>1 DEF Numbered
    <3> QED BY <1>9, <3>1
  <2>2. ASSUME NEW b \in 1..(n + 1)
        PROVE  h.at[b] = h.at[b - 1] + MessageCount(c, Batch(h, b)) /\ h.first[b - 1] <= h.first[b]
    <3>1. CASE b \in 1..n
      <4>1. /\ Batch(h, b) = Batch(g, b) /\ h.at[b] = g.at[b] /\ h.at[b - 1] = g.at[b - 1]
            /\ h.first[b] = g.first[b] /\ h.first[b - 1] = g.first[b - 1]
        BY <1>10, <3>1, ExtendsFacts
      <4> QED BY <3>1, <4>1 DEF Numbered
    <3>2. CASE b = n + 1
      <4>1. (n + 1) - 1 = n /\ n \in 0..n
        BY <1>1
      <4>2. h.at[n] = g.at[n] /\ h.first[n] = g.first[n]
        BY <1>9, <4>1
      <4>3. h.at[n + 1] = g.at[n] + count /\ h.first[n + 1] = to
        BY <1>5, <1>6, <1>8
      <4> QED BY <1>11, <3>2, <4>1, <4>2, <4>3 DEF count
    <3>3. b \in 1..n \/ b = n + 1
      BY <1>1
    <3> QED BY <3>1, <3>2, <3>3
  <2> QED BY <1>8, <2>1, <2>2 DEF Numbered
<1> QED BY <1>3, <1>4, <1>5, <1>6, <1>8, <1>10, <1>11, <1>12 DEF h, list, count

LEMMA CallbackIdsFacts ==
  ASSUME NEW V, NEW ms \in Seq(V), NEW b \in Nat
  PROVE  /\ CallbackIds(b, ms) \in Seq(0..b) /\ Len(CallbackIds(b, ms)) = Len(ms)
         /\ Len(ms) # 0 => CallbackIds(b, ms)[Len(ms)] = b
<1> DEFINE n == Len(ms)
           id(i) == IF i = n THEN b ELSE 0
<1>1. n \in Nat /\ DOMAIN ms = 1..n
  OBVIOUS
<1>2. CallbackIds(b, ms) = [i \in 1..n |-> id(i)]
  BY <1>1 DEF CallbackIds
<1> HIDE DEF n
<1>3. \A i \in 1..n : id(i) \in 0..b
  OBVIOUS
<1> DEFINE f == [i \in 1..n |-> id(i)]
<1>4. f \in Seq(0..b) /\ Len(f) = n /\ \A i \in 1..n : f[i] = id(i)
  <2> HIDE DEF id
  <2> QED BY <1>1, <1>3
<1>5. n # 0 => f[n] = b
  <2>1. n # 0 => n \in 1..n
    BY <1>1
  <2> HIDE DEF f
  <2> QED BY <1>4, <2>1
<1> QED BY <1>2, <1>4, <1>5 DEF n

LEMMA SendOne ==
  ASSUME NEW c \in Contexts, NEW g, NEW reqs, NEW ids, Posted(c, g, reqs, ids), Phased(g),
         NEW to \in Nat, g.first[g.n] <= to
  PROVE  /\ Posted(c, Grown(c, g, to),
                   reqs \o Messages(c, g.n + 1, NextBatch(g, to), Len(ids)),
                   ids \o CallbackIds(g.n + 1, Messages(c, g.n + 1, NextBatch(g, to), Len(ids))))
         /\ Phased(Grown(c, g, to))
<1> DEFINE n == g.n
           h == Grown(c, g, to)
           list == NextBatch(g, to)
           count == MessageCount(c, list)
           ms == Messages(c, n + 1, list, Len(ids))
           mine == CallbackIds(n + 1, ms)
           V == AnyMessage(c)
<1>1. /\ Numbered(c, g) /\ g \in Histories /\ n \in Nat /\ g.at \in [Nat -> Nat] /\ g.taken \in Nat
      /\ g.phase \in [Nat -> Phases] /\ g.at[n] \in Nat
  BY HistoryTypes DEF Numbered, Posted
<1>2. /\ Extends(g, h) /\ Numbered(c, h) /\ h.n = n + 1 /\ Batch(h, n + 1) = list
      /\ list \in Seq(Sql) /\ count \in Nat \ {0} /\ h.at[n + 1] = g.at[n] + count
  BY <1>1, GrownFacts
<1>3. h.taken = g.taken /\ h.phase = g.phase /\ \A b \in 0..n : h.at[b] = g.at[b]
  BY <1>2 DEF Extends
<1>4. /\ reqs \in Seq(V) /\ \A k \in 1..Len(reqs) : IsMessage(c, g, reqs[k], g.taken + k)
      /\ g.taken + Len(reqs) = g.at[n] /\ ids \in Seq(0..n) /\ Len(ids) = g.at[n]
      /\ \A b \in 1..n : g.phase[b] # "delivered" => ids[g.at[b]] = b
  BY DEF Posted, Sent
<1>5. /\ ms \in Seq(V) /\ Len(ms) = count
      /\ \A j \in 1..count : ms[j] = Message(c, n + 1, list, j, g.at[n] + j)
  <2> DEFINE b == n + 1
             last == Len(ids)
  <2>0. last = g.at[n]
    BY <1>4
  <2>1. b \in Nat /\ last \in Nat /\ last = g.at[n]
    <3> HIDE DEF last
    <3> QED BY <1>1, <2>0
  <2>2. list \in Seq(Sql)
    BY <1>2
  <2> HIDE DEF b, last, list, V
  <2>3. /\ Messages(c, b, list, last) \in Seq(AnyMessage(c))
        /\ Len(Messages(c, b, list, last)) = MessageCount(c, list)
        /\ \A j \in 1..MessageCount(c, list) :
             Messages(c, b, list, last)[j] = Message(c, b, list, j, last + j)
    BY <2>1, <2>2, MessagesAre
  <2> QED BY <2>1, <2>3 DEF b, last, V
<1>6. /\ mine \in Seq(0..(n + 1)) /\ Len(mine) = count /\ mine[count] = n + 1
  <2>1. n + 1 \in Nat
    BY <1>1
  <2> HIDE DEF ms, V, count, n
  <2> QED BY <1>2, <1>5, <2>1, CallbackIdsFacts
<1> HIDE DEF h, list, count, ms, mine, V, n
<1> DEFINE rs == reqs \o ms
           is == ids \o mine
           a == g.at[n]
<1>7. /\ rs \in Seq(V) /\ Len(rs) = Len(reqs) + count
      /\ \A k \in 1..(Len(reqs) + count) : rs[k] = IF k <= Len(reqs) THEN reqs[k] ELSE ms[k - Len(reqs)]
  BY <1>4, <1>5, ConcatProperties
<1>8. ids \in Seq(0..(n + 1))
  <2>1. 0..n \subseteq 0..(n + 1)
    BY <1>1
  <2> QED BY <1>4, <2>1, SeqMonotonic
<1>9. /\ is \in Seq(0..(n + 1)) /\ Len(is) = a + count
      /\ \A i \in 1..(a + count) : is[i] = IF i <= a THEN ids[i] ELSE mine[i - a]
  <2>1. /\ is \in Seq(0..(n + 1)) /\ Len(is) = Len(ids) + Len(mine)
        /\ \A i \in 1..(Len(ids) + Len(mine)) : is[i] = IF i <= Len(ids) THEN ids[i] ELSE mine[i - Len(ids)]
    BY <1>6, <1>8, ConcatProperties
  <2> HIDE DEF is
  <2> QED BY <1>4, <1>6, <2>1
<1> HIDE DEF rs, is, a
<1>10. a \in Nat /\ Len(reqs) \in Nat
  BY <1>1, <1>4 DEF a
<1>11. ASSUME NEW k \in 1..(Len(reqs) + count) PROVE IsMessage(c, h, rs[k], h.taken + k)
  <2>1. CASE k <= Len(reqs)
    <3>1. k \in 1..Len(reqs) /\ rs[k] = reqs[k]
      BY <1>7, <1>10, <2>1
    <3>2. IsMessage(c, g, rs[k], g.taken + k)
      BY <1>4, <3>1
    <3> QED BY <1>1, <1>2, <1>3, <3>2, ExtendsMessage
  <2>2. CASE ~(k <= Len(reqs))
    <3> DEFINE j == k - Len(reqs)
               number == g.taken + k
    <3>1. j \in 1..count /\ a + j = number /\ number - a = j /\ a < number /\ number <= a + count
      <4> DEFINE t == g.taken
                 r == Len(reqs)
      <4>1. t \in Nat /\ r \in Nat /\ t + r = a /\ a \in Nat /\ count \in Nat /\ ~(k <= r) /\ k \in 1..(r + count)
        BY <1>1, <1>2, <1>4, <1>10, <2>2 DEF a
      <4> HIDE DEF t, r
      <4>2. k - r \in 1..count /\ a + (k - r) = t + k /\ (t + k) - a = k - r /\ a < t + k /\ t + k <= a + count
        BY <4>1
      <4> QED BY <4>2 DEF t, r
    <3>2. rs[k] = ms[j]
      BY <1>7, <2>2
    <3> HIDE DEF j, number
    <3>3. rs[k] = Message(c, n + 1, list, number - a, number)
      BY <1>5, <3>1, <3>2 DEF a
    <3>4. n + 1 \in 1..h.n /\ (n + 1) - 1 = n /\ n \in 0..n
      BY <1>1, <1>2
    <3>5. h.at[(n + 1) - 1] = a /\ h.at[n + 1] = a + count
      BY <1>2, <1>3, <3>4 DEF a
    <3>6. IsMessage(c, h, rs[k], number)
      BY <1>2, <3>1, <3>3, <3>4, <3>5 DEF IsMessage
    <3> QED BY <1>3, <3>6 DEF number
  <2> QED BY <2>1, <2>2
<1>12. Sent(c, h, rs)
  BY <1>7, <1>11 DEF Sent, V
<1>13. h.taken + Len(rs) = h.at[h.n] /\ Len(is) = h.at[h.n]
  <2> DEFINE t == g.taken
             r == Len(reqs)
  <2>1. t \in Nat /\ r \in Nat /\ t + r = a /\ a \in Nat /\ count \in Nat
    BY <1>1, <1>2, <1>4, <1>10 DEF a
  <2>2. Len(rs) = r + count /\ Len(is) = a + count /\ h.taken = t /\ h.at[h.n] = a + count
    BY <1>2, <1>3, <1>7, <1>9 DEF a
  <2> HIDE DEF t, r
  <2>3. t + (r + count) = a + count
    BY <2>1
  <2> QED BY <2>2, <2>3
<1>14. ASSUME NEW b \in 1..h.n, h.phase[b] # "delivered" PROVE is[h.at[b]] = b
  <2>1. b \in 1..n \/ b = n + 1
    BY <1>1, <1>2
  <2>2. CASE b \in 1..n
    <3>1. ids[g.at[b]] = b
      BY <1>3, <1>4, <1>14, <2>2
    <3>2. g.at[b] \in 1..a /\ b \in 0..n
      <4>1. b \in 0..n /\ g.at[b - 1] \in Nat /\ g.at[b] \in Nat /\ g.at[b - 1] < g.at[b] /\ g.at[b] <= g.at[n]
        BY <1>1, <2>2, BatchFacts DEF n
      <4> QED BY <1>10, <4>1 DEF a
    <3>3. is[g.at[b]] = ids[g.at[b]]
      <4> DEFINE i == g.at[b]
      <4> HIDE DEF i
      <4>1. i \in 1..(a + count) /\ i <= a
        BY <1>2, <1>10, <3>2 DEF i
      <4>2. is[i] = ids[i]
        BY <1>9, <4>1
      <4> QED BY <4>2 DEF i
    <3> QED BY <1>3, <3>1, <3>2, <3>3
  <2>3. CASE b = n + 1
    <3> DEFINE i == a + count
    <3>1. i \in 1..(a + count) /\ ~(i <= a) /\ i - a = count /\ h.at[b] = i
      BY <1>2, <1>10, <2>3 DEF a
    <3> HIDE DEF i
    <3>2. is[i] = mine[count]
      BY <1>9, <3>1
    <3> QED BY <1>6, <2>3, <3>1, <3>2
  <2> QED BY <2>1, <2>2, <2>3
<1>15. Posted(c, h, rs, is)
  BY <1>2, <1>9, <1>12, <1>13, <1>14 DEF Posted
<1>16. Phased(h)
  <2>1. /\ g.taken <= a /\ \A b \in 1..n : g.phase[b] = "sent" <=> g.taken < g.at[b]
        /\ \A b \in Nat : b > n => g.phase[b] = "sent"
    BY DEF Phased, a, n
  <2>2. h.taken <= h.at[h.n] /\ h.taken < h.at[n + 1]
    <3> DEFINE t == g.taken
    <3>1. t \in Nat /\ a \in Nat /\ count \in Nat \ {0} /\ t <= a
      BY <1>1, <1>2, <1>10, <2>1
    <3>2. h.taken = t /\ h.at[h.n] = a + count /\ h.at[n + 1] = a + count
      BY <1>2, <1>3 DEF a
    <3> HIDE DEF t
    <3>3. t <= a + count /\ t < a + count
      BY <3>1
    <3> QED BY <3>2, <3>3
  <2>3. ASSUME NEW b \in 1..h.n PROVE h.phase[b] = "sent" <=> h.taken < h.at[b]
    <3>1. b \in 1..n \/ b = n + 1
      BY <1>1, <1>2
    <3>2. CASE b \in 1..n
      <4>1. h.at[b] = g.at[b]
        BY <1>2, <3>2, <1>1, ExtendsFacts DEF n
      <4> QED BY <1>3, <2>1, <3>2, <4>1
    <3>3. CASE b = n + 1
      <4>1. n + 1 \in Nat /\ n + 1 > n
        BY <1>1
      <4> QED BY <1>3, <2>1, <2>2, <3>3, <4>1
    <3> QED BY <3>1, <3>2, <3>3
  <2>4. \A b \in Nat : b > h.n => h.phase[b] = "sent"
    <3>1. \A b \in Nat : b > h.n => b > n
      BY <1>1, <1>2
    <3> QED BY <1>3, <2>1, <3>1
  <2> QED BY <2>2, <2>3, <2>4 DEF Phased
<1> QED BY <1>15, <1>16 DEF rs, is, h, ms, mine, list, n

\* run() for one list more: what Send makes of the requests and ids before.
SendStep(c, b, list, s) ==
  [messages |-> s.messages \o Messages(c, b, list, Len(s.ids)),
   ids      |-> s.ids \o CallbackIds(b, Messages(c, b, list, Len(s.ids)))]

Sends(sent, c, n, lists, reqs, ids) ==
  /\ sent[0] = [messages |-> reqs, ids |-> ids]
  /\ \A k \in 1..Len(lists) : sent[k] = SendStep(c, n + k, lists[k], sent[k - 1])

\* The lists are the statements of g that follow its batches, cut at p.
Cuts(g, lists, p) ==
  /\ Len(lists) \in Nat /\ p[0] = g.first[g.n] /\ \A k \in 0..Len(lists) : p[k] \in Nat
  /\ \A k \in 1..Len(lists) : p[k - 1] <= p[k] /\ lists[k] = Piece(g.kind, p[k - 1], p[k])

\* h is g with the first k of the lists sent.
SentUpTo(c, g, h, p, k, s) ==
  /\ Posted(c, h, s.messages, s.ids) /\ Phased(h) /\ Extends(g, h)
  /\ h.kind = g.kind /\ h.n = g.n + k /\ \A i \in 0..k : h.first[g.n + i] = p[i]

LEMMA ExtendsItself ==
  ASSUME NEW g \in Histories
  PROVE  Extends(g, g)
<1>1. g.n \in Nat
  BY HistoryTypes
<1> QED BY <1>1 DEF Extends

LEMMA SendAll ==
  ASSUME NEW c \in Contexts, NEW g, NEW reqs, NEW ids, Posted(c, g, reqs, ids), Phased(g),
         NEW lists, NEW p, Cuts(g, lists, p), NEW sent, Sends(sent, c, g.n, lists, reqs, ids)
  PROVE  \E h : SentUpTo(c, g, h, p, Len(lists), sent[Len(lists)])
<1> DEFINE m == Len(lists)
           n == g.n
           S == {k \in 0..m : \E h : SentUpTo(c, g, h, p, k, sent[k])}
<1>1. m \in Nat /\ Numbered(c, g) /\ g \in Histories /\ n \in Nat
  BY HistoryTypes DEF Cuts, Posted, Numbered
<1>2. 0 \in S
  <2>1. sent[0].messages = reqs /\ sent[0].ids = ids
    BY DEF Sends
  <2>2. Extends(g, g)
    BY <1>1, ExtendsItself
  <2>3. n = n + 0 /\ \A i \in 0..0 : g.first[n + i] = p[i]
    BY <1>1 DEF Cuts
  <2>4. SentUpTo(c, g, g, p, 0, sent[0])
    BY <2>1, <2>2, <2>3 DEF SentUpTo
  <2> QED BY <1>1, <2>4
<1>3. ASSUME NEW k \in 1..m, k - 1 \in S PROVE k \in S
  <2>1. PICK h : SentUpTo(c, g, h, p, k - 1, sent[k - 1])
    BY <1>3
  <2> DEFINE s == sent[k - 1]
             to == p[k]
             i == Grown(c, h, to)
  <2>2. k - 1 \in 0..m /\ k \in 0..m /\ k - 1 \in 0..(k - 1) /\ n + (k - 1) + 1 = n + k
    BY <1>1
  <2>3. /\ Posted(c, h, s.messages, s.ids) /\ Phased(h) /\ Extends(g, h) /\ h.kind = g.kind
        /\ h.n = n + (k - 1) /\ \A j \in 0..(k - 1) : h.first[n + j] = p[j]
    BY <2>1 DEF SentUpTo
  <2>4. to \in Nat /\ h.first[h.n] = p[k - 1] /\ p[k - 1] <= to /\ lists[k] = Piece(g.kind, p[k - 1], to)
    BY <2>2, <2>3 DEF Cuts
  <2>5. NextBatch(h, to) = lists[k] /\ h.n + 1 = n + k
    BY <2>2, <2>3, <2>4 DEF NextBatch
  <2>6. sent[k] = SendStep(c, n + k, lists[k], s)
    BY DEF Sends
  <2> HIDE DEF to, s, i
  <2>7. /\ Posted(c, i, s.messages \o Messages(c, h.n + 1, NextBatch(h, to), Len(s.ids)),
                  s.ids \o CallbackIds(h.n + 1, Messages(c, h.n + 1, NextBatch(h, to), Len(s.ids))))
        /\ Phased(i)
    BY <2>3, <2>4, SendOne DEF i
  <2>8. Posted(c, i, sent[k].messages, sent[k].ids)
    BY <2>5, <2>6, <2>7 DEF SendStep
  <2>9. Numbered(c, h) /\ h \in Histories
    BY <2>3 DEF Posted, Numbered
  <2>10. Extends(h, i) /\ i.n = h.n + 1 /\ i.first[h.n + 1] = to /\ i.kind = h.kind
    BY <2>4, <2>9, GrownFacts DEF i
  <2>11. h.taken = g.taken /\ h.phase = g.phase /\ i.taken = h.taken /\ i.phase = h.phase
         /\ i \in Histories
    BY <2>3, <2>10 DEF Extends
  <2>12. \A b \in 0..(n + (k - 1)) : i.at[b] = h.at[b] /\ i.first[b] = h.first[b]
    BY <2>3, <2>10 DEF Extends
  <2>13. \A b \in 0..n : i.at[b] = g.at[b] /\ i.first[b] = g.first[b]
    <3>1. \A b \in 0..n : b \in 0..(n + (k - 1))
      BY <1>1
    <3>2. \A b \in 0..n : h.at[b] = g.at[b] /\ h.first[b] = g.first[b]
      BY <2>3 DEF Extends
    <3> HIDE DEF n
    <3> QED BY <2>12, <3>1, <3>2
  <2>14. Extends(g, i)
    <3>1. n <= i.n
      BY <1>1, <2>5, <2>10
    <3> QED BY <2>3, <2>10, <2>11, <2>13, <3>1 DEF Extends
  <2>15. ASSUME NEW j \in 0..k PROVE i.first[n + j] = p[j]
    <3>1. CASE j = k
      BY <2>5, <2>10, <3>1 DEF to
    <3>2. CASE j # k
      <4>1. j \in 0..(k - 1) /\ n + j \in 0..(n + (k - 1))
        BY <1>1, <3>2
      <4>2. i.first[n + j] = h.first[n + j]
        <5> DEFINE b == n + j
        <5> HIDE DEF b
        <5>1. b \in 0..(n + (k - 1))
          BY <4>1 DEF b
        <5>2. i.first[b] = h.first[b]
          BY <2>12, <5>1
        <5> QED BY <5>2 DEF b
      <4> QED BY <2>3, <4>1, <4>2
    <3> QED BY <3>1, <3>2
  <2>16. SentUpTo(c, g, i, p, k, sent[k])
    BY <2>3, <2>5, <2>7, <2>8, <2>10, <2>14, <2>15 DEF SentUpTo
  <2> QED BY <2>2, <2>16
<1>4. 0..m \subseteq S
  <2> HIDE DEF S, m
  <2> QED BY <1>1, <1>2, <1>3, UpTo
<1>5. m \in S
  <2> HIDE DEF S, m
  <2>1. m \in 0..m
    BY <1>1
  <2> QED BY <1>4, <2>1
<1> QED BY <1>5

\* Send makes what SendStep makes, list by list.
LEMMA SendIs ==
  ASSUME NEW c \in Contexts, NEW lists \in Seq(Seq(Sql)), NEW ids \in Seq(Nat),
         requests[c] \in Seq(AnyMessage(c)), Len(batches[c]) \in Nat, Send(c, lists, ids)
  PROVE  \E sent :
           /\ Sends(sent, c, Len(batches[c]), lists, requests[c], ids)
           /\ requests' = [requests EXCEPT ![c] = sent[Len(lists)].messages]
           /\ aqcbmap' = [aqcbmap EXCEPT ![c] = sent[Len(lists)].ids]
<1> DEFINE m == Len(lists)
           n == Len(batches[c])
           base == [messages |-> requests[c], ids |-> ids]
           V == [messages : Seq(AnyMessage(c)), ids : Seq(Nat)]
           next(k, s) == SendStep(c, n + k, lists[k], s)
           Makes(f) == f = [k \in 0..m |-> IF k = 0 THEN base ELSE next(k, f[k - 1])]
           F == CHOOSE f : Makes(f)
           Op == [k \in 1..m |-> [s \in V |-> next(k, s)]]
<1>1. m \in Nat /\ base \in V /\ n \in Nat
  OBVIOUS
<1>2. ASSUME NEW k \in 1..m, NEW s \in V PROVE next(k, s) \in V
  <2> DEFINE b == n + k
             list == lists[k]
             last == Len(s.ids)
             ms == Messages(c, b, list, last)
  <2>1. b \in Nat /\ list \in Seq(Sql) /\ last \in Nat /\ s.messages \in Seq(AnyMessage(c))
        /\ s.ids \in Seq(Nat)
    <3>1. list \in Seq(Sql)
      BY <1>1
    <3>2. s.messages \in Seq(AnyMessage(c)) /\ s.ids \in Seq(Nat)
      OBVIOUS
    <3>3. last \in Nat
      BY <3>2
    <3> HIDE DEF n, m
    <3> QED BY <1>1, <3>1, <3>2, <3>3
  <2> HIDE DEF b, list, last, ms
  <2>2. ms \in Seq(AnyMessage(c))
    BY <2>1, MessagesAre DEF ms
  <2>3. CallbackIds(b, ms) \in Seq(0..b)
    <3> DEFINE W == AnyMessage(c)
    <3> HIDE DEF W
    <3>1. ms \in Seq(W)
      BY <2>2 DEF W
    <3> QED BY <2>1, <3>1, CallbackIdsFacts
  <2>4. CallbackIds(b, ms) \in Seq(Nat)
    <3>1. 0..b \subseteq Nat
      BY <2>1
    <3> QED BY <2>3, <3>1, SeqMonotonic
  <2>5. s.messages \o ms \in Seq(AnyMessage(c)) /\ s.ids \o CallbackIds(b, ms) \in Seq(Nat)
    BY <2>1, <2>2, <2>4, ConcatProperties
  <2>6. next(k, s) = [messages |-> s.messages \o ms, ids |-> s.ids \o CallbackIds(b, ms)]
    BY DEF SendStep, b, list, last, ms
  <2> HIDE DEF next
  <2> QED BY <2>5, <2>6
<1> HIDE DEF next, base, V
<1>3. \E f : Makes(f)
  <2>1. Recursive(m, V, base, Op)
    BY <1>1, <1>2 DEF Recursive
  <2>2. PICK f : Recurs(f, m, V, base, Op)
    <3> HIDE DEF m, Op
    <3> QED BY <2>1, Recursion
  <2> DEFINE e == [k \in 0..m |-> f[k]]
  <2>3. ASSUME NEW k \in 1..m PROVE f[k] = next(k, f[k - 1])
    <3> HIDE DEF m
    <3>1. f[k] = Op[k][f[k - 1]] /\ f[k - 1] \in V
      <4> HIDE DEF Op
      <4>1. k - 1 \in 0..m
        BY <1>1
      <4> QED BY <2>2, <4>1 DEF Recurs
    <3> QED BY <3>1
  <2>4. f[0] = base
    BY <2>2 DEF Recurs
  <2>5. ASSUME NEW k \in 0..m PROVE e[k] = IF k = 0 THEN base ELSE next(k, e[k - 1])
    <3> HIDE DEF m
    <3>1. k = 0 \/ (k \in 1..m /\ k - 1 \in 0..m)
      BY <1>1
    <3> QED BY <2>3, <2>4, <3>1
  <2>6. Makes(e)
    <3> HIDE DEF m
    <3> QED BY <2>5
  <2> HIDE DEF Makes, e
  <2> QED BY <2>6
<1>4. Makes(F)
  <2> HIDE DEF Makes
  <2> QED BY <1>3
<1>5. /\ requests' = [requests EXCEPT ![c] = F[m].messages]
      /\ aqcbmap' = [aqcbmap EXCEPT ![c] = F[m].ids]
  BY DEF Send, SendStep, next, base
<1> HIDE DEF F
<1>6. F[0] = base /\ \A k \in 1..m : F[k] = next(k, F[k - 1])
  <2>1. 0 \in 0..m /\ \A k \in 1..m : k \in 0..m /\ k # 0
    BY <1>1
  <2> HIDE DEF m
  <2> QED BY <1>4, <2>1
<1>7. Sends(F, c, n, lists, requests[c], ids)
  BY <1>6 DEF Sends, next, base
<1> QED BY <1>5, <1>7

\* What Submit hands to Send, and the numbers of statements at which it cuts.
Lists(c, stmts, runs) == Chunks(c, stmts) \o IF runs THEN <<Rest(c, stmts)>> ELSE << >>
Size == MaxSqlChunk + 1

\* The statements of g that follow its batches, up to a.
Waits(g, a, stmts) ==
  a \in Nat /\ g.first[g.n] <= a /\ stmts = Piece(g.kind, g.first[g.n], a)

\* Of them count chunks and perhaps the rest are sent.
CutUp(c, g, a, stmts, runs, p, count) ==
  /\ count \in Nat
  /\ Lists(c, stmts, runs) \in Seq(Seq(Sql)) /\ Cuts(g, Lists(c, stmts, runs), p)
  /\ Len(Lists(c, stmts, runs)) = IF runs THEN count + 1 ELSE count
  /\ p[Len(Lists(c, stmts, runs))] = IF runs THEN a ELSE p[count]
  /\ \A k \in 1..count : p[k - 1] < p[k]
  /\ p[count] \in Nat /\ p[count] <= a /\ Rest(c, stmts) = Piece(g.kind, p[count], a)
  /\ c \notin Chunking => count = 0

LEMMA ListsAreCut ==
  ASSUME NEW c \in Contexts, NEW g \in Histories, NEW a, NEW stmts, Waits(g, a, stmts),
         NEW runs \in BOOLEAN
  PROVE  \E p, count : CutUp(c, g, a, stmts, runs, p, count)
<1> DEFINE m == g.first[g.n]
           kind == g.kind
           r == Len(stmts)
           size == MaxSqlChunk + 1
           count == ChunkCount(c, stmts)
           all == Piece(kind, m, a)
<1>1. m \in Nat /\ kind \in [Nat -> Kinds] /\ m <= a /\ size \in Nat \ {0} /\ g.n \in Nat
      /\ a \in Nat
  <2>1. g.n \in Nat /\ g.first \in [Nat -> Nat] /\ kind \in [Nat -> Kinds]
    BY HistoryTypes
  <2>2. m <= a /\ a \in Nat
    BY DEF Waits
  <2>3. size \in Nat \ {0}
    BY StatementBatchAssumption
  <2> QED BY <2>1, <2>2, <2>3
<1> HIDE DEF m, kind, size
<1>2. stmts \in Seq(Sql) /\ r = a - m /\ r \in Nat
  <2>1. stmts = Piece(kind, m, a)
    BY DEF Waits, m, kind
  <2> HIDE DEF r
  <2>2. stmts \in Seq(Sql) /\ Len(stmts) = a - m
    BY <1>1, <2>1, PieceFacts
  <2> QED BY <1>1, <2>2 DEF r
<1>3. stmts = all
  BY DEF Waits, m, kind
<1> HIDE DEF r, all
<1>4. count \in Nat /\ count * size <= r /\ count * size \in Nat /\ (c \notin Chunking => count = 0)
  <2>1. CASE c \in Chunking
    <3>1. count = r \div size
      BY <2>1 DEF ChunkCount, r, size
    <3>2. count \in Nat /\ count * size <= r
      BY <1>1, <1>2, <3>1, Division
    <3> HIDE DEF count
    <3>3. count * size \in Nat
      BY <1>1, <3>2
    <3> QED BY <2>1, <3>2, <3>3
  <2>2. CASE c \notin Chunking
    <3>1. count = 0
      BY <2>2 DEF ChunkCount
    <3>2. 0 * size = 0
      BY <1>1
    <3> QED BY <1>2, <3>1, <3>2
  <2> QED BY <2>1, <2>2
<1> DEFINE at(k) == m + k * size
           p == [k \in Nat |-> IF k <= count THEN at(k) ELSE a]
           chunk(k) == SubSeq(stmts, (k - 1) * size + 1, k * size)
           chunks == Chunks(c, stmts)
           rest == Rest(c, stmts)
<1>5. chunks = [k \in 1..count |-> chunk(k)]
  BY DEF Chunks, size
<1>6. rest = SubSeq(stmts, count * size + 1, r)
  BY DEF Rest, size, r
<1> HIDE DEF count, chunks, rest
<1>7. ASSUME NEW k \in 0..count
      PROVE  p[k] = at(k) /\ at(k) \in Nat /\ at(k) <= a /\ k * size \in Nat /\ k * size <= count * size
  <2>1. k \in Nat /\ k <= count
    BY <1>4
  <2>2. k * size \in Nat /\ k * size <= count * size
    <3>1. k * size \in Nat /\ k * size <= count * size
      BY <1>1, <1>4, <2>1, ProductOrder
    <3> QED BY <3>1
  <2> DEFINE x == k * size
             y == count * size
  <2> HIDE DEF x, y
  <2>3. m + x \in Nat /\ m + x <= a
    <3>1. x \in Nat /\ y \in Nat /\ x <= y /\ y <= r
      BY <1>4, <2>2 DEF x, y
    <3> QED BY <1>1, <1>2, <3>1
  <2> QED BY <2>1, <2>2, <2>3 DEF x
<1>8. ASSUME NEW k \in 1..count
      PROVE  p[k - 1] < p[k] /\ chunk(k) = Piece(kind, p[k - 1], p[k])
  <2>1. k - 1 \in 0..count /\ k \in 0..count /\ k - 1 \in Nat /\ k - 1 + 1 = k
    BY <1>4
  <2> DEFINE x == (k - 1) * size
             y == k * size
  <2>2. y = x + size
    <3>1. ((k - 1) + 1) * size = (k - 1) * size + size
      BY <1>1, <2>1, ProductOrder
    <3> QED BY <2>1, <3>1
  <2>3. x \in Nat /\ y \in Nat /\ y <= count * size /\ p[k - 1] = m + x /\ p[k] = m + y
    BY <1>7, <2>1
  <2> HIDE DEF x, y, p
  <2>4. x < y /\ x <= y /\ y <= a - m
    <3> DEFINE z == count * size
    <3>1. z \in Nat /\ z <= a - m /\ y <= z
      BY <1>2, <1>4, <2>3
    <3> HIDE DEF z
    <3> QED BY <1>1, <2>2, <2>3, <3>1
  <2>5. SubSeq(Piece(kind, m, a), x + 1, y) = Piece(kind, m + x, m + y)
    <3>1. Behind(Piece(kind, m, a), x, y) = Piece(kind, m + x, m + y)
      BY <1>1, <2>3, <2>4, PieceBehind
    <3> QED BY <3>1 DEF Behind
  <2>6. m + x < m + y
    BY <1>1, <2>3, <2>4
  <2> QED BY <1>3, <2>3, <2>5, <2>6 DEF x, y, all
<1>9. rest = Piece(kind, p[count], a)
  <2> DEFINE x == count * size
  <2>1. count \in 0..count /\ x \in Nat /\ x <= a - m /\ r <= a - m /\ r \in Nat /\ x <= r /\ m + r = a
    BY <1>1, <1>2, <1>4
  <2>2. p[count] = m + x
    BY <1>7, <2>1
  <2> HIDE DEF x, p
  <2>3. SubSeq(Piece(kind, m, a), x + 1, r) = Piece(kind, m + x, m + r)
    <3>1. Behind(Piece(kind, m, a), x, r) = Piece(kind, m + x, m + r)
      BY <1>1, <2>1, PieceBehind
    <3> QED BY <3>1 DEF Behind
  <2> QED BY <1>3, <1>6, <2>1, <2>2, <2>3 DEF x, all
<1>10. p[count] \in Nat /\ p[count] <= a /\ count \in 0..count
  <2>1. count \in 0..count
    BY <1>4
  <2> HIDE DEF p, at
  <2> QED BY <1>7, <2>1
<1>11. rest \in Seq(Sql)
  <2> HIDE DEF p
  <2> QED BY <1>1, <1>9, <1>10, PieceFacts
<1>12. \A k \in 1..count : chunk(k) \in Seq(Sql)
  <2> TAKE k \in 1..count
  <2>1. k - 1 \in 0..count /\ k \in 0..count
    BY <1>4
  <2>2. p[k - 1] \in Nat /\ p[k] \in Nat
    BY <1>7, <2>1
  <2> HIDE DEF p, chunk
  <2>3. p[k - 1] <= p[k]
    BY <1>8, <2>2
  <2> DEFINE x == p[k - 1]
             y == p[k]
  <2> HIDE DEF x, y
  <2>4. Piece(kind, x, y) \in Seq(Sql)
    BY <1>1, <2>2, <2>3, PieceFacts DEF x, y
  <2> QED BY <1>8, <2>4 DEF x, y
<1> DEFINE V == Seq(Sql)
           tail == IF runs THEN <<rest>> ELSE << >>
           lists == chunks \o tail
<1>13. /\ chunks \in Seq(V) /\ Len(chunks) = count /\ \A k \in 1..count : chunks[k] = chunk(k)
  <2> HIDE DEF chunk, V
  <2>1. \A k \in 1..count : chunk(k) \in V
    BY <1>12 DEF V
  <2> QED BY <1>4, <1>5, <2>1
<1>14. tail \in Seq(V) /\ Len(tail) = (IF runs THEN 1 ELSE 0) /\ (runs => tail[1] = rest)
  <2>1. rest \in V
    BY <1>11
  <2> HIDE DEF V
  <2>2. CASE runs
    BY <2>1, <2>2
  <2>3. CASE ~runs
    BY <2>3
  <2> QED BY <2>2, <2>3
<1> HIDE DEF chunk, V, tail
<1>15. /\ lists \in Seq(V) /\ Len(lists) = Len(chunks) + Len(tail)
       /\ \A k \in 1..(Len(chunks) + Len(tail)) :
            lists[k] = IF k <= Len(chunks) THEN chunks[k] ELSE tail[k - Len(chunks)]
  BY <1>13, <1>14, ConcatProperties
<1> HIDE DEF lists
<1>16. Len(lists) = (IF runs THEN count + 1 ELSE count) /\ Len(lists) \in Nat
  BY <1>4, <1>13, <1>14, <1>15
<1>17. runs => p[count + 1] = a
  <2>1. count + 1 \in Nat /\ ~(count + 1 <= count)
    BY <1>4
  <2> QED BY <2>1
<1>18. ASSUME NEW k \in 1..Len(lists)
       PROVE  p[k - 1] <= p[k] /\ lists[k] = Piece(kind, p[k - 1], p[k])
  <2>1. CASE k \in 1..count
    <3>1. lists[k] = chunks[k]
      BY <1>4, <1>13, <1>14, <1>15, <1>16, <2>1
    <3>2. k - 1 \in 0..count /\ k \in 0..count
      BY <1>4, <2>1
    <3>3. p[k - 1] \in Nat /\ p[k] \in Nat
      BY <1>7, <3>2
    <3> HIDE DEF p
    <3>4. p[k - 1] < p[k] /\ chunks[k] = Piece(kind, p[k - 1], p[k])
      BY <1>8, <1>13, <2>1
    <3> QED BY <3>1, <3>3, <3>4
  <2>2. CASE k \notin 1..count
    <3>1. k = count + 1 /\ runs /\ k - 1 = count
      BY <1>4, <1>16, <2>2
    <3>2. lists[k] = rest
      <4>1. k \in 1..(Len(chunks) + Len(tail)) /\ ~(k <= Len(chunks)) /\ k - Len(chunks) = 1
        BY <1>4, <1>13, <1>15, <3>1
      <4>2. lists[k] = tail[1]
        BY <1>15, <4>1
      <4> QED BY <1>14, <3>1, <4>2
    <3> HIDE DEF p
    <3> QED BY <1>9, <1>10, <1>17, <3>1, <3>2
  <2> QED BY <2>1, <2>2
<1>19. \A k \in 0..Len(lists) : p[k] \in Nat
  <2> TAKE k \in 0..Len(lists)
  <2>1. CASE k \in 0..count
    BY <1>7, <2>1
  <2>2. CASE k \notin 0..count
    <3>1. k = count + 1 /\ runs
      BY <1>4, <1>16, <2>2
    <3> HIDE DEF p
    <3> QED BY <1>1, <1>17, <3>1
  <2> QED BY <2>1, <2>2
<1>20. p[0] = m
  <2>1. 0 \in 0..count /\ 0 * size = 0 /\ m + 0 = m
    BY <1>1, <1>4
  <2>2. p[0] = m + 0 * size
    BY <1>7, <2>1
  <2> QED BY <2>1, <2>2
<1>21. Cuts(g, lists, p)
  <2> HIDE DEF p
  <2> QED BY <1>16, <1>18, <1>19, <1>20 DEF Cuts, m, kind
<1>22. p[Len(lists)] = IF runs THEN a ELSE p[count]
  <2> HIDE DEF p
  <2> QED BY <1>16, <1>17
<1>23. Lists(c, stmts, runs) = lists
  BY DEF Lists, lists, tail, chunks, rest
<1>24. \A k \in 1..count : p[k - 1] < p[k]
  <2> HIDE DEF p
  <2> QED BY <1>8
<1> HIDE DEF p
<1>25. /\ lists \in Seq(Seq(Sql)) /\ Cuts(g, lists, p)
       /\ Len(lists) = (IF runs THEN count + 1 ELSE count)
       /\ p[Len(lists)] = (IF runs THEN a ELSE p[count])
       /\ \A k \in 1..count : p[k - 1] < p[k]
       /\ p[count] \in Nat /\ p[count] <= a /\ rest = Piece(g.kind, p[count], a)
       /\ c \notin Chunking => count = 0
  BY <1>4, <1>9, <1>10, <1>15, <1>16, <1>21, <1>22, <1>24 DEF V, kind
<1>26. CutUp(c, g, a, stmts, runs, p, count)
  BY <1>4, <1>23, <1>25 DEF CutUp, rest
<1> QED BY <1>26

-----------------------------------------------------------------------------
(* Submit. *)

OnContexts(f) == f = [d \in Contexts |-> f[d]]

Changed(r, f, c, v) == r = [f EXCEPT ![c] = v]

LEMMA Excepted ==
  ASSUME NEW f, OnContexts(f), NEW c \in Contexts, NEW v, NEW r, Changed(r, f, c, v)
  PROVE  /\ OnContexts(r) /\ r[c] = v /\ \A d \in Contexts : d # c => r[d] = f[d]
<1> DEFINE e == [d \in Contexts |-> f[d]]
<1>1. f = e
  BY DEF OnContexts
<1>2. /\ [e EXCEPT ![c] = v] = [d \in Contexts |-> IF d = c THEN v ELSE e[d]]
  OBVIOUS
<1> HIDE DEF e
<1>3. r = [d \in Contexts |-> IF d = c THEN v ELSE e[d]]
  BY <1>1, <1>2 DEF Changed
<1>4. \A d \in Contexts : r[d] = IF d = c THEN v ELSE e[d]
  BY <1>3
<1>5. r = [d \in Contexts |-> r[d]]
  BY <1>3, <1>4
<1> QED BY <1>1, <1>4, <1>5 DEF OnContexts

\* What a context that is there has in its variables.
Holds(c, g, reqs, ids, bats, add, waits) ==
  /\ Posted(c, g, reqs, ids)
  /\ bats \in Seq(Seq(Sql)) /\ Len(bats) = g.n
  /\ \A b \in 1..g.n : bats[b] = IF g.phase[b] = "delivered" THEN << >> ELSE Batch(g, b)
  /\ add \in Nat /\ g.first[g.n] <= add /\ waits = Piece(g.kind, g.first[g.n], add)

\* f and g differ in how far the batches have come.
SameBatches(f, g) ==
  g \in Histories /\ g.n = f.n /\ g.kind = f.kind /\ g.first = f.first /\ g.at = f.at

LEMMA SameBatchesFacts ==
  ASSUME NEW c, NEW f, NEW g, Numbered(c, f), SameBatches(f, g)
  PROVE  /\ Numbered(c, g) /\ \A b : Batch(g, b) = Batch(f, b)
         /\ \A msg, k : IsMessage(c, f, msg, k) => IsMessage(c, g, msg, k)
<1>1. \A b : Batch(g, b) = Batch(f, b)
  BY DEF Batch, SameBatches
<1>2. Numbered(c, g)
  BY <1>1 DEF Numbered, SameBatches
<1>3. \A msg, k : IsMessage(c, f, msg, k) => IsMessage(c, g, msg, k)
  BY <1>1 DEF IsMessage, SameBatches
<1> QED BY <1>1, <1>2, <1>3

\* The handlers of batch b have been called.
Zeroed(ids, b) == [i \in DOMAIN ids |-> IF ids[i] = b THEN 0 ELSE ids[i]]
Emptied(bats, b) == [i \in DOMAIN bats |-> IF i = b THEN << >> ELSE bats[i]]
InPhase(g, b, phase) ==
  [n |-> g.n, kind |-> g.kind, first |-> g.first, at |-> g.at, taken |-> g.taken,
   phase |-> Set(g.phase, b, phase)]

LEMMA InPhaseFacts ==
  ASSUME NEW c, NEW g, Numbered(c, g), NEW b \in Nat, NEW phase \in Phases
  PROVE  /\ SameBatches(g, InPhase(g, b, phase)) /\ InPhase(g, b, phase).taken = g.taken
         /\ InPhase(g, b, phase).phase[b] = phase
         /\ \A a \in Nat : a # b => InPhase(g, b, phase).phase[a] = g.phase[a]
<1> DEFINE h == InPhase(g, b, phase)
           f == g.phase
           D == Nat
           i == b
<1>1. g \in Histories /\ f \in [D -> Phases] /\ i \in D
  BY HistoryTypes DEF Numbered
<1> HIDE DEF f, D, i
<1>2. Set(f, i, phase) \in [D -> Phases] /\ Set(f, i, phase)[i] = phase
      /\ \A j \in D : j # i => Set(f, i, phase)[j] = f[j]
  <2> DEFINE V == Phases
  <2>1. f \in [D -> V] /\ i \in D /\ phase \in V
    BY <1>1
  <2> HIDE DEF V
  <2> QED BY <2>1, SetFacts DEF V
<1>3. h = [n |-> g.n, kind |-> g.kind, first |-> g.first, at |-> g.at, taken |-> g.taken,
           phase |-> Set(f, i, phase)]
  BY DEF InPhase, f, i
<1> HIDE DEF h
<1>4. /\ h.n = g.n /\ h.kind = g.kind /\ h.first = g.first /\ h.at = g.at /\ h.taken = g.taken
      /\ h.phase = Set(f, i, phase)
  BY <1>3
<1>5. h \in Histories
  BY <1>1, <1>2, <1>3, HistoryTypes DEF Histories, D
<1>6. /\ h.phase[b] = phase /\ \A a \in Nat : a # b => h.phase[a] = g.phase[a]
  BY <1>2, <1>4 DEF f, D, i
<1> QED BY <1>4, <1>5, <1>6 DEF h, SameBatches

LEMMA Forgets ==
  ASSUME NEW c \in Contexts, NEW g, NEW reqs, NEW ids, NEW bats, NEW add, NEW waits,
         Holds(c, g, reqs, ids, bats, add, waits), Phased(g),
         NEW b \in 0..g.n, b # 0 => g.phase[b] # "sent"
  PROVE  /\ Holds(c, InPhase(g, b, "delivered"), reqs, Zeroed(ids, b), Emptied(bats, b), add, waits)
         /\ Phased(InPhase(g, b, "delivered"))
<1> DEFINE h == InPhase(g, b, "delivered")
           n == g.n
<1>1. /\ Numbered(c, g) /\ n \in Nat /\ b \in Nat /\ Sent(c, g, reqs)
      /\ g.taken + Len(reqs) = g.at[n] /\ ids \in Seq(0..n) /\ Len(ids) = g.at[n]
      /\ \A a \in 1..n : g.phase[a] # "delivered" => ids[g.at[a]] = a
  <2>1. /\ Numbered(c, g) /\ Sent(c, g, reqs)
        /\ g.taken + Len(reqs) = g.at[n] /\ ids \in Seq(0..n) /\ Len(ids) = g.at[n]
        /\ \A a \in 1..n : g.phase[a] # "delivered" => ids[g.at[a]] = a
    BY DEF Holds, Posted
  <2>2. n \in Nat
    BY <2>1, HistoryTypes DEF Numbered
  <2> HIDE DEF n
  <2>3. b \in Nat
    BY <2>2 DEF n
  <2> QED BY <2>1, <2>2, <2>3
<1>2. /\ SameBatches(g, h) /\ h.taken = g.taken /\ h.phase[b] = "delivered"
      /\ \A a \in Nat : a # b => h.phase[a] = g.phase[a]
  BY <1>1, InPhaseFacts DEF Phases
<1> HIDE DEF h
<1>3. /\ h.n = n /\ h.kind = g.kind /\ h.first = g.first /\ h.at = g.at /\ h \in Histories
  BY <1>2 DEF SameBatches
<1>4. /\ Numbered(c, h) /\ \A a : Batch(h, a) = Batch(g, a)
      /\ \A msg, k : IsMessage(c, g, msg, k) => IsMessage(c, h, msg, k)
  BY <1>1, <1>2, SameBatchesFacts
<1>5. Sent(c, h, reqs)
  BY <1>1, <1>2, <1>4 DEF Sent
<1> DEFINE m == Len(ids)
           zero(i) == IF ids[i] = b THEN 0 ELSE ids[i]
<1>6. m \in Nat /\ DOMAIN ids = 1..m /\ \A i \in 1..m : zero(i) \in 0..n
  <2>1. \A i \in 1..m : ids[i] \in 0..n
    BY <1>1
  <2>2. m \in Nat /\ DOMAIN ids = 1..m
    BY <1>1
  <2> HIDE DEF n
  <2> QED BY <1>1, <2>1, <2>2
<1>7. Zeroed(ids, b) = [i \in 1..m |-> zero(i)]
  BY <1>6 DEF Zeroed
<1> DEFINE z == [i \in 1..m |-> zero(i)]
<1>8. z \in Seq(0..n) /\ Len(z) = m /\ \A i \in 1..m : z[i] = zero(i)
  <2> HIDE DEF zero, n, m
  <2> QED BY <1>6
<1> HIDE DEF z
<1>9. ASSUME NEW a \in 1..n, h.phase[a] # "delivered" PROVE z[h.at[a]] = a
  <2>1. a # b /\ a \in Nat
    BY <1>1, <1>2, <1>9
  <2>2. ids[g.at[a]] = a
    BY <1>1, <1>2, <1>9, <2>1
  <2>3. g.at[a] \in 1..m
    <3>1. g.at[a - 1] \in Nat /\ g.at[a] \in Nat /\ g.at[a - 1] < g.at[a] /\ g.at[a] <= g.at[n]
      BY <1>1, BatchFacts
    <3> QED BY <1>1, <3>1
  <2> QED BY <1>3, <1>8, <2>1, <2>2, <2>3
<1>10. Posted(c, h, reqs, z)
  BY <1>1, <1>2, <1>3, <1>4, <1>5, <1>8, <1>9 DEF Posted
<1> DEFINE e == Emptied(bats, b)
           V == Seq(Sql)
           empty(i) == IF i = b THEN << >> ELSE bats[i]
<1>11. bats \in Seq(V) /\ Len(bats) = n /\ \A a \in 1..n : bats[a] = IF g.phase[a] = "delivered" THEN << >> ELSE Batch(g, a)
  BY DEF Holds
<1>12. << >> \in V
  OBVIOUS
<1> HIDE DEF V
<1>13. DOMAIN bats = 1..n /\ \A i \in 1..n : empty(i) \in V
  BY <1>11, <1>12
<1>14. e = [i \in 1..n |-> empty(i)]
  BY <1>13 DEF Emptied
<1>15. e \in Seq(V) /\ Len(e) = n /\ \A i \in 1..n : e[i] = empty(i)
  <2> HIDE DEF empty, e, n
  <2> QED BY <1>1, <1>13, <1>14
<1>16. ASSUME NEW a \in 1..n PROVE e[a] = IF h.phase[a] = "delivered" THEN << >> ELSE Batch(h, a)
  <2>1. a = b \/ (a # b /\ h.phase[a] = g.phase[a])
    BY <1>1, <1>2
  <2> QED BY <1>2, <1>4, <1>11, <1>15, <2>1
<1>17. Holds(c, h, reqs, z, e, add, waits)
  <2>1. add \in Nat /\ g.first[n] <= add /\ waits = Piece(g.kind, g.first[n], add)
    BY DEF Holds
  <2> HIDE DEF e
  <2> QED BY <1>3, <1>10, <1>15, <1>16, <2>1 DEF Holds, V
<1>18. Phased(h)
  <2>1. \A a \in 1..n : h.phase[a] = "sent" <=> h.taken < h.at[a]
    <3> TAKE a \in 1..n
    <3>1. g.phase[a] = "sent" <=> g.taken < g.at[a]
      BY DEF Phased
    <3>2. a = b => g.phase[a] # "sent" /\ h.phase[a] = "delivered"
      BY <1>2
    <3>3. a # b => h.phase[a] = g.phase[a]
      BY <1>1, <1>2
    <3> QED BY <1>2, <1>3, <3>1, <3>2, <3>3
  <2>2. \A a \in Nat : a > n => h.phase[a] = "sent"
    <3>1. \A a \in Nat : a > n => a # b
      BY <1>1
    <3> QED BY <1>2, <3>1 DEF Phased
  <2> QED BY <1>2, <1>3, <2>1, <2>2 DEF Phased
<1> QED BY <1>7, <1>17, <1>18 DEF h, e, z

\* g, when kinds are added behind the first a statements.
Continued(g, a, kinds) ==
  [n |-> g.n, kind |-> Longer(g.kind, a, kinds), first |-> g.first, at |-> g.at,
   taken |-> g.taken, phase |-> g.phase]

LEMMA Relabels ==
  ASSUME NEW c \in Contexts, NEW g, NEW reqs, NEW ids, Posted(c, g, reqs, ids), Phased(g),
         NEW a \in Nat, g.first[g.n] <= a, NEW kinds \in Seq(Kinds)
  PROVE  /\ Posted(c, Continued(g, a, kinds), reqs, ids) /\ Phased(Continued(g, a, kinds))
         /\ Extends(g, Continued(g, a, kinds)) /\ Continued(g, a, kinds) \in Histories
         /\ \A b \in 1..g.n : Batch(Continued(g, a, kinds), b) = Batch(g, b)
<1> DEFINE h == Continued(g, a, kinds)
           kind == Longer(g.kind, a, kinds)
<1>1. Numbered(c, g) /\ Sent(c, g, reqs) /\ g \in Histories
  BY DEF Posted, Numbered
<1>2. /\ g.n \in Nat /\ g.kind \in [Nat -> Kinds] /\ g.first \in [Nat -> Nat]
      /\ g.at \in [Nat -> Nat] /\ g.taken \in Nat /\ g.phase \in [Nat -> Phases]
  BY <1>1, HistoryTypes
<1>3. kind \in [Nat -> Kinds] /\ \A i \in 0..a : kind[i] = g.kind[i]
  <2> DEFINE k == g.kind
  <2>1. k \in [Nat -> Kinds]
    BY <1>2
  <2> HIDE DEF k
  <2>2. Longer(k, a, kinds) \in [Nat -> Kinds] /\ \A i \in 0..a : Longer(k, a, kinds)[i] = k[i]
    BY <2>1, LongerFacts
  <2> QED BY <2>2 DEF k
<1>4. h = [n |-> g.n, kind |-> kind, first |-> g.first, at |-> g.at, taken |-> g.taken,
           phase |-> g.phase]
  BY DEF Continued
<1> HIDE DEF kind, h
<1>5. /\ h \in Histories /\ h.n = g.n /\ h.kind = kind /\ h.first = g.first /\ h.at = g.at
      /\ h.taken = g.taken /\ h.phase = g.phase
  BY <1>2, <1>3, <1>4 DEF Histories
<1>6. Extends(g, h)
  <2>1. \A i \in 1..g.first[g.n] : i \in 0..a
    <3> DEFINE x == g.first[g.n]
    <3>1. x \in Nat /\ x <= a
      BY <1>2
    <3> HIDE DEF x
    <3>2. \A i \in 1..x : i \in 0..a
      BY <3>1
    <3> QED BY <3>2 DEF x
  <2>2. g.n <= h.n
    <3> DEFINE x == g.n
    <3>1. x \in Nat
      BY <1>2
    <3>2. h.n = x
      BY <1>5
    <3> HIDE DEF x
    <3>3. x <= h.n
      BY <3>1, <3>2
    <3> QED BY <3>3 DEF x
  <2> QED BY <1>3, <1>5, <2>1, <2>2 DEF Extends
<1>7. \A b \in 1..g.n : Batch(h, b) = Batch(g, b)
  BY <1>1, <1>6, ExtendsFacts
<1>8. Numbered(c, h)
  BY <1>1, <1>5, <1>7 DEF Numbered
<1>9. Sent(c, h, reqs)
  BY <1>1, <1>5, <1>6, ExtendsMessage DEF Sent
<1>10. Posted(c, h, reqs, ids)
  BY <1>5, <1>8, <1>9 DEF Posted
<1>11. Phased(h)
  BY <1>5 DEF Phased
<1> QED BY <1>5, <1>6, <1>7, <1>10, <1>11 DEF h

LEMMA PieceEmpty ==
  ASSUME NEW kind, NEW a \in Nat, NEW b, b = a
  PROVE  Piece(kind, b, a) = << >>
<1>1. Piece(kind, a, a) = [j \in 1..(a - a) |-> <<a + j, kind[a + j]>>] /\ 1..(a - a) = {}
  BY DEF Piece
<1> QED BY <1>1

\* What Submit makes of g.
Submitted(c, g, h, kinds, runs, rest) ==
  /\ Phased(h) /\ Extends(g, h) /\ h.kind = Longer(g.kind, added[c], kinds)
  /\ Holds(c, h, requests'[c], aqcbmap'[c], batches'[c], added'[c], executes'[c])
  /\ added'[c] = added[c] + Len(kinds)
  /\ runs => h.first[h.n] = added'[c] /\ g.n < h.n
  /\ ~runs => executes'[c] = rest
  /\ \A b \in (g.n + 1)..h.n : h.first[b - 1] < h.first[b] \/ (runs /\ b = h.n)
  /\ runs /\ rest # << >> => h.first[h.n - 1] < h.first[h.n]
  /\ c \notin Chunking => h.n = IF runs THEN g.n + 1 ELSE g.n

JsFunctions ==
  OnContexts(added) /\ OnContexts(executes) /\ OnContexts(batches) /\ OnContexts(requests)
  /\ OnContexts(aqcbmap)

LEMMA Submits ==
  ASSUME NEW c \in Contexts, NEW g, NEW b \in Nat,
         Holds(c, g, requests[c], Zeroed(aqcbmap[c], b), Emptied(batches[c], b), added[c], executes[c]),
         Phased(g), Len(batches[c]) = g.n, JsFunctions,
         NEW kinds \in Seq(Kinds), NEW runs \in BOOLEAN, Submit(c, kinds, runs, b)
  PROVE  \E h : Submitted(c, g, h, kinds, runs, Rest(c, Waiting(c, kinds)))
<1> DEFINE n == g.n
           add == added[c]
           reqs == requests[c]
           ids == Zeroed(aqcbmap[c], b)
           bats == Emptied(batches[c], b)
           e == Continued(g, add, kinds)
           a == add + Len(kinds)
           stmts == Waiting(c, kinds)
           lists == Lists(c, stmts, runs)
           rest == Rest(c, stmts)
<1>1. /\ Posted(c, g, reqs, ids) /\ bats \in Seq(Seq(Sql)) /\ Len(bats) = n
      /\ \A k \in 1..n : bats[k] = IF g.phase[k] = "delivered" THEN << >> ELSE Batch(g, k)
      /\ add \in Nat /\ g.first[n] <= add /\ executes[c] = Piece(g.kind, g.first[n], add)
  BY DEF Holds
<1>2. Numbered(c, g) /\ g \in Histories /\ n \in Nat /\ g.first[n] \in Nat /\ g.kind \in [Nat -> Kinds]
      /\ Len(kinds) \in Nat
  <2>1. Numbered(c, g) /\ g \in Histories
    BY <1>1 DEF Posted, Numbered
  <2>2. n \in Nat /\ g.kind \in [Nat -> Kinds] /\ g.first \in [Nat -> Nat]
    BY <2>1, HistoryTypes
  <2>3. g.first[n] \in Nat
    BY <2>2
  <2>4. Len(kinds) \in Nat
    OBVIOUS
  <2> QED BY <2>1, <2>2, <2>3, <2>4
<1>3. /\ added' = [added EXCEPT ![c] = a]
      /\ executes' = [executes EXCEPT ![c] = IF runs THEN << >> ELSE rest]
      /\ batches' = [batches EXCEPT ![c] = bats \o lists]
      /\ Send(c, lists, ids)
  BY DEF Submit, Lists, Zeroed, Emptied
<1> HIDE DEF ids, bats, e, stmts, lists, rest
<1>4. /\ Posted(c, e, reqs, ids) /\ Phased(e) /\ Extends(g, e) /\ e \in Histories
      /\ \A k \in 1..n : Batch(e, k) = Batch(g, k)
  <2> HIDE DEF add, reqs
  <2> QED BY <1>1, Relabels DEF e
<1>5. /\ e.n = n /\ e.kind = Longer(g.kind, add, kinds) /\ e.first = g.first /\ e.phase = g.phase
      /\ e.taken = g.taken /\ e.at = g.at
  BY DEF e, Continued
<1>6. a \in Nat /\ e.first[e.n] <= a
  <2> HIDE DEF add, n
  <2> QED BY <1>1, <1>2, <1>5
<1>7. stmts = Piece(e.kind, e.first[e.n], a)
  <2> DEFINE kind == g.kind
             m == g.first[n]
  <2>1. kind \in [Nat -> Kinds] /\ m \in Nat /\ m <= add /\ add \in Nat
    BY <1>1, <1>2
  <2>2. stmts = Piece(kind, m, add) \o [i \in DOMAIN kinds |-> <<add + i, kinds[i]>>]
    BY <1>1 DEF stmts, Waiting
  <2>3. e.kind = Longer(kind, add, kinds) /\ e.first[e.n] = m
    BY <1>5
  <2> HIDE DEF kind, m, add
  <2>4. stmts = Piece(Longer(kind, add, kinds), m, add + Len(kinds))
    BY <2>1, <2>2, PieceLonger
  <2> QED BY <2>3, <2>4 DEF a
<1> HIDE DEF a
<1>8. PICK p, count : CutUp(c, e, a, stmts, runs, p, count)
  <2>1. Waits(e, a, stmts)
    BY <1>6, <1>7 DEF Waits
  <2> QED BY <1>4, <2>1, ListsAreCut
<1>9. /\ count \in Nat /\ lists \in Seq(Seq(Sql)) /\ Cuts(e, lists, p)
      /\ Len(lists) = (IF runs THEN count + 1 ELSE count)
      /\ p[Len(lists)] = (IF runs THEN a ELSE p[count])
      /\ \A k \in 1..count : p[k - 1] < p[k]
      /\ p[count] \in Nat /\ p[count] <= a /\ rest = Piece(e.kind, p[count], a)
      /\ c \notin Chunking => count = 0
  BY <1>8 DEF CutUp, lists, rest
<1> DEFINE m == Len(lists)
<1> HIDE DEF m
<1>10. m \in Nat /\ m = IF runs THEN count + 1 ELSE count
  BY <1>9 DEF m
<1>11. PICK sent : /\ Sends(sent, c, n, lists, reqs, ids)
                   /\ requests' = [requests EXCEPT ![c] = sent[m].messages]
                   /\ aqcbmap' = [aqcbmap EXCEPT ![c] = sent[m].ids]
  <2>1. reqs \in Seq(AnyMessage(c)) /\ Len(batches[c]) = n /\ Len(batches[c]) \in Nat
    BY <1>1, <1>2 DEF Posted, Sent
  <2>2. ids \in Seq(Nat)
    <3>1. ids \in Seq(0..n) /\ 0..n \subseteq Nat
      BY <1>1, <1>2 DEF Posted
    <3> HIDE DEF n
    <3> QED BY <3>1, SeqMonotonic
  <2>3. \E sent : /\ Sends(sent, c, Len(batches[c]), lists, requests[c], ids)
                  /\ requests' = [requests EXCEPT ![c] = sent[Len(lists)].messages]
                  /\ aqcbmap' = [aqcbmap EXCEPT ![c] = sent[Len(lists)].ids]
    BY <1>3, <1>9, <2>1, <2>2, SendIs, ZenonT(30)
  <2> QED BY <2>1, <2>3 DEF m
<1>12. PICK h : SentUpTo(c, e, h, p, m, sent[m])
  <2>1. Sends(sent, c, e.n, lists, reqs, ids)
    BY <1>5, <1>11
  <2> QED BY <1>4, <1>9, <2>1, SendAll DEF m
<1>13. /\ Posted(c, h, sent[m].messages, sent[m].ids) /\ Phased(h) /\ Extends(e, h)
       /\ h.kind = e.kind /\ h.n = n + m /\ \A i \in 0..m : h.first[n + i] = p[i]
  BY <1>5, <1>12 DEF SentUpTo
<1>14. Extends(g, h)
  BY <1>2, <1>4, <1>5, <1>13 DEF Extends
<1>15. /\ requests'[c] = sent[m].messages /\ aqcbmap'[c] = sent[m].ids /\ added'[c] = a
       /\ executes'[c] = (IF runs THEN << >> ELSE rest) /\ batches'[c] = bats \o lists
  <2>1. /\ Changed(added', added, c, a)
        /\ Changed(executes', executes, c, IF runs THEN << >> ELSE rest)
        /\ Changed(batches', batches, c, bats \o lists)
        /\ Changed(requests', requests, c, sent[m].messages)
        /\ Changed(aqcbmap', aqcbmap, c, sent[m].ids)
    BY <1>3, <1>11 DEF Changed
  <2>2. /\ OnContexts(added) /\ OnContexts(executes) /\ OnContexts(batches)
        /\ OnContexts(requests) /\ OnContexts(aqcbmap)
    BY DEF JsFunctions
  <2>3. added'[c] = a
    BY <2>1, <2>2, Excepted
  <2>4. executes'[c] = IF runs THEN << >> ELSE rest
    BY <2>1, <2>2, Excepted
  <2>5. batches'[c] = bats \o lists
    <3> DEFINE v == bats \o lists
    <3>1. Changed(batches', batches, c, v)
      BY <2>1
    <3> HIDE DEF v
    <3>2. batches'[c] = v
      BY <2>2, <3>1, Excepted
    <3> QED BY <3>2 DEF v
  <2>6. requests'[c] = sent[m].messages
    BY <2>1, <2>2, Excepted
  <2>7. aqcbmap'[c] = sent[m].ids
    BY <2>1, <2>2, Excepted
  <2> QED BY <2>3, <2>4, <2>5, <2>6, <2>7
<1>16. h.first[h.n] = (IF runs THEN a ELSE p[count])
  <2>1. m \in 0..m /\ h.first[n + m] = p[m]
    BY <1>10, <1>13
  <2> QED BY <1>9, <1>13, <2>1 DEF m
<1>17. executes'[c] = Piece(h.kind, h.first[h.n], a)
  <2>1. CASE runs
    <3>1. Piece(h.kind, h.first[h.n], a) = << >>
      BY <1>6, <1>16, <2>1, PieceEmpty
    <3> QED BY <1>15, <2>1, <3>1
  <2>2. CASE ~runs
    BY <1>9, <1>13, <1>15, <1>16, <2>2
  <2> QED BY <2>1, <2>2
<1> DEFINE new == bats \o lists
           V == Seq(Sql)
<1> HIDE DEF V
<1>18. /\ new \in Seq(V) /\ Len(new) = n + m
       /\ \A k \in 1..(n + m) : new[k] = IF k <= n THEN bats[k] ELSE lists[k - n]
  <2>1. bats \in Seq(V) /\ lists \in Seq(V) /\ Len(bats) = n /\ Len(lists) = m
    BY <1>1, <1>9 DEF V, m
  <2>2. /\ new \in Seq(V) /\ Len(new) = Len(bats) + Len(lists)
        /\ \A k \in 1..(Len(bats) + Len(lists)) :
             new[k] = IF k <= Len(bats) THEN bats[k] ELSE lists[k - Len(bats)]
    BY <2>1, ConcatProperties
  <2> HIDE DEF new, n
  <2> QED BY <2>1, <2>2
<1> HIDE DEF new
<1>19. ASSUME NEW i \in 1..m
       PROVE  /\ n + i \in 1..h.n /\ h.first[n + i] = p[i] /\ h.first[(n + i) - 1] = p[i - 1]
              /\ lists[i] = Batch(h, n + i) /\ h.phase[n + i] = "sent"
  <2>1. n + i \in 1..h.n /\ i \in 0..m /\ i - 1 \in 0..m /\ (n + i) - 1 = n + (i - 1) /\ n + i > n /\ n + i \in Nat
    <3> DEFINE x == h.n
    <3>1. x = n + m /\ n \in Nat
      BY <1>2, <1>13
    <3> HIDE DEF n, x
    <3>2. n + i \in 1..x /\ i \in 0..m /\ i - 1 \in 0..m /\ (n + i) - 1 = n + (i - 1)
      BY <1>10, <3>1
    <3>3. n + i > n /\ n + i \in Nat
      BY <1>10, <3>1
    <3> QED BY <3>2, <3>3 DEF x
  <2>2. h.first[n + i] = p[i] /\ h.first[n + (i - 1)] = p[i - 1]
    BY <1>13, <2>1
  <2>3. lists[i] = Piece(e.kind, p[i - 1], p[i])
    BY <1>9 DEF Cuts, m
  <2>4. h.phase[n + i] = "sent"
    <3> DEFINE k == n + i
    <3>1. k \in Nat /\ k > e.n /\ h.phase = e.phase
      BY <1>5, <1>13, <2>1 DEF Extends
    <3> HIDE DEF k
    <3>2. e.phase[k] = "sent"
      BY <1>4, <3>1 DEF Phased
    <3> QED BY <3>1, <3>2 DEF k
  <2> QED BY <1>13, <2>1, <2>2, <2>3, <2>4 DEF Batch
<1>20. ASSUME NEW k \in 1..h.n
       PROVE  new[k] = IF h.phase[k] = "delivered" THEN << >> ELSE Batch(h, k)
  <2>1. CASE k <= n
    <3>1. k \in 1..n /\ k \in 1..(n + m)
      BY <1>2, <1>10, <1>13, <2>1
    <3>2. new[k] = bats[k] /\ bats[k] = IF g.phase[k] = "delivered" THEN << >> ELSE Batch(g, k)
      BY <1>1, <1>18, <2>1, <3>1
    <3>3. Batch(h, k) = Batch(g, k) /\ h.phase[k] = g.phase[k]
      BY <1>2, <1>14, <3>1, ExtendsFacts
    <3> QED BY <3>2, <3>3
  <2>2. CASE ~(k <= n)
    <3> DEFINE i == k - n
    <3>1. i \in 1..m /\ n + i = k /\ k \in 1..(n + m)
      BY <1>2, <1>10, <1>13, <2>2
    <3>2. new[k] = lists[i]
      BY <1>18, <2>2, <3>1
    <3> HIDE DEF i
    <3>3. lists[i] = Batch(h, n + i) /\ h.phase[n + i] = "sent"
      BY <1>19, <3>1
    <3> QED BY <3>1, <3>2, <3>3
  <2> QED BY <2>1, <2>2
<1>21. h.first[h.n] <= a
  <2> HIDE DEF n
  <2> QED BY <1>6, <1>9, <1>16
<1>22. Holds(c, h, requests'[c], aqcbmap'[c], batches'[c], added'[c], executes'[c])
  <2>1. batches'[c] = new /\ new \in Seq(Seq(Sql)) /\ Len(new) = h.n
    BY <1>13, <1>15, <1>18 DEF new, V
  <2> QED BY <1>6, <1>13, <1>15, <1>17, <1>20, <1>21, <2>1 DEF Holds
<1>23. runs => h.first[h.n] = added'[c] /\ n < h.n
  <2>1. runs => h.first[h.n] = added'[c]
    BY <1>15, <1>16
  <2>2. h.n = n + m
    BY <1>13
  <2> HIDE DEF n
  <2>3. runs => n < h.n
    BY <1>2, <1>9, <1>10, <2>2
  <2> QED BY <2>1, <2>3
<1>24. ASSUME NEW k \in (n + 1)..h.n PROVE h.first[k - 1] < h.first[k] \/ (runs /\ k = h.n)
  <2> DEFINE i == k - n
  <2>1. i \in 1..m /\ n + i = k
    BY <1>2, <1>10, <1>13
  <2> HIDE DEF i
  <2>2. h.first[n + i] = p[i] /\ h.first[(n + i) - 1] = p[i - 1]
    BY <1>19, <2>1
  <2>3. CASE i <= count
    <3>1. i \in 1..count
      BY <1>9, <2>1, <2>3
    <3> QED BY <1>9, <2>1, <2>2, <3>1
  <2>4. CASE ~(i <= count)
    <3>1. runs /\ i = m
      BY <1>9, <1>10, <2>1, <2>4
    <3> QED BY <1>13, <2>1, <3>1
  <2> QED BY <2>1, <2>3, <2>4
<1>25. ASSUME runs, rest # << >> PROVE h.first[h.n - 1] < h.first[h.n]
  <2>1. m \in 1..m /\ m = count + 1 /\ m - 1 = count
    BY <1>9, <1>10, <1>25
  <2>2. h.first[(n + m) - 1] = p[m - 1] /\ h.first[n + m] = p[m]
    BY <1>19, <2>1
  <2>3. h.first[h.n - 1] = p[count] /\ h.first[h.n] = a
    BY <1>13, <1>16, <1>25, <2>1, <2>2
  <2>4. p[count] # a
    <3>1. p[count] = a => Piece(e.kind, p[count], a) = << >>
      BY <1>6, PieceEmpty
    <3> QED BY <1>9, <1>25, <3>1
  <2> DEFINE x == p[count]
  <2>5. x \in Nat /\ x <= a
    BY <1>9
  <2> QED BY <1>6, <2>3, <2>4, <2>5
<1>26. c \notin Chunking => h.n = IF runs THEN n + 1 ELSE n
  BY <1>2, <1>9, <1>10, <1>13
<1>27. Submitted(c, g, h, kinds, runs, rest)
  <2>1. h.kind = Longer(g.kind, added[c], kinds) /\ added'[c] = added[c] + Len(kinds)
    BY <1>5, <1>13, <1>15 DEF a
  <2> QED BY <1>13, <1>14, <1>15, <1>22, <1>23, <1>24, <1>25, <1>26, <2>1 DEF Submitted
<1> QED BY <1>27 DEF rest, stmts

\* ... and of the other contexts.
LEMMA SubmitsAlone ==
  ASSUME NEW c \in Contexts, NEW b, JsFunctions, NEW kinds, NEW runs, Submit(c, kinds, runs, b)
  PROVE  /\ JsFunctions'
         /\ \A d \in Contexts : d # c =>
              /\ added'[d] = added[d] /\ executes'[d] = executes[d] /\ batches'[d] = batches[d]
              /\ requests'[d] = requests[d] /\ aqcbmap'[d] = aqcbmap[d]
<1>1. PICK v1, v2, v3 : /\ added' = [added EXCEPT ![c] = v1] /\ executes' = [executes EXCEPT ![c] = v2]
                        /\ batches' = [batches EXCEPT ![c] = v3]
  BY DEF Submit
<1>2. PICK v4, v5 : requests' = [requests EXCEPT ![c] = v4] /\ aqcbmap' = [aqcbmap EXCEPT ![c] = v5]
  BY DEF Submit, Send
<1>3. OnContexts(added') /\ OnContexts(executes') /\ OnContexts(batches')
      /\ \A d \in Contexts : d # c =>
           added'[d] = added[d] /\ executes'[d] = executes[d] /\ batches'[d] = batches[d]
  <2>1. Changed(added', added, c, v1) /\ Changed(executes', executes, c, v2)
        /\ Changed(batches', batches, c, v3)
    BY <1>1 DEF Changed
  <2> QED BY <2>1, Excepted DEF JsFunctions
<1>4. OnContexts(requests') /\ OnContexts(aqcbmap')
      /\ \A d \in Contexts : d # c => requests'[d] = requests[d] /\ aqcbmap'[d] = aqcbmap[d]
  <2>1. Changed(requests', requests, c, v4) /\ Changed(aqcbmap', aqcbmap, c, v5)
    BY <1>2 DEF Changed
  <2> QED BY <2>1, Excepted DEF JsFunctions
<1>5. JsFunctions'
  BY <1>3, <1>4 DEF JsFunctions, OnContexts
<1> QED BY <1>3, <1>4, <1>5

-----------------------------------------------------------------------------
(* The parts of the invariant, for context c with history g on platform p. *)

\* The statements of batch b behind the first k, as the native side has them.
StillToDo(c, g, b, k) == Behind(Tagged(c, Batch(g, b)), k, Len(Batch(g, b)))

\* x has the results of the first statements of batch b.
HasResults(g, p, x, b) ==
  /\ x.cbid = g.at[b] /\ x.outcomes \in Seq(Endings) /\ x.results \in Seq(Words)
  /\ Len(x.outcomes) <= Len(Batch(g, b))
  /\ Laid(x.results, [i \in 1..Len(x.outcomes) |-> Encode(x.outcomes[i], p)])

\* x is batch b on the native side.
IsBatch(c, g, p, x, b) == HasResults(g, p, x, b) /\ x.todo = StillToDo(c, g, b, Len(x.outcomes))

\* A batch whose first messages are taken is in batchmap.
Collected(c, g, bmap) ==
  c \in Workers =>
    \A b \in 1..g.n : g.at[b - 1] < g.taken /\ g.taken < g.at[b] =>
      /\ BatchId(c, b) \in DOMAIN bmap
      /\ bmap[BatchId(c, b)] = [flen |-> Len(Batch(g, b)),
                                flatlist |-> Taken(c, Batch(g, b), g.taken - g.at[b - 1] - 1)]

Queued(c, g, p, q) ==
  /\ \A k \in 1..Len(q) : q[k].to = c =>
       \E b \in 1..g.n : IsBatch(c, g, p, q[k], b) /\ g.phase[b] = "queued" /\ q[k].outcomes = << >>
  /\ \A j, k \in 1..Len(q) : j < k /\ q[j].to = c /\ q[k].to = c => q[j].cbid < q[k].cbid
  /\ \A b \in 1..g.n : g.phase[b] = "queued" =>
       \E k \in 1..Len(q) : q[k].to = c /\ q[k].cbid = g.at[b]

Executing(c, g, p, ex) ==
  /\ \A x \in ex : x.to = c =>
       \E b \in 1..g.n : IsBatch(c, g, p, x, b) /\ g.phase[b] = "executing"
  /\ \A b \in 1..g.n : g.phase[b] = "executing" => \E x \in ex : x.to = c /\ x.cbid = g.at[b]

Answered(g, p, ans, gone) ==
  /\ \A k \in 1..Len(ans) :
       \E b \in 1..g.n : /\ HasResults(g, p, ans[k], b) /\ g.phase[b] = "answered"
                         /\ Len(ans[k].outcomes) = Len(Batch(g, b))
  /\ \A j, k \in 1..Len(ans) : j # k => ans[j].cbid # ans[k].cbid
  /\ ~gone => \A b \in 1..g.n : g.phase[b] = "answered" => \E k \in 1..Len(ans) : ans[k].cbid = g.at[b]

\* The first k batches are executed, and of the next one the outcomes that x has.
OrderedTo(c, g, ex, done, k) ==
  /\ \A b \in 1..g.n : b <= k <=> g.phase[b] \in {"answered", "delivered"}
  /\ \A b \in 1..g.n : g.phase[b] = "executing" => b = k + 1
  /\ \A x \in ex : x.to = c => Len(done) = g.first[k] + Len(x.outcomes)
  /\ (\A x \in ex : x.to # c) => Len(done) = g.first[k]
  /\ \A i \in 1..Len(done) : done[i][1] = i

Ordered(c, g, p, ex, done) ==
  /\ done \in Seq(Sql)
  /\ c \notin Chunking \/ p = "android" => \E k \in 0..g.n : OrderedTo(c, g, ex, done, k)

\* h agrees with g about the batches in this phase.
Agrees(g, h, phase) ==
  /\ \A b \in 1..g.n : /\ b \in 1..h.n /\ Batch(h, b) = Batch(g, b) /\ h.at[b] = g.at[b]
                       /\ h.phase[b] = phase <=> g.phase[b] = phase
  /\ \A b \in 1..h.n : h.phase[b] = phase => b \in 1..g.n

LEMMA HasResultsAgrees ==
  ASSUME NEW g, NEW h, NEW phase, Agrees(g, h, phase), NEW p, NEW x, NEW b \in 1..g.n,
         HasResults(g, p, x, b)
  PROVE  HasResults(h, p, x, b)
<1>1. Batch(h, b) = Batch(g, b) /\ h.at[b] = g.at[b]
  BY DEF Agrees
<1> QED BY <1>1 DEF HasResults

LEMMA IsBatchAgrees ==
  ASSUME NEW c, NEW g, NEW h, NEW phase, Agrees(g, h, phase), NEW p, NEW x, NEW b \in 1..g.n,
         IsBatch(c, g, p, x, b)
  PROVE  IsBatch(c, h, p, x, b)
<1>1. Batch(h, b) = Batch(g, b)
  BY DEF Agrees
<1>2. HasResults(h, p, x, b)
  BY HasResultsAgrees DEF IsBatch
<1> QED BY <1>1, <1>2 DEF IsBatch, StillToDo

LEMMA QueuedAgrees ==
  ASSUME NEW c, NEW g, NEW h, Agrees(g, h, "queued"), NEW p, NEW q, Queued(c, g, p, q)
  PROVE  Queued(c, h, p, q)
<1>1. ASSUME NEW k \in 1..Len(q), q[k].to = c
      PROVE  \E b \in 1..h.n : IsBatch(c, h, p, q[k], b) /\ h.phase[b] = "queued" /\ q[k].outcomes = << >>
  <2>1. PICK b \in 1..g.n : IsBatch(c, g, p, q[k], b) /\ g.phase[b] = "queued" /\ q[k].outcomes = << >>
    BY <1>1 DEF Queued
  <2>2. b \in 1..h.n /\ h.phase[b] = "queued"
    BY <2>1 DEF Agrees
  <2>3. IsBatch(c, h, p, q[k], b)
    BY <2>1, IsBatchAgrees
  <2> QED BY <2>1, <2>2, <2>3
<1>2. ASSUME NEW b \in 1..h.n, h.phase[b] = "queued"
      PROVE  \E k \in 1..Len(q) : q[k].to = c /\ q[k].cbid = h.at[b]
  <2>1. b \in 1..g.n /\ g.phase[b] = "queued" /\ h.at[b] = g.at[b]
    BY <1>2 DEF Agrees
  <2> QED BY <2>1 DEF Queued
<1>3. \A j, k \in 1..Len(q) : j < k /\ q[j].to = c /\ q[k].to = c => q[j].cbid < q[k].cbid
  BY DEF Queued
<1> QED BY <1>1, <1>2, <1>3 DEF Queued

LEMMA ExecutingAgrees ==
  ASSUME NEW c, NEW g, NEW h, Agrees(g, h, "executing"), NEW p, NEW ex, Executing(c, g, p, ex)
  PROVE  Executing(c, h, p, ex)
<1>1. ASSUME NEW x \in ex, x.to = c
      PROVE  \E b \in 1..h.n : IsBatch(c, h, p, x, b) /\ h.phase[b] = "executing"
  <2>1. PICK b \in 1..g.n : IsBatch(c, g, p, x, b) /\ g.phase[b] = "executing"
    BY <1>1 DEF Executing
  <2>2. b \in 1..h.n /\ h.phase[b] = "executing"
    BY <2>1 DEF Agrees
  <2>3. IsBatch(c, h, p, x, b)
    BY <2>1, IsBatchAgrees
  <2> QED BY <2>2, <2>3
<1>2. ASSUME NEW b \in 1..h.n, h.phase[b] = "executing"
      PROVE  \E x \in ex : x.to = c /\ x.cbid = h.at[b]
  <2>1. b \in 1..g.n /\ g.phase[b] = "executing" /\ h.at[b] = g.at[b]
    BY <1>2 DEF Agrees
  <2> QED BY <2>1 DEF Executing
<1> QED BY <1>1, <1>2 DEF Executing

LEMMA AnsweredAgrees ==
  ASSUME NEW g, NEW h, Agrees(g, h, "answered"), NEW p, NEW ans, NEW gone, Answered(g, p, ans, gone)
  PROVE  Answered(h, p, ans, gone)
<1>1. ASSUME NEW k \in 1..Len(ans)
      PROVE  \E b \in 1..h.n : /\ HasResults(h, p, ans[k], b) /\ h.phase[b] = "answered"
                               /\ Len(ans[k].outcomes) = Len(Batch(h, b))
  <2>1. PICK b \in 1..g.n : /\ HasResults(g, p, ans[k], b) /\ g.phase[b] = "answered"
                            /\ Len(ans[k].outcomes) = Len(Batch(g, b))
    BY DEF Answered
  <2>2. b \in 1..h.n /\ h.phase[b] = "answered" /\ Batch(h, b) = Batch(g, b)
    BY <2>1 DEF Agrees
  <2>3. HasResults(h, p, ans[k], b)
    BY <2>1, HasResultsAgrees
  <2> QED BY <2>1, <2>2, <2>3
<1>2. ASSUME ~gone, NEW b \in 1..h.n, h.phase[b] = "answered"
      PROVE  \E k \in 1..Len(ans) : ans[k].cbid = h.at[b]
  <2>1. b \in 1..g.n /\ g.phase[b] = "answered" /\ h.at[b] = g.at[b]
    BY <1>2 DEF Agrees
  <2> QED BY <1>2, <2>1 DEF Answered
<1>3. \A j, k \in 1..Len(ans) : j # k => ans[j].cbid # ans[k].cbid
  BY DEF Answered
<1> QED BY <1>1, <1>2, <1>3 DEF Answered

\* More batches are sent.
LEMMA ExtendsAgrees ==
  ASSUME NEW c \in Contexts, NEW g, Numbered(c, g), Phased(g), NEW h, Extends(g, h),
         NEW phase, phase # "sent"
  PROVE  Agrees(g, h, phase)
<1>1. \A b \in 1..g.n : /\ b \in 1..h.n /\ Batch(h, b) = Batch(g, b) /\ h.at[b] = g.at[b]
                        /\ h.phase[b] = g.phase[b]
  BY ExtendsFacts
<1>2. ASSUME NEW b \in 1..h.n, h.phase[b] = phase PROVE b \in 1..g.n
  <2>1. g.n \in Nat /\ h.n \in Nat /\ h.phase = g.phase
    BY HistoryTypes DEF Numbered, Extends
  <2>2. CASE b > g.n
    <3>1. b \in Nat
      BY <2>1
    <3>2. g.phase[b] = "sent"
      BY <2>2, <3>1 DEF Phased
    <3> QED BY <1>2, <2>1, <3>2
  <2>3. CASE ~(b > g.n)
    BY <2>1, <2>3
  <2> QED BY <2>2, <2>3
<1> QED BY <1>1, <1>2 DEF Agrees

LEMMA ExtendsOrdered ==
  ASSUME NEW c \in Contexts, NEW g, Numbered(c, g), Phased(g), NEW h, Extends(g, h),
         NEW p, NEW ex, NEW done, Ordered(c, g, p, ex, done)
  PROVE  Ordered(c, h, p, ex, done)
<1>1. g.n \in Nat /\ h.n \in Nat /\ h.phase = g.phase /\ g.n <= h.n
  BY HistoryTypes DEF Numbered, Extends
<1>2. ASSUME NEW k \in 0..g.n, OrderedTo(c, g, ex, done, k) PROVE OrderedTo(c, h, ex, done, k)
  <2>1. h.first[k] = g.first[k]
    BY DEF Extends
  <2>2. ASSUME NEW b \in 1..h.n, b \notin 1..g.n PROVE h.phase[b] = "sent" /\ ~(b <= k)
    <3>1. b \in Nat /\ b > g.n
      BY <1>1, <2>2
    <3>2. g.phase[b] = "sent"
      BY <3>1 DEF Phased
    <3> QED BY <1>1, <3>1, <3>2
  <2>3. ASSUME NEW b \in 1..h.n
        PROVE  /\ b <= k <=> h.phase[b] \in {"answered", "delivered"}
               /\ h.phase[b] = "executing" => b = k + 1
    <3>1. CASE b \in 1..g.n
      BY <1>1, <1>2, <3>1 DEF OrderedTo
    <3>2. CASE b \notin 1..g.n
      BY <2>2, <3>2
    <3> QED BY <3>1, <3>2
  <2> QED BY <1>2, <2>1, <2>3 DEF OrderedTo
<1>3. \A k \in 0..g.n : k \in 0..h.n
  BY <1>1
<1> QED BY <1>2, <1>3 DEF Ordered

LEMMA ExtendsCollected ==
  ASSUME NEW c \in Contexts, NEW g, Numbered(c, g), Phased(g), NEW h, Extends(g, h), Numbered(c, h),
         NEW bmap, Collected(c, g, bmap)
  PROVE  Collected(c, h, bmap)
<1>1. g.n \in Nat /\ h.n \in Nat /\ h.taken = g.taken /\ g.n <= h.n /\ g.taken \in Nat
  BY HistoryTypes DEF Numbered, Extends
<1>2. SUFFICES ASSUME c \in Workers, NEW b \in 1..h.n, h.at[b - 1] < h.taken, h.taken < h.at[b]
               PROVE  /\ BatchId(c, b) \in DOMAIN bmap
                      /\ bmap[BatchId(c, b)] =
                           [flen |-> Len(Batch(h, b)),
                            flatlist |-> Taken(c, Batch(h, b), h.taken - h.at[b - 1] - 1)]
  BY DEF Collected
<1>3. b \in 1..g.n
  <2>1. SUFFICES ASSUME b > g.n PROVE FALSE
    BY <1>1
  <2>2. b - 1 \in 0..h.n /\ g.n \in 0..h.n /\ g.n \in 0..g.n /\ (b - 1 = g.n \/ g.n < b - 1)
    BY <1>1, <2>1
  <2>3. g.n < b - 1 => h.at[g.n] < h.at[b - 1]
    BY <2>2, Order
  <2>4. h.at[b - 1] \in Nat /\ h.at[g.n] \in Nat
    BY <2>2, Order
  <2>5. h.at[g.n] = g.at[g.n] /\ g.taken <= g.at[g.n]
    BY <2>2 DEF Extends, Phased
  <2> QED BY <1>1, <1>2, <2>2, <2>3, <2>4, <2>5
<1>4. Batch(h, b) = Batch(g, b) /\ h.at[b] = g.at[b] /\ h.at[b - 1] = g.at[b - 1]
  BY <1>3, ExtendsFacts
<1> QED BY <1>1, <1>2, <1>3, <1>4 DEF Collected

LEMMA AtIsOne ==
  ASSUME NEW c \in Contexts, NEW g, Numbered(c, g), NEW a \in 1..g.n, NEW b \in 1..g.n,
         g.at[a] = g.at[b]
  PROVE  a = b
<1>1. /\ a \in 0..g.n /\ b \in 0..g.n /\ g.at[a] \in Nat /\ g.n \in Nat
  BY BatchFacts
<1>2. ~(a < b) /\ ~(b < a)
  BY <1>1, Order
<1> QED BY <1>1, <1>2

\* A context that is not chunking has one batch on its way.
OneByOne(c, g) == c \notin Chunking => \A b \in 1..g.n : b # g.n => g.phase[b] = "delivered"

Statuses(g, st, reps, fin, add) ==
  /\ st \in {"new", "running", "done", "gone"}
  /\ reps \in {<< >>, <<"success">>, <<"error">>}
  /\ reps # << >> <=> st = "done"
  /\ st = "new" => g.n = 0 /\ ~fin /\ add = 0
  /\ st = "running" => \E b \in 1..g.n : g.phase[b] # "delivered"

\* COMMIT or ROLLBACK is the last statement, and has been sent.
Ended(g, fin, add, reps) ==
  /\ \A i \in 1..add : g.kind[i] \in Ends => fin /\ i = add
  /\ fin => g.first[g.n] = add /\ 0 < add /\ g.kind[add] \in Ends
  /\ ~fin => \A b \in 1..g.n : g.first[b - 1] < g.first[b]
  /\ reps # << >> <=> /\ fin
                      /\ \E b \in 1..g.n : /\ g.first[b - 1] < add /\ add <= g.first[b]
                                           /\ g.phase[b] = "delivered"
  /\ reps = <<"success">> => g.kind[add] = "COMMIT"

\* Without chunks, COMMIT is a batch of its own.
Alone(c, g, fin, add) ==
  c \notin Chunking /\ fin /\ g.kind[add] = "COMMIT" => g.first[g.n - 1] + 1 = g.first[g.n]

\* s is a statement that x says has failed.
FailedIn(g, x, s) ==
  \E b \in 1..g.n : \E j \in 1..Len(Batch(g, b)) :
    x.cbid = g.at[b] /\ j <= Len(x.outcomes) /\ x.outcomes[j][1] = "error" /\ s = Batch(g, b)[j]

\* Without chunks, before ROLLBACK: only statements of the batch that is executed
\* or answered can be unrecovered.
Recovered(c, g, add, reps, unrec, ans, ex) ==
  c \notin Chunking /\ reps # <<"error">> /\ (\A i \in 1..add : g.kind[i] # "ROLLBACK") =>
    \A s \in unrec : \/ \E k \in 1..Len(ans) : FailedIn(g, ans[k], s)
                     \/ \E x \in ex : x.to = c /\ FailedIn(g, x, s)

\* A context that is not gone.
There(c, g) ==
  /\ Holds(c, g, requests[c], aqcbmap[c], batches[c], added[c], executes[c])
  /\ Ended(g, finalized[c], added[c], reports[c]) /\ Alone(c, g, finalized[c], added[c])
  /\ Recovered(c, g, added[c], reports[c], unrecovered[c], answers[c], executing)

\* What is left of one that is.
Left(c) ==
  /\ executes[c] = << >> /\ batches[c] = << >> /\ aqcbmap[c] = << >> /\ answers[c] = << >>
  /\ added[c] \in Nat

Way(c, g) ==
  /\ Numbered(c, g) /\ Phased(g) /\ Sent(c, g, requests[c]) /\ OneByOne(c, g)
  /\ Statuses(g, status[c], reports[c], finalized[c], added[c])
  /\ Collected(c, g, batchmap) /\ Queued(c, g, platform, queue)
  /\ Executing(c, g, platform, executing) /\ Answered(g, platform, answers[c], status[c] = "gone")
  /\ Ordered(c, g, platform, executing, executed[c])
  /\ IF status[c] = "gone" THEN Left(c) ELSE There(c, g)

Jobs == [to : Contexts, cbid : Nat, todo : Seq(Owned), results : Seq(Words), outcomes : Seq(Endings)]
Replies == [cbid : Nat, results : Seq(Words), outcomes : Seq(Endings)]

Types ==
  /\ platform \in Platforms /\ users \in 0..MaxStatements
  /\ JsFunctions /\ OnContexts(status) /\ OnContexts(finalized) /\ OnContexts(unrecovered)
  /\ OnContexts(reports) /\ OnContexts(answers) /\ OnContexts(executed)
  /\ queue \in Seq(Jobs) /\ (executing = {} \/ \E x \in Jobs : executing = {x})
  /\ \A c \in Contexts : answers[c] \in Seq(Replies) /\ finalized[c] \in BOOLEAN

IInv == Types /\ \A c \in Contexts : \E g : Way(c, g)

-----------------------------------------------------------------------------
(* What a step leaves alone. *)

\* The JavaScript side of d.
SameContext(d) ==
  /\ status'[d] = status[d] /\ added'[d] = added[d] /\ executes'[d] = executes[d]
  /\ batches'[d] = batches[d] /\ finalized'[d] = finalized[d] /\ reports'[d] = reports[d]
  /\ aqcbmap'[d] = aqcbmap[d]

LEMMA Frame ==
  ASSUME NEW d, NEW g, Way(d, g), SameContext(d), requests'[d] = requests[d],
         answers'[d] = answers[d], unrecovered'[d] = unrecovered[d], executed'[d] = executed[d],
         platform' = platform, Collected(d, g, batchmap'), Queued(d, g, platform, queue'),
         Executing(d, g, platform, executing'), Ordered(d, g, platform, executing', executed[d]),
         \A x \in executing : x.to = d => x \in executing'
  PROVE  Way(d, g)'
<1>1. ASSUME There(d, g) PROVE There(d, g)'
  <2>1. Recovered(d, g, added[d], reports[d], unrecovered[d], answers[d], executing)
    BY <1>1 DEF There
  <2>2. Recovered(d, g, added[d], reports[d], unrecovered[d], answers[d], executing')
    BY <2>1 DEF Recovered
  <2> QED BY <1>1, <2>2 DEF There, SameContext
<1>2. Left(d) => Left(d)'
  BY DEF Left, SameContext
<1> QED BY <1>1, <1>2 DEF Way, SameContext

\* The native side is left alone.
LEMMA FrameNative ==
  ASSUME NEW d, NEW g, Way(d, g), SameContext(d), requests'[d] = requests[d],
         answers'[d] = answers[d], unrecovered'[d] = unrecovered[d],
         platform' = platform, UNCHANGED nativeVars
  PROVE  Way(d, g)'
<1>1. executing' = executing /\ queue' = queue /\ batchmap' = batchmap /\ executed'[d] = executed[d]
  BY DEF nativeVars
<1>2. /\ Collected(d, g, batchmap') /\ Queued(d, g, platform, queue')
      /\ Executing(d, g, platform, executing') /\ Ordered(d, g, platform, executing', executed[d])
  BY <1>1 DEF Way
<1> QED BY <1>1, <1>2, Frame

-----------------------------------------------------------------------------
(* The queue. *)

LEMMA Appended ==
  ASSUME NEW V, NEW s \in Seq(V), NEW e \in V
  PROVE  /\ Append(s, e) \in Seq(V) /\ Len(s) \in Nat /\ Len(Append(s, e)) = Len(s) + 1
         /\ Append(s, e)[Len(s) + 1] = e /\ \A i \in 1..Len(s) : Append(s, e)[i] = s[i]
BY AppendProperties

\* r is q without its k-th element.
Without(r, q, k) ==
  /\ Len(r) + 1 = Len(q)
  /\ \A i \in 1..Len(r) : r[i] = IF i < k THEN q[i] ELSE q[i + 1]

LEMMA RemoveAtFacts ==
  ASSUME NEW V, NEW q \in Seq(V), NEW k \in 1..Len(q)
  PROVE  RemoveAt(q, k) \in Seq(V) /\ Without(RemoveAt(q, k), q, k)
<1> DEFINE n == Len(q)
           a == SubSeq(q, 1, k - 1)
           b == SubSeq(q, k + 1, n)
           r == a \o b
<1>1. n \in Nat /\ k \in 1..n /\ \A i \in 1..n : q[i] \in V
  OBVIOUS
<1> HIDE DEF n
<1>2. a \in Seq(V) /\ Len(a) = k - 1 /\ \A i \in 1..(k - 1) : a[i] = q[i]
  <2>1. 1 \in Int /\ k - 1 \in Int /\ \A i \in 1..(k - 1) : q[i] \in V
    BY <1>1
  <2>2. /\ a \in Seq(V) /\ Len(a) = IF 1 <= k - 1 THEN (k - 1) - 1 + 1 ELSE 0
        /\ \A i \in 1..((k - 1) - 1 + 1) : a[i] = q[1 + i - 1]
    BY <2>1, SubSeqProperties
  <2>3. (k - 1) - 1 + 1 = k - 1 /\ \A i \in 1..(k - 1) : 1 + i - 1 = i
    BY <1>1
  <2> HIDE DEF a
  <2>4. Len(a) = k - 1
    BY <1>1, <2>2
  <2> QED BY <2>2, <2>3, <2>4
<1>3. b \in Seq(V) /\ Len(b) = n - k /\ \A i \in 1..(n - k) : b[i] = q[k + i]
  <2>1. k + 1 \in Int /\ n \in Int /\ \A i \in (k + 1)..n : q[i] \in V
    BY <1>1
  <2>2. /\ b \in Seq(V) /\ Len(b) = IF k + 1 <= n THEN n - (k + 1) + 1 ELSE 0
        /\ \A i \in 1..(n - (k + 1) + 1) : b[i] = q[(k + 1) + i - 1]
    BY <2>1, SubSeqProperties
  <2>3. n - (k + 1) + 1 = n - k /\ \A i \in 1..(n - k) : (k + 1) + i - 1 = k + i
    BY <1>1
  <2> HIDE DEF b
  <2>4. Len(b) = n - k
    BY <1>1, <2>2
  <2> QED BY <2>2, <2>3, <2>4
<1> HIDE DEF a, b
<1>4. /\ r \in Seq(V) /\ Len(r) = Len(a) + Len(b)
      /\ \A i \in 1..(Len(a) + Len(b)) : r[i] = IF i <= Len(a) THEN a[i] ELSE b[i - Len(a)]
  BY <1>2, <1>3, ConcatProperties
<1> HIDE DEF r
<1>5. Len(r) + 1 = n /\ Len(r) = n - 1
  BY <1>1, <1>2, <1>3, <1>4
<1>6. ASSUME NEW i \in 1..(n - 1) PROVE r[i] = IF i < k THEN q[i] ELSE q[i + 1]
  <2>0. r[i] = IF i <= k - 1 THEN a[i] ELSE b[i - (k - 1)]
    <3>1. i \in 1..(Len(a) + Len(b)) /\ Len(a) = k - 1
      BY <1>1, <1>2, <1>3
    <3> QED BY <1>4, <3>1
  <2>1. CASE i < k
    <3>1. i <= k - 1 /\ i \in 1..(k - 1)
      BY <1>1, <2>1
    <3> QED BY <1>2, <2>0, <2>1, <3>1
  <2>2. CASE ~(i < k)
    <3> DEFINE j == i - (k - 1)
    <3>1. ~(i <= k - 1) /\ j \in 1..(n - k) /\ k + j = i + 1
      BY <1>1, <2>2
    <3> HIDE DEF j
    <3>2. b[j] = q[k + j]
      BY <1>3, <3>1
    <3>3. r[i] = b[j]
      BY <2>0, <3>1 DEF j
    <3> QED BY <2>2, <3>1, <3>2, <3>3
  <2> QED BY <2>1, <2>2
<1>7. RemoveAt(q, k) = r
  BY DEF RemoveAt, r, a, b, n
<1> QED BY <1>4, <1>5, <1>6, <1>7 DEF Without, n

\* An entry of another context is taken from the queue, or added to it.
LEMMA QueuedWithout ==
  ASSUME NEW d, NEW g, NEW p, NEW q \in Seq(Jobs), NEW r \in Seq(Jobs), NEW k \in 1..Len(q),
         Without(r, q, k), q[k].to # d, Queued(d, g, p, q)
  PROVE  Queued(d, g, p, r)
<1> DEFINE n == Len(q)
           m == Len(r)
           old(i) == IF i < k THEN i ELSE i + 1
<1>1. n \in Nat /\ m \in Nat /\ m + 1 = n
  BY DEF Without
<1>2. ASSUME NEW i \in 1..m PROVE old(i) \in 1..n /\ r[i] = q[old(i)]
  BY <1>1 DEF Without
<1>3. \A i, j \in 1..m : i < j => old(i) < old(j)
  BY <1>1
<1>4. ASSUME NEW j \in 1..n, j # k PROVE \E i \in 1..m : old(i) = j
  <2>1. CASE j < k
    <3>1. j \in 1..m /\ old(j) = j
      BY <1>1, <2>1
    <3> QED BY <3>1
  <2>2. CASE ~(j < k)
    <3>1. j - 1 \in 1..m /\ old(j - 1) = j
      BY <1>1, <1>4, <2>2
    <3> QED BY <3>1
  <2> QED BY <2>1, <2>2
<1> HIDE DEF old, n, m
<1>5. \A i \in 1..m : r[i].to = d =>
        \E b \in 1..g.n : IsBatch(d, g, p, r[i], b) /\ g.phase[b] = "queued" /\ r[i].outcomes = << >>
  BY <1>2 DEF Queued, n
<1>6. \A i, j \in 1..m : i < j /\ r[i].to = d /\ r[j].to = d => r[i].cbid < r[j].cbid
  <2> TAKE i, j \in 1..m
  <2> DEFINE x == old(i)
             y == old(j)
  <2>1. /\ x \in 1..n /\ r[i] = q[x] /\ y \in 1..n /\ r[j] = q[y]
        /\ i < j => x < y
    BY <1>2, <1>3
  <2> HIDE DEF x, y
  <2> QED BY <2>1, SMTT(20) DEF Queued, n
<1>7. ASSUME NEW b \in 1..g.n, g.phase[b] = "queued"
      PROVE  \E i \in 1..m : r[i].to = d /\ r[i].cbid = g.at[b]
  <2>1. PICK j \in 1..n : q[j].to = d /\ q[j].cbid = g.at[b]
    BY <1>7 DEF Queued, n
  <2>2. j # k
    BY <2>1
  <2> QED BY <1>2, <1>4, <2>1, <2>2
<1> QED BY <1>5, <1>6, <1>7 DEF Queued, m

LEMMA QueuedAppend ==
  ASSUME NEW d, NEW g, NEW p, NEW q \in Seq(Jobs), NEW x \in Jobs, x.to # d, Queued(d, g, p, q)
  PROVE  Queued(d, g, p, Append(q, x))
<1> DEFINE n == Len(q)
           r == Append(q, x)
<1>1. /\ Len(r) = n + 1 /\ n \in Nat /\ r[n + 1] = x /\ \A i \in 1..n : r[i] = q[i]
  <2> DEFINE V == Jobs
  <2> HIDE DEF V
  <2>1. q \in Seq(V) /\ x \in V
    BY DEF V
  <2> QED BY <2>1, Appended
<1> HIDE DEF r, n
<1>2. ASSUME NEW i \in 1..(n + 1), r[i].to = d PROVE i \in 1..n /\ r[i] = q[i]
  <2>1. i # n + 1
    BY <1>1, <1>2
  <2>2. i \in 1..n
    BY <1>1, <2>1
  <2> QED BY <1>1, <2>2
<1>3. \A i \in 1..(n + 1) : r[i].to = d =>
        \E b \in 1..g.n : IsBatch(d, g, p, r[i], b) /\ g.phase[b] = "queued" /\ r[i].outcomes = << >>
  BY <1>2 DEF Queued, n
<1>4. \A i, j \in 1..(n + 1) : i < j /\ r[i].to = d /\ r[j].to = d => r[i].cbid < r[j].cbid
  BY <1>2 DEF Queued, n
<1>5. ASSUME NEW b \in 1..g.n, g.phase[b] = "queued"
      PROVE  \E i \in 1..(n + 1) : r[i].to = d /\ r[i].cbid = g.at[b]
  <2>1. PICK j \in 1..n : q[j].to = d /\ q[j].cbid = g.at[b]
    BY <1>5 DEF Queued, n
  <2>2. j \in 1..(n + 1) /\ r[j] = q[j]
    BY <1>1
  <2> QED BY <2>1, <2>2
<1> QED BY <1>1, <1>3, <1>4, <1>5 DEF Queued, r

-----------------------------------------------------------------------------
(* What a batch is on the native side. *)

LEMMA BehindFacts ==
  ASSUME NEW V, NEW s \in Seq(V), NEW k \in Nat, k <= Len(s)
  PROVE  /\ Behind(s, k, Len(s)) \in Seq(V)
         /\ Behind(s, k, Len(s)) = << >> <=> k = Len(s)
         /\ k = 0 => Behind(s, k, Len(s)) = s
         /\ k < Len(s) => /\ Head(Behind(s, k, Len(s))) = s[k + 1]
                          /\ Tail(Behind(s, k, Len(s))) = Behind(s, k + 1, Len(s))
<1> DEFINE n == Len(s)
           r == SubSeq(s, k + 1, n)
           t == SubSeq(s, (k + 1) + 1, n)
<1>1. n \in Nat /\ \A i \in 1..n : s[i] \in V
  OBVIOUS
<1> HIDE DEF n
<1>2. r \in Seq(V) /\ Len(r) = n - k /\ \A i \in 1..(n - k) : r[i] = s[k + i]
  <2>1. k + 1 \in Int /\ n \in Int /\ \A i \in (k + 1)..n : s[i] \in V
    BY <1>1
  <2>2. /\ r \in Seq(V) /\ Len(r) = IF k + 1 <= n THEN n - (k + 1) + 1 ELSE 0
        /\ \A i \in 1..(n - (k + 1) + 1) : r[i] = s[(k + 1) + i - 1]
    BY <2>1, SubSeqProperties
  <2>3. n - (k + 1) + 1 = n - k /\ (\A i \in 1..(n - k) : (k + 1) + i - 1 = k + i) /\ k <= n
    BY <1>1 DEF n
  <2> HIDE DEF r
  <2>4. Len(r) = n - k
    BY <1>1, <2>2, <2>3
  <2> QED BY <2>2, <2>3, <2>4
<1>3. k < n => t \in Seq(V) /\ Len(t) = n - (k + 1) /\ \A i \in 1..(n - (k + 1)) : t[i] = s[(k + 1) + i]
  <2> SUFFICES ASSUME k < n
               PROVE  /\ t \in Seq(V) /\ Len(t) = n - (k + 1)
                      /\ \A i \in 1..(n - (k + 1)) : t[i] = s[(k + 1) + i]
    OBVIOUS
  <2>1. (k + 1) + 1 \in Int /\ n \in Int /\ \A i \in ((k + 1) + 1)..n : s[i] \in V
    BY <1>1
  <2>2. /\ t \in Seq(V) /\ Len(t) = IF (k + 1) + 1 <= n THEN n - ((k + 1) + 1) + 1 ELSE 0
        /\ \A i \in 1..(n - ((k + 1) + 1) + 1) : t[i] = s[((k + 1) + 1) + i - 1]
    BY <2>1, SubSeqProperties
  <2>3. n - ((k + 1) + 1) + 1 = n - (k + 1)
        /\ (\A i \in 1..(n - (k + 1)) : ((k + 1) + 1) + i - 1 = (k + 1) + i)
    BY <1>1
  <2> HIDE DEF t
  <2>4. Len(t) = n - (k + 1)
    BY <1>1, <2>2, <2>3
  <2> QED BY <2>2, <2>3, <2>4
<1> HIDE DEF r, t
<1>4. r = << >> <=> k = n
  <2>1. r = << >> <=> Len(r) = 0
    BY <1>2
  <2> QED BY <1>1, <1>2, <2>1
<1>5. k = 0 => r = s
  <2> SUFFICES ASSUME k = 0 PROVE r = s
    OBVIOUS
  <2>1. Len(r) = n /\ \A i \in 1..n : r[i] = s[i]
    <3>1. n - k = n /\ \A i \in 1..n : k + i = i
      BY <1>1
    <3> QED BY <1>2, <3>1
  <2> QED BY <1>1, <1>2, <2>1, SeqEqual DEF n
<1>6. ASSUME k < n PROVE Head(r) = s[k + 1] /\ Tail(r) = t
  <2>1. Len(r) \in Nat /\ Len(r) > 0 /\ 1 \in 1..(n - k) /\ r # << >>
    BY <1>1, <1>2, <1>4, <1>6
  <2>2. Head(r) = r[1] /\ r[1] = s[k + 1]
    BY <1>2, <2>1
  <2>3. Tail(r) \in Seq(V) /\ Len(Tail(r)) = Len(r) - 1 /\ \A i \in 1..Len(Tail(r)) : Tail(r)[i] = r[i + 1]
    BY <1>2, <2>1, HeadTailProperties
  <2> DEFINE u == Tail(r)
  <2> HIDE DEF u
  <2>4. u \in Seq(V) /\ Len(u) = n - (k + 1) /\ \A i \in 1..(n - (k + 1)) : u[i] = r[i + 1]
    BY <1>1, <1>2, <2>3 DEF u
  <2>5. ASSUME NEW i \in 1..(n - (k + 1)) PROVE u[i] = t[i]
    <3>1. i + 1 \in 1..(n - k) /\ k + (i + 1) = (k + 1) + i
      BY <1>1
    <3>2. r[i + 1] = s[k + (i + 1)]
      BY <1>2, <3>1
    <3> QED BY <1>3, <1>6, <2>4, <3>1, <3>2
  <2>6. u = t
    BY <1>3, <1>6, <2>4, <2>5, SeqEqual
  <2> QED BY <2>2, <2>6 DEF u
<1> QED BY <1>2, <1>4, <1>5, <1>6 DEF r, t, n, Behind

LEMMA ToDo ==
  ASSUME NEW c \in Contexts, NEW g, Numbered(c, g), NEW b \in 1..g.n, NEW k \in Nat,
         k <= Len(Batch(g, b))
  PROVE  /\ StillToDo(c, g, b, k) \in Seq(Owned)
         /\ StillToDo(c, g, b, k) = << >> <=> k = Len(Batch(g, b))
         /\ k = 0 => StillToDo(c, g, b, k) = Tagged(c, Batch(g, b))
         /\ k < Len(Batch(g, b)) =>
              /\ Head(StillToDo(c, g, b, k))[1] = c
              /\ Tail(Head(StillToDo(c, g, b, k))) = Batch(g, b)[k + 1]
              /\ Tail(StillToDo(c, g, b, k)) = StillToDo(c, g, b, k + 1)
<1> DEFINE s == Batch(g, b)
           t == Tagged(c, s)
           n == Len(s)
<1>1. s \in Seq(Sql) /\ n \in Nat
  BY BatchFacts
<1> HIDE DEF s
<1>2. /\ t \in Seq(Owned) /\ Len(t) = n
      /\ \A i \in 1..n : t[i][1] = c /\ Tail(t[i]) = s[i]
  BY <1>1, TaggedFacts, ZenonT(30)
<1> HIDE DEF t, n
<1>3. k <= n
  BY DEF s, n
<1>4. /\ Behind(t, k, n) \in Seq(Owned)
      /\ Behind(t, k, n) = << >> <=> k = n
      /\ k = 0 => Behind(t, k, n) = t
      /\ k < n => /\ Head(Behind(t, k, n)) = t[k + 1]
                  /\ Tail(Behind(t, k, n)) = Behind(t, k + 1, n)
  BY <1>2, <1>3, BehindFacts
<1>5. k < n => t[k + 1][1] = c /\ Tail(t[k + 1]) = s[k + 1]
  <2>1. k < n => k + 1 \in 1..n
    BY <1>1 DEF n
  <2> QED BY <1>2, <2>1
<1>6. \A i : StillToDo(c, g, b, i) = Behind(t, i, n)
  BY DEF StillToDo, t, n, s
<1>7. /\ StillToDo(c, g, b, k) \in Seq(Owned)
      /\ StillToDo(c, g, b, k) = << >> <=> k = n
      /\ k = 0 => StillToDo(c, g, b, k) = t
      /\ k < n => /\ Head(StillToDo(c, g, b, k)) = t[k + 1]
                  /\ Tail(StillToDo(c, g, b, k)) = StillToDo(c, g, b, k + 1)
  BY <1>4, <1>6
<1>8. k < n => Head(StillToDo(c, g, b, k))[1] = c /\ Tail(Head(StillToDo(c, g, b, k))) = s[k + 1]
  BY <1>5, <1>7
<1> QED BY <1>7, <1>8 DEF t, n, s

LEMMA NoResults ==
  ASSUME NEW c \in Contexts, NEW g, Numbered(c, g), NEW b \in 1..g.n, NEW p, NEW x,
         x.cbid = g.at[b], x.outcomes = << >>, x.results = << >>
  PROVE  HasResults(g, p, x, b)
<1>1. Len(x.outcomes) = 0 /\ x.outcomes \in Seq(Endings) /\ x.results \in Seq(Words)
  <2>1. << >> \in Seq(Endings) /\ << >> \in Seq(Words) /\ Len(<< >>) = 0
    OBVIOUS
  <2> QED BY <2>1
<1>2. [i \in 1..0 |-> Encode(x.outcomes[i], p)] = << >>
  OBVIOUS
<1>3. Len(Batch(g, b)) \in Nat
  BY BatchFacts
<1> QED BY <1>1, <1>2, <1>3, LaidEmpty DEF HasResults

\* y has the outcomes of x, and o.
OneMore(x, y, o) ==
  /\ Len(x.outcomes) \in Nat
  /\ Len(y.outcomes) = Len(x.outcomes) + 1 /\ y.outcomes[Len(x.outcomes) + 1] = o
  /\ \A i \in 1..Len(x.outcomes) : y.outcomes[i] = x.outcomes[i]

LEMMA OneMoreResult ==
  ASSUME NEW g, NEW b, NEW p, NEW x, HasResults(g, p, x, b), Len(Batch(g, b)) \in Nat,
         Len(x.outcomes) < Len(Batch(g, b)), NEW o \in Endings, NEW y, y.cbid = x.cbid,
         y.outcomes = Append(x.outcomes, o), y.results = x.results \o Encode(o, p)
  PROVE  HasResults(g, p, y, b) /\ OneMore(x, y, o)
<1> DEFINE old == x.outcomes
           n == Len(old)
           new == y.outcomes
           results == x.results
           e == Encode(o, p)
           pieces == [i \in 1..n |-> Encode(old[i], p)]
           then == [i \in 1..(n + 1) |-> Encode(new[i], p)]
           W == Seq(Words)
           size == Len(Batch(g, b))
<1>1. old \in Seq(Endings) /\ results \in Seq(Words) /\ Laid(results, pieces) /\ x.cbid = g.at[b]
  BY DEF HasResults
<1>2. /\ new \in Seq(Endings) /\ n \in Nat /\ Len(new) = n + 1 /\ new[n + 1] = o
      /\ \A i \in 1..n : new[i] = old[i]
  <2> DEFINE V == Endings
  <2> HIDE DEF V
  <2>1. old \in Seq(V) /\ o \in V
    BY <1>1 DEF V
  <2> HIDE DEF old
  <2>2. /\ Append(old, o) \in Seq(V) /\ Len(old) \in Nat /\ Len(Append(old, o)) = Len(old) + 1
        /\ Append(old, o)[Len(old) + 1] = o /\ \A i \in 1..Len(old) : Append(old, o)[i] = old[i]
    BY <2>1, Appended
  <2>3. new = Append(old, o)
    BY DEF old
  <2> HIDE DEF new
  <2> QED BY <2>2, <2>3 DEF V
<1>3. e \in W /\ \A i \in 1..n : Encode(old[i], p) \in W
  <2>1. \A i \in 1..n : old[i] \in Endings
    BY <1>1
  <2> QED BY <2>1, EncodeFacts
<1> HIDE DEF old, n, new, results, e, W
<1>4. pieces \in Seq(W) /\ Len(pieces) = n /\ \A i \in 1..n : pieces[i] = Encode(old[i], p)
  BY <1>2, <1>3
<1>5. Laid(results \o e, Append(pieces, e))
  <2>1. results \in Seq(Words) /\ e \in Seq(Words) /\ pieces \in Seq(Seq(Words)) /\ Laid(results, pieces)
    BY <1>1, <1>3, <1>4 DEF W
  <2> HIDE DEF pieces
  <2> QED BY <2>1, LaidAppend
<1>6. Append(pieces, e) = then
  <2> DEFINE s == Append(pieces, e)
  <2>1. /\ s \in Seq(W) /\ Len(s) = n + 1 /\ s[n + 1] = e /\ \A i \in 1..n : s[i] = pieces[i]
    <3> HIDE DEF pieces
    <3>1. /\ s \in Seq(W) /\ Len(s) = Len(pieces) + 1 /\ s[Len(pieces) + 1] = e
          /\ \A i \in 1..Len(pieces) : s[i] = pieces[i]
      BY <1>3, <1>4, Appended
    <3> QED BY <1>4, <3>1
  <2> HIDE DEF s
  <2>2. ASSUME NEW i \in 1..(n + 1) PROVE s[i] = Encode(new[i], p) /\ Encode(new[i], p) \in W
    <3>1. i \in 1..n \/ i = n + 1
      BY <1>2
    <3> QED BY <1>2, <1>3, <1>4, <2>1, <3>1 DEF e
  <2>3. then \in Seq(W) /\ Len(then) = n + 1 /\ \A i \in 1..(n + 1) : then[i] = Encode(new[i], p)
    BY <1>2, <2>2
  <2> HIDE DEF then
  <2>4. s = then
    BY <2>1, <2>2, <2>3, SeqEqual
  <2> QED BY <2>4 DEF s
<1>7. results \o e \in Seq(Words)
  <2>1. results \in Seq(Words) /\ e \in Seq(Words)
    BY <1>1, <1>3 DEF W
  <2> QED BY <2>1, ConcatProperties
<1>8. n + 1 <= size
  <2>1. n < size /\ size \in Nat
    BY DEF n, old
  <2> HIDE DEF size
  <2> QED BY <1>2, <2>1
<1>9. HasResults(g, p, y, b)
  <2>1. y.cbid = g.at[b] /\ y.results = results \o e /\ y.outcomes = new
    BY <1>1 DEF results, e, new
  <2>2. Laid(y.results, [i \in 1..Len(y.outcomes) |-> Encode(y.outcomes[i], p)])
    BY <1>2, <1>5, <1>6, <2>1
  <2> QED BY <1>2, <1>7, <1>8, <2>1, <2>2 DEF HasResults, size
<1>10. OneMore(x, y, o)
  BY <1>2 DEF old, n, new, OneMore
<1> QED BY <1>9, <1>10

-----------------------------------------------------------------------------
(* What a step leaves alone in the context it is about. *)

\* In h, batches that are not delivered have come further than in g.
Moved(g, h) ==
  SameBatches(g, h) /\ \A b \in 1..g.n : h.phase[b] = "delivered" <=> g.phase[b] = "delivered"

LEMMA MovedFacts ==
  ASSUME NEW c, NEW g, NEW h, Numbered(c, g), Moved(g, h)
  PROVE  /\ Numbered(c, h) /\ \A b : Batch(h, b) = Batch(g, b)
         /\ OneByOne(c, g) => OneByOne(c, h)
         /\ \A st, reps, fin, add : Statuses(g, st, reps, fin, add) => Statuses(h, st, reps, fin, add)
         /\ \A fin, add, reps : Ended(g, fin, add, reps) => Ended(h, fin, add, reps)
         /\ \A fin, add : Alone(c, g, fin, add) => Alone(c, h, fin, add)
         /\ \A x, s : FailedIn(g, x, s) => FailedIn(h, x, s)
<1>1. /\ Numbered(c, h) /\ \A b : Batch(h, b) = Batch(g, b)
  BY SameBatchesFacts DEF Moved
<1>2. h.n = g.n /\ h.kind = g.kind /\ h.first = g.first /\ h.at = g.at
  BY DEF Moved, SameBatches
<1>3. \A b \in 1..g.n : h.phase[b] = "delivered" <=> g.phase[b] = "delivered"
  BY DEF Moved
<1>4. OneByOne(c, g) => OneByOne(c, h)
  BY <1>2, <1>3 DEF OneByOne
<1>5. \A st, reps, fin, add : Statuses(g, st, reps, fin, add) => Statuses(h, st, reps, fin, add)
  <2> TAKE st, reps, fin, add
  <2> QED BY <1>2, <1>3 DEF Statuses
<1>6. \A fin, add, reps : Ended(g, fin, add, reps) => Ended(h, fin, add, reps)
  <2> SUFFICES ASSUME NEW fin, NEW add, NEW reps, Ended(g, fin, add, reps)
               PROVE  Ended(h, fin, add, reps)
    OBVIOUS
  <2>1. \A b \in 1..g.n :
          (/\ g.first[b - 1] < add /\ add <= g.first[b] /\ g.phase[b] = "delivered")
          <=> (/\ h.first[b - 1] < add /\ add <= h.first[b] /\ h.phase[b] = "delivered")
    BY <1>2, <1>3
  <2>2. (\E b \in 1..g.n : /\ g.first[b - 1] < add /\ add <= g.first[b]
                           /\ g.phase[b] = "delivered")
        <=> (\E b \in 1..h.n : /\ h.first[b - 1] < add /\ add <= h.first[b]
                               /\ h.phase[b] = "delivered")
    BY <1>2, <2>1
  <2> QED BY <1>2, <2>2 DEF Ended
<1>7. \A fin, add : Alone(c, g, fin, add) => Alone(c, h, fin, add)
  BY <1>2 DEF Alone
<1>8. \A x, s : FailedIn(g, x, s) => FailedIn(h, x, s)
  BY <1>1, <1>2 DEF FailedIn
<1> QED BY <1>1, <1>4, <1>5, <1>6, <1>7, <1>8

LEMMA MovedHolds ==
  ASSUME NEW c, NEW g, NEW h, NEW reqs, NEW ids, NEW bats, NEW add, NEW waits,
         Holds(c, g, reqs, ids, bats, add, waits), Moved(g, h), NEW to, Sent(c, h, to),
         h.taken + Len(to) = g.taken + Len(reqs)
  PROVE  Holds(c, h, to, ids, bats, add, waits)
<1>1. Posted(c, g, reqs, ids) /\ Numbered(c, g)
  BY DEF Holds, Posted
<1>2. /\ Numbered(c, h) /\ \A b : Batch(h, b) = Batch(g, b)
  BY <1>1, MovedFacts
<1>3. h.n = g.n /\ h.kind = g.kind /\ h.first = g.first /\ h.at = g.at
  BY DEF Moved, SameBatches
<1>4. \A b \in 1..g.n : h.phase[b] = "delivered" <=> g.phase[b] = "delivered"
  BY DEF Moved
<1>5. Posted(c, h, to, ids)
  BY <1>1, <1>2, <1>3, <1>4 DEF Posted
<1>6. \A b \in 1..h.n : bats[b] = IF h.phase[b] = "delivered" THEN << >> ELSE Batch(h, b)
  <2> TAKE b \in 1..h.n
  <2>1. b \in 1..g.n /\ (h.phase[b] = "delivered" <=> g.phase[b] = "delivered")
    BY <1>3, <1>4
  <2> QED BY <1>2, <2>1 DEF Holds
<1> QED BY <1>3, <1>5, <1>6 DEF Holds

LEMMA Moves ==
  ASSUME NEW c, NEW g, Way(c, g), NEW h, Moved(g, h), Phased(h), SameContext(c),
         platform' = platform, Sent(c, h, requests'[c]),
         h.taken + Len(requests'[c]) = g.taken + Len(requests[c]),
         Collected(c, h, batchmap'), Queued(c, h, platform, queue'),
         Executing(c, h, platform, executing'),
         Answered(h, platform, answers'[c], status[c] = "gone"),
         Ordered(c, h, platform, executing', executed'[c]),
         status[c] = "gone" => answers'[c] = answers[c],
         There(c, g) /\ status[c] # "gone" =>
           Recovered(c, g, added[c], reports[c], unrecovered'[c], answers'[c], executing')
  PROVE  Way(c, h)'
<1>1. Numbered(c, g) /\ Numbered(c, h) /\ OneByOne(c, h)
      /\ Statuses(h, status[c], reports[c], finalized[c], added[c])
  BY MovedFacts DEF Way
<1>2. ASSUME There(c, g), status[c] # "gone" PROVE There(c, h)'
  <2>1. Holds(c, h, requests'[c], aqcbmap[c], batches[c], added[c], executes[c])
    BY <1>2, MovedHolds DEF There
  <2>2. Ended(h, finalized[c], added[c], reports[c]) /\ Alone(c, h, finalized[c], added[c])
    BY <1>1, <1>2, MovedFacts DEF There
  <2>3. Recovered(c, h, added[c], reports[c], unrecovered'[c], answers'[c], executing')
    <3>1. Recovered(c, g, added[c], reports[c], unrecovered'[c], answers'[c], executing')
      BY <1>2
    <3>2. \A x, s : FailedIn(g, x, s) => FailedIn(h, x, s)
      BY <1>1, MovedFacts
    <3>3. h.kind = g.kind
      BY DEF Moved, SameBatches
    <3> QED BY <3>1, <3>2, <3>3 DEF Recovered
  <2> QED BY <2>1, <2>2, <2>3 DEF There, SameContext
<1>3. Left(c) /\ status[c] = "gone" => Left(c)'
  BY DEF Left, SameContext
<1> QED BY <1>1, <1>2, <1>3 DEF Way, SameContext

\* Batch b of g has come to this phase.
LEMMA MovesOn ==
  ASSUME NEW c \in Contexts, NEW g, Numbered(c, g), Phased(g), NEW b \in 1..g.n,
         g.phase[b] \notin {"sent", "delivered"},
         NEW phase \in Phases, phase \notin {"sent", "delivered"}
  PROVE  /\ Moved(g, InPhase(g, b, phase)) /\ Phased(InPhase(g, b, phase))
         /\ InPhase(g, b, phase).taken = g.taken /\ InPhase(g, b, phase).phase[b] = phase
         /\ \A a \in 1..g.n : a # b => InPhase(g, b, phase).phase[a] = g.phase[a]
         /\ \A other : other # g.phase[b] /\ other # phase => Agrees(g, InPhase(g, b, phase), other)
         /\ \A bmap : Collected(c, g, bmap) => Collected(c, InPhase(g, b, phase), bmap)
         /\ \A reqs : Sent(c, g, reqs) => Sent(c, InPhase(g, b, phase), reqs)
<1> DEFINE h == InPhase(g, b, phase)
<1>0. b \in Nat /\ g.n \in Nat
  <2>1. g.n \in Nat
    BY BatchFacts
  <2> QED BY <2>1
<1>1. /\ SameBatches(g, h) /\ h.taken = g.taken /\ h.phase[b] = phase
      /\ \A a \in Nat : a # b => h.phase[a] = g.phase[a]
  BY <1>0, InPhaseFacts
<1> HIDE DEF h
<1>2. /\ Numbered(c, h) /\ \A a : Batch(h, a) = Batch(g, a)
      /\ \A msg, k : IsMessage(c, g, msg, k) => IsMessage(c, h, msg, k)
  BY <1>1, SameBatchesFacts
<1>3. h.n = g.n /\ h.kind = g.kind /\ h.first = g.first /\ h.at = g.at
  BY <1>1 DEF SameBatches
<1>4. \A a \in 1..g.n : a # b => h.phase[a] = g.phase[a]
  BY <1>0, <1>1
<1>5. Moved(g, h)
  BY <1>1, <1>4 DEF Moved
<1>6. Phased(h)
  <2>1. \A a \in 1..h.n : h.phase[a] = "sent" <=> h.taken < h.at[a]
    BY <1>1, <1>3, <1>4 DEF Phased
  <2>2. \A a \in Nat : a > h.n => h.phase[a] = "sent"
    <3> TAKE a \in Nat
    <3>1. a > g.n => a # b
      BY <1>0
    <3> QED BY <1>1, <1>3, <3>1 DEF Phased
  <2> QED BY <1>1, <1>3, <2>1, <2>2 DEF Phased
<1>7. ASSUME NEW other, other # g.phase[b], other # phase PROVE Agrees(g, h, other)
  BY <1>1, <1>2, <1>3, <1>4, <1>7 DEF Agrees
<1>8. \A bmap : Collected(c, g, bmap) => Collected(c, h, bmap)
  BY <1>1, <1>2, <1>3 DEF Collected
<1>9. \A reqs : Sent(c, g, reqs) => Sent(c, h, reqs)
  BY <1>1, <1>2 DEF Sent
<1> QED BY <1>1, <1>4, <1>5, <1>6, <1>7, <1>8, <1>9 DEF h

-----------------------------------------------------------------------------
(* TakeFromQueue. *)

\* No statement of d is executed before or after the step.
LEMMA NoneOfIts ==
  ASSUME NEW d, NEW g, NEW p, NEW ex, NEW now, \A x \in ex : x.to # d, \A x \in now : x.to # d
  PROVE  /\ Executing(d, g, p, ex) => Executing(d, g, p, now)
         /\ \A done : Ordered(d, g, p, ex, done) => Ordered(d, g, p, now, done)
<1>1. Executing(d, g, p, ex) => Executing(d, g, p, now)
  BY DEF Executing
<1>2. ASSUME NEW done, NEW k, OrderedTo(d, g, ex, done, k) PROVE OrderedTo(d, g, now, done, k)
  <2>1. Len(done) = g.first[k]
    BY <1>2 DEF OrderedTo
  <2> QED BY <1>2, <2>1 DEF OrderedTo
<1>3. \A done : Ordered(d, g, p, ex, done) => Ordered(d, g, p, now, done)
  BY <1>2 DEF Ordered
<1> QED BY <1>1, <1>3

\* A batch that is taken from the queue is the next one of its context.
LEMMA NextInOrder ==
  ASSUME NEW c \in Contexts, NEW g, Numbered(c, g), Phased(g), OneByOne(c, g),
         NEW p \in Platforms, NEW q, Queued(c, g, p, q), Executing(c, g, p, {}),
         NEW i \in 1..Len(q), p = "android" => i = 1, q[i].to = c,
         NEW b \in 1..g.n, q[i].cbid = g.at[b], g.phase[b] = "queued",
         NEW done, NEW k \in 0..g.n, OrderedTo(c, g, {}, done, k), c \notin Chunking \/ p = "android"
  PROVE  b = k + 1
<1>1. g.n \in Nat /\ k \in Nat /\ b \in Nat
  <2>1. g.n \in Nat
    BY BatchFacts
  <2> QED BY <2>1
<1>2. ~(b <= k)
  BY DEF OrderedTo
<1>3. SUFFICES ASSUME b # k + 1 PROVE FALSE
  OBVIOUS
<1> DEFINE a == k + 1
<1>4. a \in 1..g.n /\ a < b /\ ~(a <= k)
  BY <1>1, <1>2, <1>3
<1> HIDE DEF a
<1>5. g.phase[a] \notin {"answered", "delivered"}
  BY <1>4 DEF OrderedTo
<1>6. g.phase[a] # "executing"
  BY <1>4 DEF Executing
<1>7. g.at[a] < g.at[b] /\ g.at[a] \in Nat /\ g.at[b] \in Nat /\ g.taken \in Nat
  <2>1. a \in 0..g.n /\ b \in 0..g.n
    BY <1>1, <1>4
  <2>2. g.taken \in Nat
    BY HistoryTypes DEF Numbered
  <2> QED BY <1>4, <2>1, <2>2, Order
<1>8. g.phase[a] # "sent"
  <2>1. ~(g.taken < g.at[b])
    BY DEF Phased
  <2>2. ~(g.taken < g.at[a])
    BY <1>7, <2>1
  <2> QED BY <1>4, <2>2 DEF Phased
<1>9. g.phase[a] = "queued"
  <2>1. g.phase[a] \in Phases
    <3>1. a \in Nat
      BY <1>4
    <3> QED BY <3>1, HistoryTypes DEF Numbered
  <2> QED BY <1>5, <1>6, <1>8, <2>1 DEF Phases
<1>10. PICK j \in 1..Len(q) : q[j].to = c /\ q[j].cbid = g.at[a]
  BY <1>4, <1>9 DEF Queued
<1>11. p = "android"
  <2>1. c \notin Chunking => a = g.n
    BY <1>4, <1>9 DEF OneByOne
  <2>2. a # g.n
    BY <1>1, <1>4
  <2> QED BY <2>1, <2>2
<1>12. i < j \/ i = j
  BY <1>11
<1>13. i < j => q[i].cbid < q[j].cbid
  BY <1>10 DEF Queued
<1> QED BY <1>7, <1>10, <1>12, <1>13

\* The queue without the entry of batch b.
LEMMA QueuedTaken ==
  ASSUME NEW c \in Contexts, NEW g, Numbered(c, g), NEW h, SameBatches(g, h), NEW p,
         NEW q \in Seq(Jobs), NEW r \in Seq(Jobs), NEW k \in 1..Len(q),
         Without(r, q, k), Queued(c, g, p, q), q[k].to = c,
         NEW b \in 1..g.n, q[k].cbid = g.at[b], h.phase[b] # "queued",
         \A a \in 1..g.n : a # b => h.phase[a] = g.phase[a]
  PROVE  Queued(c, h, p, r)
<1> DEFINE n == Len(q)
           m == Len(r)
           old(i) == IF i < k THEN i ELSE i + 1
<1>1. n \in Nat /\ m \in Nat /\ m + 1 = n
  BY DEF Without
<1>2. ASSUME NEW i \in 1..m PROVE old(i) \in 1..n /\ r[i] = q[old(i)] /\ old(i) # k
  BY <1>1 DEF Without
<1>3. \A i, j \in 1..m : i < j => old(i) < old(j)
  BY <1>1
<1>4. ASSUME NEW j \in 1..n, j # k PROVE \E i \in 1..m : old(i) = j
  <2>1. CASE j < k
    <3>1. j \in 1..m /\ old(j) = j
      BY <1>1, <2>1
    <3> QED BY <3>1
  <2>2. CASE ~(j < k)
    <3>1. j - 1 \in 1..m /\ old(j - 1) = j
      BY <1>1, <1>4, <2>2
    <3> QED BY <3>1
  <2> QED BY <2>1, <2>2
<1> HIDE DEF old, n, m
<1>5. /\ h.n = g.n /\ h.at = g.at /\ \A a : Batch(h, a) = Batch(g, a)
  <2>1. \A a : Batch(h, a) = Batch(g, a)
    BY SameBatchesFacts
  <2> QED BY <2>1 DEF SameBatches
<1>6. ASSUME NEW i \in 1..m, r[i].to = c
      PROVE  \E a \in 1..h.n : IsBatch(c, h, p, r[i], a) /\ h.phase[a] = "queued" /\ r[i].outcomes = << >>
  <2> DEFINE j == old(i)
  <2>1. j \in 1..n /\ r[i] = q[j] /\ j # k
    BY <1>2
  <2> HIDE DEF j
  <2>2. PICK a \in 1..g.n : IsBatch(c, g, p, q[j], a) /\ g.phase[a] = "queued" /\ q[j].outcomes = << >>
    BY <1>6, <2>1 DEF Queued, n
  <2>3. a # b
    <3>1. (j < k => q[j].cbid < q[k].cbid) /\ (k < j => q[k].cbid < q[j].cbid)
      BY <1>6, <2>1 DEF Queued, n
    <3>2. j < k \/ k < j
      BY <1>1, <2>1
    <3>3. g.at[b] \in Nat
      BY BatchFacts
    <3>4. q[j].cbid = g.at[a]
      BY <2>2 DEF IsBatch, HasResults
    <3> QED BY <3>1, <3>2, <3>3, <3>4
  <2>4. h.phase[a] = "queued"
    BY <2>2, <2>3
  <2>5. IsBatch(c, h, p, q[j], a)
    BY <1>5, <2>2 DEF IsBatch, HasResults, StillToDo
  <2> QED BY <1>5, <2>1, <2>2, <2>4, <2>5
<1>7. \A i, j \in 1..m : i < j /\ r[i].to = c /\ r[j].to = c => r[i].cbid < r[j].cbid
  <2> TAKE i, j \in 1..m
  <2> DEFINE x == old(i)
             y == old(j)
  <2>1. /\ x \in 1..n /\ r[i] = q[x] /\ y \in 1..n /\ r[j] = q[y]
        /\ i < j => x < y
    BY <1>2, <1>3
  <2> HIDE DEF x, y
  <2> QED BY <2>1, SMTT(20) DEF Queued, n
<1>8. ASSUME NEW a \in 1..h.n, h.phase[a] = "queued"
      PROVE  \E i \in 1..m : r[i].to = c /\ r[i].cbid = h.at[a]
  <2>1. a \in 1..g.n /\ a # b /\ g.phase[a] = "queued"
    BY <1>5, <1>8
  <2>2. PICK j \in 1..n : q[j].to = c /\ q[j].cbid = g.at[a]
    BY <2>1 DEF Queued, n
  <2>3. j # k
    BY <2>1, <2>2, AtIsOne
  <2> QED BY <1>2, <1>4, <1>5, <2>2, <2>3
<1> QED BY <1>6, <1>7, <1>8 DEF Queued, m

\* Only batch b of c is executed.
LEMMA IsExecuted ==
  ASSUME NEW c \in Contexts, NEW g, Numbered(c, g), NEW p, NEW x, x.to = c,
         NEW b \in 1..g.n, IsBatch(c, g, p, x, b), g.phase[b] = "executing",
         \A a \in 1..g.n : g.phase[a] = "executing" => a = b
  PROVE  Executing(c, g, p, {x})
<1>1. x.cbid = g.at[b]
  BY DEF IsBatch, HasResults
<1> QED BY <1>1 DEF Executing

LEMMA TakeFromQueueStep ==
  ASSUME IInv, TakeFromQueue
  PROVE  IInv'
<1>1. Types /\ \A c \in Contexts : \E g : Way(c, g)
  BY DEF IInv
<1>2. PICK k \in DOMAIN queue : /\ platform = "android" => k = 1
                                /\ executing' = {queue[k]}
                                /\ queue' = RemoveAt(queue, k)
  BY DEF TakeFromQueue
<1>3. /\ executing = {}
      /\ UNCHANGED <<platform, txVars, aqcbmap, requests, answers, batchmap, executed>>
  BY DEF TakeFromQueue
<1>4. /\ k \in 1..Len(queue) /\ queue \in Seq(Jobs) /\ queue[k] \in Jobs
      /\ queue' \in Seq(Jobs) /\ Without(queue', queue, k) /\ platform \in Platforms
  <2> DEFINE V == Jobs
  <2> HIDE DEF V
  <2>1. queue \in Seq(V) /\ platform \in Platforms
    BY <1>1 DEF Types, V
  <2>2. k \in 1..Len(queue) /\ queue[k] \in V
    BY <2>1
  <2>3. queue' \in Seq(V) /\ Without(queue', queue, k)
    BY <1>2, <2>1, <2>2, RemoveAtFacts
  <2> QED BY <2>1, <2>2, <2>3 DEF V
<1>0. PICK x : x = queue[k]
  OBVIOUS
<1>5. x \in Jobs /\ executing' = {x} /\ x.to \in Contexts
  BY <1>0, <1>2, <1>4 DEF Jobs
<1>6. Types'
  <2>1. executing' = {} \/ \E y \in Jobs : executing' = {y}
    BY <1>5
  <2> QED BY <1>1, <1>3, <1>4, <2>1 DEF Types, JsFunctions, OnContexts, txVars
<1>7. ASSUME NEW d \in Contexts
      PROVE  /\ SameContext(d) /\ requests'[d] = requests[d] /\ answers'[d] = answers[d]
             /\ unrecovered'[d] = unrecovered[d] /\ executed'[d] = executed[d] /\ platform' = platform
             /\ batchmap' = batchmap
  BY <1>3 DEF SameContext, txVars
<1>8. ASSUME NEW d \in Contexts, d # x.to PROVE \E g : Way(d, g)'
  <2>1. PICK g : Way(d, g)
    BY <1>1
  <2>2. Queued(d, g, platform, queue')
    BY <1>0, <1>4, <1>8, <2>1, QueuedWithout DEF Way
  <2>3. Executing(d, g, platform, executing') /\ Ordered(d, g, platform, executing', executed[d])
    <3>1. (\A y \in executing : y.to # d) /\ (\A y \in executing' : y.to # d)
      BY <1>3, <1>5, <1>8
    <3>2. Executing(d, g, platform, executing) /\ Ordered(d, g, platform, executing, executed[d])
      BY <2>1 DEF Way
    <3> QED BY <3>1, <3>2, NoneOfIts
  <2>4. Way(d, g)'
    <3>1. Collected(d, g, batchmap') /\ \A y \in executing : y.to = d => y \in executing'
      BY <1>3, <2>1 DEF Way
    <3> QED BY <1>7, <2>1, <2>2, <2>3, <3>1, Frame
  <2> QED BY <2>4
<1>9. ASSUME NEW c \in Contexts, c = x.to PROVE \E g : Way(c, g)'
  <2>0. c \in Contexts /\ x.to = c
    BY <1>9
  <2>1. PICK g : Way(c, g)
    BY <1>1, <2>0
  <2>2. /\ Numbered(c, g) /\ Phased(g) /\ Sent(c, g, requests[c]) /\ OneByOne(c, g)
        /\ Collected(c, g, batchmap) /\ Queued(c, g, platform, queue)
        /\ Executing(c, g, platform, {}) /\ Answered(g, platform, answers[c], status[c] = "gone")
        /\ Ordered(c, g, platform, {}, executed[c])
    BY <1>3, <2>1 DEF Way
  <2>3. PICK b \in 1..g.n : IsBatch(c, g, platform, x, b) /\ g.phase[b] = "queued" /\ x.outcomes = << >>
    BY <1>0, <1>4, <2>0, <2>2 DEF Queued
  <2>4. x.cbid = g.at[b]
    BY <2>3 DEF IsBatch, HasResults
  <2> DEFINE h == InPhase(g, b, "executing")
  <2> HIDE DEF h
  <2>5. /\ Moved(g, h) /\ Phased(h) /\ h.taken = g.taken /\ h.phase[b] = "executing"
        /\ \A a \in 1..g.n : a # b => h.phase[a] = g.phase[a]
        /\ Agrees(g, h, "answered") /\ Collected(c, h, batchmap) /\ Sent(c, h, requests[c])
    <3>1. "executing" \in Phases /\ "executing" \notin {"sent", "delivered"}
          /\ g.phase[b] \notin {"sent", "delivered"} /\ "answered" # g.phase[b]
      BY <2>3 DEF Phases
    <3> QED BY <2>0, <2>2, <3>1, MovesOn DEF h
  <2>6. Numbered(c, h) /\ SameBatches(g, h) /\ h.n = g.n /\ h.at = g.at /\ h.first = g.first
        /\ \A a : Batch(h, a) = Batch(g, a)
    BY <2>2, <2>5, MovedFacts DEF Moved, SameBatches
  <2>7. Queued(c, h, platform, queue')
    BY <1>0, <1>4, <2>0, <2>2, <2>4, <2>5, <2>6, QueuedTaken
  <2>8. Executing(c, h, platform, {x})
    <3>1. IsBatch(c, h, platform, x, b)
      BY <2>3, <2>6 DEF IsBatch, HasResults, StillToDo
    <3>2. \A a \in 1..h.n : h.phase[a] = "executing" => a = b
      BY <2>2, <2>5, <2>6 DEF Executing
    <3> QED BY <2>0, <2>5, <2>6, <3>1, <3>2, IsExecuted
  <2>9. Answered(h, platform, answers[c], status[c] = "gone")
    BY <2>2, <2>5, AnsweredAgrees
  <2>10. Ordered(c, h, platform, {x}, executed[c])
    <3>1. SUFFICES ASSUME c \notin Chunking \/ platform = "android"
                   PROVE  \E i \in 0..h.n : OrderedTo(c, h, {x}, executed[c], i)
      BY <2>2 DEF Ordered
    <3>2. PICK i \in 0..g.n : OrderedTo(c, g, {}, executed[c], i)
      BY <2>2, <3>1 DEF Ordered
    <3>3. b = i + 1
      BY <1>0, <1>2, <1>4, <2>0, <2>2, <2>3, <2>4, <3>1, <3>2, NextInOrder
    <3>4. Len(executed[c]) = g.first[i] + Len(x.outcomes)
      <4>1. Len(executed[c]) = g.first[i]
        BY <3>2 DEF OrderedTo
      <4>2. Len(x.outcomes) = 0 /\ g.first[i] \in Nat
        BY <2>0, <2>2, <2>3, Order
      <4> QED BY <4>1, <4>2
    <3>5. \A a \in 1..h.n : a <= i <=> h.phase[a] \in {"answered", "delivered"}
      <4> TAKE a \in 1..h.n
      <4>1. a <= i <=> g.phase[a] \in {"answered", "delivered"}
        BY <2>6, <3>2 DEF OrderedTo
      <4> QED BY <2>3, <2>5, <2>6, <4>1
    <3>6. \A a \in 1..h.n : h.phase[a] = "executing" => a = i + 1
      BY <2>5, <2>6, <3>2, <3>3 DEF OrderedTo
    <3>7. OrderedTo(c, h, {x}, executed[c], i)
      BY <2>0, <2>6, <3>2, <3>4, <3>5, <3>6 DEF OrderedTo
    <3> QED BY <2>6, <3>7
  <2>11. There(c, g) => Recovered(c, g, added[c], reports[c], unrecovered[c], answers[c], {x})
    <3>1. There(c, g) => Recovered(c, g, added[c], reports[c], unrecovered[c], answers[c], {})
      BY <1>3 DEF There
    <3> QED BY <3>1 DEF Recovered
  <2>12. Way(c, h)'
    <3>1. /\ SameContext(c) /\ requests'[c] = requests[c] /\ answers'[c] = answers[c]
          /\ unrecovered'[c] = unrecovered[c] /\ executed'[c] = executed[c] /\ platform' = platform
          /\ batchmap' = batchmap
      BY <1>7, <2>0
    <3>2. /\ Sent(c, h, requests'[c])
          /\ h.taken + Len(requests'[c]) = g.taken + Len(requests[c])
          /\ Collected(c, h, batchmap') /\ Executing(c, h, platform, executing')
          /\ Answered(h, platform, answers'[c], status[c] = "gone")
          /\ Ordered(c, h, platform, executing', executed'[c])
          /\ There(c, g) =>
               Recovered(c, g, added[c], reports[c], unrecovered'[c], answers'[c], executing')
      BY <1>5, <2>5, <2>8, <2>9, <2>10, <2>11, <3>1
    <3> QED BY <2>1, <2>5, <2>7, <3>1, <3>2, Moves
  <2> QED BY <2>12
<1> QED BY <1>6, <1>8, <1>9 DEF IInv

-----------------------------------------------------------------------------
(* ExecuteStatement. *)

\* No statement fails behind its first row.
NoLateFailures == ~LateFailures

LEMMA ResultFacts ==
  ASSUME NEW x \in Jobs, NEW o \in Endings, x.todo # << >>
  PROVE  /\ Result(x, o) \in Jobs /\ Result(x, o).to = x.to /\ Result(x, o).cbid = x.cbid
         /\ Result(x, o).todo = Tail(x.todo)
         /\ Result(x, o).results = x.results \o Encode(o, platform)
         /\ Result(x, o).outcomes = Append(x.outcomes, o)
<1> DEFINE e == Encode(o, platform)
           todo == Tail(x.todo)
           results == x.results \o e
           outcomes == Append(x.outcomes, o)
<1>1. /\ x.to \in Contexts /\ x.cbid \in Nat /\ x.todo \in Seq(Owned) /\ x.results \in Seq(Words)
      /\ x.outcomes \in Seq(Endings)
      /\ x = [to |-> x.to, cbid |-> x.cbid, todo |-> x.todo, results |-> x.results,
              outcomes |-> x.outcomes]
  BY DEF Jobs
<1>2. e \in Seq(Words)
  BY EncodeFacts
<1> HIDE DEF e
<1>3. todo \in Seq(Owned)
  <2> DEFINE V == Owned
  <2> HIDE DEF V
  <2>1. x.todo \in Seq(V)
    BY <1>1 DEF V
  <2>2. todo \in Seq(V)
    BY <2>1, HeadTailProperties
  <2> QED BY <2>2 DEF V
<1>4. results \in Seq(Words)
  BY <1>1, <1>2, ConcatProperties
<1>5. outcomes \in Seq(Endings)
  <2> DEFINE V == Endings
  <2> HIDE DEF V
  <2>1. x.outcomes \in Seq(V) /\ o \in V
    BY <1>1 DEF V
  <2>2. outcomes \in Seq(V)
    BY <2>1, Appended
  <2> QED BY <2>2 DEF V
<1> DEFINE y == [to |-> x.to, cbid |-> x.cbid, todo |-> todo, results |-> results, outcomes |-> outcomes]
<1>6. Result(x, o) = y
  <2>1. Result(x, o) = [x EXCEPT !.todo = Tail(@), !.results = @ \o e, !.outcomes = Append(@, o)]
    BY DEF Result, e
  <2> QED BY <1>1, <2>1
<1> HIDE DEF todo, results, outcomes
<1>7. /\ y.to = x.to /\ y.cbid = x.cbid /\ y.todo = todo /\ y.results = results /\ y.outcomes = outcomes
      /\ y \in Jobs
  BY <1>1, <1>3, <1>4, <1>5 DEF Jobs
<1> QED BY <1>6, <1>7 DEF todo, results, outcomes, e

LEMMA OutcomesAreEndings ==
  ASSUME NoLateFailures, NEW s
  PROVE  Outcomes(s) \subseteq Endings
<1>1. <<"rows", 1>> \in {"rows"} \X Nat
  OBVIOUS
<1> QED BY <1>1 DEF Outcomes, Endings, NoLateFailures

\* An outcome is added to what is executed of batch b.
LEMMA OrderedNext ==
  ASSUME NEW c \in Contexts, NEW g, Numbered(c, g), NEW p, NEW x, x.to = c, NEW y, y.to = c,
         NEW b \in 1..g.n, g.phase[b] = "executing", NEW done, Ordered(c, g, p, {x}, done),
         Len(x.outcomes) \in Nat, Len(x.outcomes) < Len(Batch(g, b)),
         Len(y.outcomes) = Len(x.outcomes) + 1,
         NEW now, now = Append(done, Batch(g, b)[Len(x.outcomes) + 1])
  PROVE  Ordered(c, g, p, {y}, now)
<1> DEFINE j == Len(x.outcomes) + 1
           size == Len(Batch(g, b))
           s == Batch(g, b)[j]
           f == g.first[b - 1]
           m == Len(done)
<1>1. /\ b - 1 \in 0..g.n /\ g.n \in Nat /\ f \in Nat /\ Batch(g, b) \in Seq(Sql) /\ size \in Nat
      /\ \A i \in 1..size : Batch(g, b)[i] = <<f + i, g.kind[f + i]>>
  <2>1. /\ b - 1 \in 0..g.n /\ g.n \in Nat /\ f \in Nat /\ Batch(g, b) \in Seq(Sql)
        /\ \A i \in 1..size : Batch(g, b)[i] = <<f + i, g.kind[f + i]>>
    BY BatchFacts
  <2>2. size \in Nat
    BY <2>1
  <2> QED BY <2>1, <2>2
<1>2. j \in 1..size
  <2> HIDE DEF size
  <2>1. Len(x.outcomes) < size
    BY DEF size
  <2> QED BY <1>1, <2>1
<1> HIDE DEF j, size
<1>3. s \in Sql /\ s[1] = f + j
  <2>1. s = <<f + j, g.kind[f + j]>>
    BY <1>1, <1>2
  <2>2. s \in Sql
    BY <1>1, <1>2 DEF size
  <2> QED BY <2>1, <2>2
<1> HIDE DEF s
<1>4. /\ done \in Seq(Sql) /\ now \in Seq(Sql) /\ m \in Nat /\ Len(now) = m + 1 /\ now[m + 1] = s
      /\ \A i \in 1..m : now[i] = done[i]
  <2> DEFINE V == Sql
  <2> HIDE DEF V
  <2>1. done \in Seq(V) /\ s \in V /\ now = Append(done, s)
    BY <1>3 DEF Ordered, V, s, j
  <2>2. /\ Append(done, s) \in Seq(V) /\ Len(done) \in Nat /\ Len(Append(done, s)) = Len(done) + 1
        /\ Append(done, s)[Len(done) + 1] = s /\ \A i \in 1..Len(done) : Append(done, s)[i] = done[i]
    BY <2>1, Appended
  <2> QED BY <2>1, <2>2 DEF V
<1> HIDE DEF m
<1>5. ASSUME NEW k \in 0..g.n, OrderedTo(c, g, {x}, done, k) PROVE OrderedTo(c, g, {y}, now, k)
  <2>1. b = k + 1 /\ m = g.first[k] + Len(x.outcomes) /\ \A i \in 1..m : done[i][1] = i
    BY <1>5 DEF OrderedTo, m
  <2>2. g.first[k] = f
    <3>1. b - 1 = k
      BY <1>1, <2>1
    <3> QED BY <3>1
  <2> HIDE DEF f
  <2>3. Len(now) = g.first[k] + Len(y.outcomes)
    BY <1>1, <1>4, <2>1, <2>2
  <2>4. s[1] = m + 1
    BY <1>1, <1>3, <2>1, <2>2 DEF j
  <2>5. \A i \in 1..Len(now) : now[i][1] = i
    <3> TAKE i \in 1..Len(now)
    <3>1. i \in 1..m \/ i = m + 1
      BY <1>4
    <3> QED BY <1>4, <2>1, <2>4, <3>1
  <2> QED BY <1>5, <2>3, <2>5 DEF OrderedTo
<1> QED BY <1>4, <1>5 DEF Ordered

LEMMA ExecuteStatementStep ==
  ASSUME IInv, ExecuteStatement, NoLateFailures
  PROVE  IInv'
<1>1. Types /\ \A c \in Contexts : \E g : Way(c, g)
  BY DEF IInv
<1>2. PICK x \in executing :
        /\ x.todo # << >>
        /\ LET c == Head(x.todo)[1] sql == Tail(Head(x.todo)) IN
             \E outcome \in Outcomes(Head(x.todo)) :
               /\ executed' = [executed EXCEPT ![c] = Append(@, sql)]
               /\ unrecovered' = [unrecovered EXCEPT ![c] =
                                    IF outcome[1] \in {"error", "late"} THEN @ \cup {sql} ELSE @]
               /\ executing' = {Result(x, outcome)}
  BY DEF ExecuteStatement
<1>3. UNCHANGED <<platform, status, users, added, executes, batches, finalized, reports,
                  aqcbmap, requests, answers, batchmap, queue>>
  BY DEF ExecuteStatement
<1>4. x \in Jobs /\ executing = {x} /\ x.to \in Contexts /\ platform \in Platforms
  BY <1>1, <1>2 DEF Types, Jobs
<1>5. PICK c \in Contexts : c = x.to
  BY <1>4
<1>6. PICK g : Way(c, g)
  BY <1>1
<1>7. /\ Numbered(c, g) /\ Phased(g) /\ Sent(c, g, requests[c]) /\ Collected(c, g, batchmap)
      /\ Queued(c, g, platform, queue) /\ Executing(c, g, platform, {x})
      /\ Answered(g, platform, answers[c], status[c] = "gone")
      /\ Ordered(c, g, platform, {x}, executed[c])
  BY <1>4, <1>6 DEF Way
<1>8. PICK b \in 1..g.n : IsBatch(c, g, platform, x, b) /\ g.phase[b] = "executing"
  BY <1>5, <1>7 DEF Executing
<1>9. /\ HasResults(g, platform, x, b) /\ x.todo = StillToDo(c, g, b, Len(x.outcomes))
      /\ Len(x.outcomes) \in Nat /\ Len(x.outcomes) <= Len(Batch(g, b)) /\ Len(Batch(g, b)) \in Nat
  <2>1. HasResults(g, platform, x, b) /\ x.todo = StillToDo(c, g, b, Len(x.outcomes))
    BY <1>8 DEF IsBatch
  <2>2. x.outcomes \in Seq(Endings) /\ Len(x.outcomes) <= Len(Batch(g, b))
    BY <2>1 DEF HasResults
  <2>3. Len(x.outcomes) \in Nat
    BY <2>2
  <2>4. Batch(g, b) \in Seq(Sql)
    BY <1>7, BatchFacts
  <2>5. Len(Batch(g, b)) \in Nat
    BY <2>4
  <2> QED BY <2>1, <2>2, <2>3, <2>5
<1>10. PICK j : j = Len(x.outcomes) + 1
  OBVIOUS
<1>11. PICK sql : sql = Batch(g, b)[j]
  OBVIOUS
<1>12. /\ Len(x.outcomes) < Len(Batch(g, b)) /\ Head(x.todo)[1] = c /\ Tail(Head(x.todo)) = sql
       /\ Tail(x.todo) = StillToDo(c, g, b, j)
  <2> DEFINE k == Len(x.outcomes)
             size == Len(Batch(g, b))
  <2>1. k \in Nat /\ k <= size /\ size \in Nat /\ x.todo = StillToDo(c, g, b, k)
    BY <1>9
  <2>2. /\ StillToDo(c, g, b, k) = << >> <=> k = size
        /\ k < size => /\ Head(StillToDo(c, g, b, k))[1] = c
                       /\ Tail(Head(StillToDo(c, g, b, k))) = Batch(g, b)[k + 1]
                       /\ Tail(StillToDo(c, g, b, k)) = StillToDo(c, g, b, k + 1)
    <3> HIDE DEF k
    <3> QED BY <1>7, <2>1, ToDo
  <2> HIDE DEF k, size
  <2>3. k # size
    BY <1>2, <2>1, <2>2
  <2>4. k < size
    BY <2>1, <2>3
  <2> QED BY <1>10, <1>11, <2>1, <2>2, <2>4 DEF k, size
<1>13. PICK o \in Outcomes(Head(x.todo)) :
         /\ executed' = [executed EXCEPT ![c] = Append(@, sql)]
         /\ unrecovered' = [unrecovered EXCEPT ![c] =
                              IF o[1] \in {"error", "late"} THEN @ \cup {sql} ELSE @]
         /\ executing' = {Result(x, o)}
  BY <1>2, <1>12
<1>14. o \in Endings
  BY OutcomesAreEndings
<1>15. PICK y : y = Result(x, o)
  OBVIOUS
<1>16. /\ y \in Jobs /\ y.to = c /\ y.cbid = x.cbid /\ y.todo = StillToDo(c, g, b, j)
       /\ y.results = x.results \o Encode(o, platform) /\ y.outcomes = Append(x.outcomes, o)
       /\ executing' = {y}
  BY <1>2, <1>4, <1>5, <1>12, <1>13, <1>14, <1>15, ResultFacts
<1>17. /\ HasResults(g, platform, y, b) /\ Len(y.outcomes) = j /\ y.outcomes[j] = o
       /\ \A i \in 1..Len(x.outcomes) : y.outcomes[i] = x.outcomes[i]
  <2>1. y.cbid = x.cbid /\ y.outcomes = Append(x.outcomes, o) /\ y.results = x.results \o Encode(o, platform)
    BY <1>16
  <2>2. HasResults(g, platform, x, b) /\ Len(Batch(g, b)) \in Nat /\ Len(x.outcomes) < Len(Batch(g, b))
    BY <1>9, <1>12
  <2>3. HasResults(g, platform, y, b) /\ OneMore(x, y, o)
    BY <1>14, <2>1, <2>2, OneMoreResult
  <2> QED BY <1>10, <2>3 DEF OneMore
<1>18. /\ OnContexts(executed') /\ executed'[c] = Append(executed[c], sql)
       /\ \A d \in Contexts : d # c => executed'[d] = executed[d]
  <2> DEFINE v == Append(executed[c], sql)
  <2>1. Changed(executed', executed, c, v)
    BY <1>13 DEF Changed
  <2> HIDE DEF v
  <2>2. OnContexts(executed') /\ executed'[c] = v /\ \A d \in Contexts : d # c => executed'[d] = executed[d]
    BY <1>1, <2>1, Excepted DEF Types
  <2> QED BY <2>2 DEF v
<1>19. /\ OnContexts(unrecovered')
       /\ unrecovered'[c] = (IF o[1] \in {"error", "late"} THEN unrecovered[c] \cup {sql} ELSE unrecovered[c])
       /\ \A d \in Contexts : d # c => unrecovered'[d] = unrecovered[d]
  <2> DEFINE v == IF o[1] \in {"error", "late"} THEN unrecovered[c] \cup {sql} ELSE unrecovered[c]
  <2>1. Changed(unrecovered', unrecovered, c, v)
    BY <1>13 DEF Changed
  <2> HIDE DEF v
  <2>2. /\ OnContexts(unrecovered') /\ unrecovered'[c] = v
        /\ \A d \in Contexts : d # c => unrecovered'[d] = unrecovered[d]
    BY <1>1, <2>1, Excepted DEF Types
  <2> QED BY <2>2 DEF v
<1>20. Types'
  <2>1. executing' = {} \/ \E z \in Jobs : executing' = {z}
    BY <1>16
  <2> QED BY <1>1, <1>3, <1>18, <1>19, <2>1 DEF Types, JsFunctions, OnContexts
<1>21. ASSUME NEW d \in Contexts
       PROVE  /\ SameContext(d) /\ requests'[d] = requests[d] /\ answers'[d] = answers[d]
              /\ platform' = platform /\ batchmap' = batchmap /\ queue' = queue
  BY <1>3 DEF SameContext
<1>22. ASSUME NEW d \in Contexts, d # c PROVE \E f : Way(d, f)'
  <2>1. PICK f : Way(d, f)
    BY <1>1
  <2>2. Collected(d, f, batchmap') /\ Queued(d, f, platform, queue')
    BY <1>21, <2>1 DEF Way
  <2>3. Executing(d, f, platform, executing') /\ Ordered(d, f, platform, executing', executed[d])
    <3>1. (\A z \in executing : z.to # d) /\ (\A z \in executing' : z.to # d)
      BY <1>4, <1>5, <1>16, <1>22
    <3>2. Executing(d, f, platform, executing) /\ Ordered(d, f, platform, executing, executed[d])
      BY <2>1 DEF Way
    <3> QED BY <3>1, <3>2, NoneOfIts
  <2>4. \A z \in executing : z.to = d => z \in executing'
    BY <1>4, <1>5, <1>22
  <2>5. unrecovered'[d] = unrecovered[d] /\ executed'[d] = executed[d]
    BY <1>18, <1>19, <1>22
  <2>6. Way(d, f)'
    BY <1>21, <2>1, <2>2, <2>3, <2>4, <2>5, Frame
  <2> QED BY <2>6
<1>23. Way(c, g)'
  <2>1. Moved(g, g)
    BY <1>7 DEF Moved, SameBatches, Numbered
  <2>2. Executing(c, g, platform, executing')
    <3>1. IsBatch(c, g, platform, y, b)
      BY <1>16, <1>17 DEF IsBatch
    <3>2. \A a \in 1..g.n : g.phase[a] = "executing" => a = b
      <4> TAKE a \in 1..g.n
      <4>1. g.phase[a] = "executing" => x.cbid = g.at[a]
        BY <1>7 DEF Executing
      <4>2. x.cbid = g.at[b]
        BY <1>9 DEF HasResults
      <4> QED BY <1>7, <4>1, <4>2, AtIsOne
    <3>3. Executing(c, g, platform, {y})
      BY <1>7, <1>8, <1>16, <3>1, <3>2, IsExecuted
    <3> QED BY <1>16, <3>3
  <2>3. Ordered(c, g, platform, executing', executed'[c])
    <3>1. executed'[c] = Append(executed[c], Batch(g, b)[Len(x.outcomes) + 1])
      BY <1>10, <1>11, <1>18
    <3>2. Ordered(c, g, platform, {y}, executed'[c])
      <4> DEFINE now == executed'[c]
                 done == executed[c]
      <4>1. now = Append(done, Batch(g, b)[Len(x.outcomes) + 1]) /\ Ordered(c, g, platform, {x}, done)
        BY <1>7, <3>1
      <4>2. Len(y.outcomes) = Len(x.outcomes) + 1 /\ x.to = c /\ y.to = c
        BY <1>5, <1>10, <1>16, <1>17
      <4> HIDE DEF now, done
      <4>3. Ordered(c, g, platform, {y}, now)
        BY <1>7, <1>8, <1>9, <1>12, <4>1, <4>2, OrderedNext
      <4> QED BY <4>3 DEF now
    <3> QED BY <1>16, <3>2
  <2>4. There(c, g) => Recovered(c, g, added[c], reports[c], unrecovered'[c], answers'[c], executing')
    <3>1. SUFFICES ASSUME There(c, g), c \notin Chunking, reports[c] # <<"error">>,
                          \A i \in 1..added[c] : g.kind[i] # "ROLLBACK", NEW s \in unrecovered'[c]
                   PROVE  \/ \E k \in 1..Len(answers[c]) : FailedIn(g, answers[c][k], s)
                          \/ \E z \in executing' : z.to = c /\ FailedIn(g, z, s)
      BY <1>21 DEF Recovered
    <3>2. CASE s \in unrecovered[c]
      <4>1. \/ \E k \in 1..Len(answers[c]) : FailedIn(g, answers[c][k], s)
            \/ FailedIn(g, x, s)
        BY <1>4, <3>1, <3>2 DEF There, Recovered
      <4>2. ASSUME FailedIn(g, x, s) PROVE FailedIn(g, y, s)
        <5>1. PICK a \in 1..g.n : \E i \in 1..Len(Batch(g, a)) :
                x.cbid = g.at[a] /\ i <= Len(x.outcomes) /\ x.outcomes[i][1] = "error" /\ s = Batch(g, a)[i]
          BY <4>2 DEF FailedIn
        <5>2. PICK i \in 1..Len(Batch(g, a)) :
                x.cbid = g.at[a] /\ i <= Len(x.outcomes) /\ x.outcomes[i][1] = "error" /\ s = Batch(g, a)[i]
          BY <5>1
        <5>3. i \in 1..Len(x.outcomes) /\ i <= Len(y.outcomes)
          BY <1>9, <1>10, <1>17, <5>2
        <5> QED BY <1>16, <1>17, <5>2, <5>3 DEF FailedIn
      <4> QED BY <1>16, <4>1, <4>2
    <3>3. CASE s \notin unrecovered[c]
      <4>1. o[1] \in {"error", "late"} /\ s = sql
        BY <1>19, <3>1, <3>3
      <4>2. o[1] = "error"
        <5>1. o[1] # "late"
          <6>1. o \in {<<"changes", 0>>, <<"changes", 1>>, <<"error", 0>>} \/ o \in {"rows"} \X Nat
            BY <1>14 DEF Endings
          <6> QED BY <6>1
        <5> QED BY <4>1, <5>1
      <4>3. y.cbid = g.at[b] /\ j \in 1..Len(Batch(g, b)) /\ j <= Len(y.outcomes)
        <5>1. y.cbid = g.at[b]
          BY <1>17 DEF HasResults
        <5>2. j \in 1..Len(Batch(g, b)) /\ j <= Len(y.outcomes)
          BY <1>9, <1>10, <1>12, <1>17
        <5> QED BY <5>1, <5>2
      <4>4. FailedIn(g, y, s)
        BY <1>11, <1>17, <4>1, <4>2, <4>3 DEF FailedIn
      <4> QED BY <1>16, <4>4
    <3> QED BY <3>2, <3>3
  <2>5. /\ SameContext(c) /\ requests'[c] = requests[c] /\ answers'[c] = answers[c]
        /\ platform' = platform /\ batchmap' = batchmap /\ queue' = queue
    BY <1>21
  <2>6. /\ Sent(c, g, requests'[c]) /\ g.taken + Len(requests'[c]) = g.taken + Len(requests[c])
        /\ Collected(c, g, batchmap') /\ Queued(c, g, platform, queue')
        /\ Answered(g, platform, answers'[c], status[c] = "gone")
    BY <1>7, <2>5
  <2> QED BY <1>6, <1>7, <2>1, <2>2, <2>3, <2>4, <2>5, <2>6, Moves
<1>24. \A d \in Contexts : \E f : Way(d, f)'
  BY <1>22, <1>23
<1> QED BY <1>20, <1>24 DEF IInv

-----------------------------------------------------------------------------
(* AnswerBatch. *)

\* All statements of batch b are executed.
LEMMA OrderedAnswered ==
  ASSUME NEW c \in Contexts, NEW g, Numbered(c, g), NEW h, SameBatches(g, h), NEW p, NEW x, x.to = c,
         NEW b \in 1..g.n, g.phase[b] = "executing", h.phase[b] = "answered",
         \A a \in 1..g.n : a # b => h.phase[a] = g.phase[a],
         \A a \in 1..g.n : g.phase[a] = "executing" => a = b,
         NEW done, Ordered(c, g, p, {x}, done), Len(x.outcomes) = Len(Batch(g, b))
  PROVE  Ordered(c, h, p, {}, done)
<1>1. h.n = g.n /\ h.first = g.first /\ g.n \in Nat /\ b \in Nat
  <2>1. g.n \in Nat
    BY BatchFacts
  <2> QED BY <2>1 DEF SameBatches
<1>2. g.first[b - 1] \in Nat /\ g.first[b] \in Nat /\ Len(x.outcomes) = g.first[b] - g.first[b - 1]
  BY BatchFacts
<1>3. ASSUME NEW k \in 0..g.n, OrderedTo(c, g, {x}, done, k) PROVE OrderedTo(c, h, {}, done, k + 1)
  <2>1. b = k + 1 /\ Len(done) = g.first[k] + Len(x.outcomes)
    BY <1>3 DEF OrderedTo
  <2>2. Len(done) = h.first[k + 1]
    <3>1. b - 1 = k
      BY <1>1, <2>1
    <3> QED BY <1>1, <1>2, <2>1, <3>1
  <2>3. \A a \in 1..h.n : a <= k + 1 <=> h.phase[a] \in {"answered", "delivered"}
    <3> TAKE a \in 1..h.n
    <3>1. a <= k <=> g.phase[a] \in {"answered", "delivered"}
      BY <1>1, <1>3 DEF OrderedTo
    <3>2. a # b => h.phase[a] = g.phase[a]
      BY <1>1
    <3>3. k \in Nat /\ a \in Nat /\ (a = b \/ (a # b /\ (a <= k + 1 <=> a <= k)))
      BY <1>1, <2>1
    <3> QED BY <2>1, <3>1, <3>2, <3>3
  <2>4. \A a \in 1..h.n : h.phase[a] # "executing"
    BY <1>1
  <2> QED BY <1>3, <2>2, <2>3, <2>4 DEF OrderedTo
<1>4. ASSUME NEW k \in 0..g.n, OrderedTo(c, g, {x}, done, k) PROVE k + 1 \in 0..h.n
  <2>1. b = k + 1
    BY <1>4 DEF OrderedTo
  <2> QED BY <1>1, <2>1
<1>5. c \notin Chunking \/ p = "android" => \E k \in 0..h.n : OrderedTo(c, h, {}, done, k)
  <2> SUFFICES ASSUME c \notin Chunking \/ p = "android"
               PROVE  \E k \in 0..h.n : OrderedTo(c, h, {}, done, k)
    OBVIOUS
  <2>1. PICK k \in 0..g.n : OrderedTo(c, g, {x}, done, k)
    BY DEF Ordered
  <2> DEFINE i == k + 1
  <2>2. i \in 0..h.n /\ OrderedTo(c, h, {}, done, i)
    BY <1>3, <1>4, <2>1
  <2> QED BY <2>2
<1> QED BY <1>5 DEF Ordered

\* The answer with the results of x.
LEMMA AnsweredAppend ==
  ASSUME NEW c \in Contexts, NEW g, Numbered(c, g), NEW h, SameBatches(g, h), NEW p,
         NEW ans \in Seq(Replies), NEW r \in Replies, NEW b \in 1..g.n, HasResults(g, p, r, b),
         g.phase[b] = "executing", h.phase[b] = "answered",
         \A a \in 1..g.n : a # b => h.phase[a] = g.phase[a],
         Len(r.outcomes) = Len(Batch(g, b)), Answered(g, p, ans, FALSE)
  PROVE  Answered(h, p, Append(ans, r), FALSE)
<1> DEFINE n == Len(ans)
           new == Append(ans, r)
<1>1. /\ Len(new) = n + 1 /\ n \in Nat /\ new[n + 1] = r /\ \A i \in 1..n : new[i] = ans[i]
  <2> DEFINE V == Replies
  <2> HIDE DEF V
  <2>1. ans \in Seq(V) /\ r \in V
    BY DEF V
  <2> QED BY <2>1, Appended
<1> HIDE DEF n, new
<1>2. /\ h.n = g.n /\ h.at = g.at /\ \A a : Batch(h, a) = Batch(g, a)
  <2>1. \A a : Batch(h, a) = Batch(g, a)
    BY SameBatchesFacts
  <2> QED BY <2>1 DEF SameBatches
<1>3. \A a, y : HasResults(g, p, y, a) => HasResults(h, p, y, a)
  BY <1>2 DEF HasResults
<1>4. r.cbid = g.at[b]
  BY DEF HasResults
<1>5. ASSUME NEW k \in 1..n
      PROVE  \E a \in 1..h.n : /\ HasResults(h, p, ans[k], a) /\ h.phase[a] = "answered"
                               /\ Len(ans[k].outcomes) = Len(Batch(h, a)) /\ ans[k].cbid # r.cbid
  <2>1. PICK a \in 1..g.n : /\ HasResults(g, p, ans[k], a) /\ g.phase[a] = "answered"
                            /\ Len(ans[k].outcomes) = Len(Batch(g, a))
    BY DEF Answered, n
  <2>2. a # b
    BY <2>1
  <2>3. ans[k].cbid # r.cbid
    <3>1. ans[k].cbid = g.at[a]
      BY <2>1 DEF HasResults
    <3> QED BY <1>4, <2>2, <3>1, AtIsOne
  <2> QED BY <1>2, <1>3, <2>1, <2>2, <2>3
<1>6. ASSUME NEW k \in 1..(n + 1)
      PROVE  \E a \in 1..h.n : /\ HasResults(h, p, new[k], a) /\ h.phase[a] = "answered"
                               /\ Len(new[k].outcomes) = Len(Batch(h, a))
  <2>1. CASE k \in 1..n
    BY <1>1, <1>5, <2>1
  <2>2. CASE k = n + 1
    BY <1>1, <1>2, <1>3, <2>2
  <2>3. k \in 1..n \/ k = n + 1
    BY <1>1
  <2> QED BY <2>1, <2>2, <2>3
<1>7. ASSUME NEW j \in 1..(n + 1), NEW k \in 1..(n + 1), j # k PROVE new[j].cbid # new[k].cbid
  <2>1. (j \in 1..n \/ j = n + 1) /\ (k \in 1..n \/ k = n + 1)
    BY <1>1
  <2>2. \A i \in 1..n : ans[i].cbid # r.cbid
    BY <1>5
  <2>3. j \in 1..n /\ k \in 1..n => ans[j].cbid # ans[k].cbid
    BY <1>7 DEF Answered, n
  <2> QED BY <1>1, <1>7, <2>1, <2>2, <2>3
<1>8. ASSUME NEW a \in 1..h.n, h.phase[a] = "answered"
      PROVE  \E k \in 1..(n + 1) : new[k].cbid = h.at[a]
  <2>1. CASE a = b
    <3>1. n + 1 \in 1..(n + 1)
      BY <1>1
    <3> QED BY <1>1, <1>2, <1>4, <2>1, <3>1
  <2>2. CASE a # b
    <3>1. a \in 1..g.n /\ g.phase[a] = "answered"
      BY <1>2, <1>8, <2>2
    <3>2. PICK k \in 1..n : ans[k].cbid = g.at[a]
      BY <3>1 DEF Answered, n
    <3>3. k \in 1..(n + 1) /\ new[k] = ans[k]
      BY <1>1
    <3> QED BY <1>2, <3>2, <3>3
  <2> QED BY <2>1, <2>2
<1> QED BY <1>1, <1>6, <1>7, <1>8 DEF Answered, new

LEMMA AnswerBatchStep ==
  ASSUME IInv, AnswerBatch
  PROVE  IInv'
<1>1. Types /\ \A c \in Contexts : \E g : Way(c, g)
  BY DEF IInv
<1>2. PICK x \in executing :
        /\ x.todo = << >> /\ executing' = {}
        /\ answers' = [c \in Contexts |->
                        IF c = x.to /\ status[c] # "gone"
                        THEN Append(answers[c], [cbid |-> x.cbid, results |-> x.results,
                                                 outcomes |-> x.outcomes])
                        ELSE answers[c]]
  BY DEF AnswerBatch
<1>3. UNCHANGED <<platform, txVars, aqcbmap, requests, batchmap, queue, executed>>
  BY DEF AnswerBatch
<1>4. x \in Jobs /\ executing = {x} /\ x.to \in Contexts
  BY <1>1, <1>2 DEF Types, Jobs
<1>5. PICK r : r = [cbid |-> x.cbid, results |-> x.results, outcomes |-> x.outcomes]
  OBVIOUS
<1>6. r \in Replies /\ r.cbid = x.cbid /\ r.results = x.results /\ r.outcomes = x.outcomes
  BY <1>4, <1>5 DEF Replies, Jobs
<1>7. PICK c \in Contexts : c = x.to
  BY <1>4
<1> DEFINE ans(d) == IF d = c /\ status[d] # "gone" THEN Append(answers[d], r) ELSE answers[d]
<1>8. answers' = [d \in Contexts |-> ans(d)]
  BY <1>2, <1>5, <1>7
<1>9. OnContexts(answers') /\ \A d \in Contexts : answers'[d] = ans(d)
  <2> HIDE DEF ans
  <2> QED BY <1>8 DEF OnContexts
<1>10. \A d \in Contexts : answers'[d] \in Seq(Replies)
  <2> TAKE d \in Contexts
  <2>1. Append(answers[d], r) \in Seq(Replies)
    <3> DEFINE V == Replies
               a == answers[d]
    <3>1. a \in Seq(V) /\ r \in V
      BY <1>1, <1>6 DEF Types
    <3> HIDE DEF V, a
    <3>2. Append(a, r) \in Seq(V)
      BY <3>1, Appended
    <3> QED BY <3>2 DEF V, a
  <2>2. answers[d] \in Seq(Replies)
    BY <1>1 DEF Types
  <2> QED BY <1>9, <2>1, <2>2
<1>11. Types'
  BY <1>1, <1>2, <1>3, <1>9, <1>10 DEF Types, JsFunctions, OnContexts, txVars
<1>12. ASSUME NEW d \in Contexts
       PROVE  /\ SameContext(d) /\ requests'[d] = requests[d] /\ unrecovered'[d] = unrecovered[d]
              /\ executed'[d] = executed[d] /\ platform' = platform
              /\ batchmap' = batchmap /\ queue' = queue
  BY <1>3 DEF SameContext, txVars
<1>13. ASSUME NEW d \in Contexts, d # c PROVE \E f : Way(d, f)'
  <2>1. PICK f : Way(d, f)
    BY <1>1
  <2>2. Collected(d, f, batchmap') /\ Queued(d, f, platform, queue')
    BY <1>12, <2>1 DEF Way
  <2>3. Executing(d, f, platform, executing') /\ Ordered(d, f, platform, executing', executed[d])
    <3>1. (\A z \in executing : z.to # d) /\ (\A z \in executing' : z.to # d)
      BY <1>2, <1>4, <1>7, <1>13
    <3>2. Executing(d, f, platform, executing) /\ Ordered(d, f, platform, executing, executed[d])
      BY <2>1 DEF Way
    <3> QED BY <3>1, <3>2, NoneOfIts
  <2>4. \A z \in executing : z.to = d => z \in executing'
    BY <1>4, <1>7, <1>13
  <2>5. answers'[d] = answers[d]
    BY <1>9, <1>13
  <2>6. Way(d, f)'
    BY <1>12, <2>1, <2>2, <2>3, <2>4, <2>5, Frame
  <2> QED BY <2>6
<1>14. \E h : Way(c, h)'
  <2>1. PICK g : Way(c, g)
    BY <1>1
  <2>2. /\ Numbered(c, g) /\ Phased(g) /\ Sent(c, g, requests[c]) /\ Collected(c, g, batchmap)
        /\ Queued(c, g, platform, queue) /\ Executing(c, g, platform, {x})
        /\ Answered(g, platform, answers[c], status[c] = "gone")
        /\ Ordered(c, g, platform, {x}, executed[c])
    BY <1>4, <2>1 DEF Way
  <2>3. PICK b \in 1..g.n : IsBatch(c, g, platform, x, b) /\ g.phase[b] = "executing"
    BY <1>7, <2>2 DEF Executing
  <2>4. HasResults(g, platform, x, b) /\ HasResults(g, platform, r, b) /\ x.cbid = g.at[b]
    BY <1>6, <2>3 DEF IsBatch, HasResults
  <2>5. Len(x.outcomes) = Len(Batch(g, b))
    <3>1. x.outcomes \in Seq(Endings) /\ Len(x.outcomes) <= Len(Batch(g, b))
          /\ StillToDo(c, g, b, Len(x.outcomes)) = << >>
      BY <1>2, <2>3 DEF IsBatch, HasResults
    <3>2. Len(x.outcomes) \in Nat
      BY <3>1
    <3> QED BY <2>2, <3>1, <3>2, ToDo
  <2>6. \A a \in 1..g.n : g.phase[a] = "executing" => a = b
    <3> TAKE a \in 1..g.n
    <3>1. g.phase[a] = "executing" => x.cbid = g.at[a]
      BY <2>2 DEF Executing
    <3> QED BY <2>2, <2>4, <3>1, AtIsOne
  <2> DEFINE h == InPhase(g, b, "answered")
  <2> HIDE DEF h
  <2>7. /\ Moved(g, h) /\ Phased(h) /\ h.taken = g.taken /\ h.phase[b] = "answered"
        /\ \A a \in 1..g.n : a # b => h.phase[a] = g.phase[a]
        /\ Agrees(g, h, "queued") /\ Collected(c, h, batchmap) /\ Sent(c, h, requests[c])
    <3>1. "answered" \in Phases /\ "answered" \notin {"sent", "delivered"}
          /\ g.phase[b] \notin {"sent", "delivered"} /\ "queued" # g.phase[b]
      BY <2>3 DEF Phases
    <3> QED BY <2>2, <3>1, MovesOn DEF h
  <2>8. SameBatches(g, h) /\ h.n = g.n
    BY <2>7 DEF Moved, SameBatches
  <2>9. Queued(c, h, platform, queue')
    BY <1>12, <2>2, <2>7, QueuedAgrees
  <2>10. Executing(c, h, platform, executing')
    <3>1. \A a \in 1..h.n : h.phase[a] # "executing"
      BY <2>6, <2>7, <2>8
    <3> QED BY <1>2, <3>1 DEF Executing
  <2>11. Answered(h, platform, answers'[c], status[c] = "gone")
    <3>1. CASE status[c] = "gone"
      <4>1. answers[c] = << >>
        BY <2>1, <3>1 DEF Way, Left
      <4>2. answers'[c] = << >> /\ Len(<< >>) = 0
        BY <1>9, <3>1, <4>1
      <4> QED BY <3>1, <4>2 DEF Answered
    <3>2. CASE status[c] # "gone"
      <4>1. answers'[c] = Append(answers[c], r) /\ (status[c] = "gone") = FALSE
        BY <1>9, <3>2
      <4>2. Answered(g, platform, answers[c], FALSE) /\ answers[c] \in Seq(Replies)
        BY <1>1, <2>2, <4>1 DEF Types
      <4>3. Len(r.outcomes) = Len(Batch(g, b))
        BY <1>6, <2>5
      <4>4. Answered(h, platform, Append(answers[c], r), FALSE)
        BY <1>6, <2>2, <2>3, <2>4, <2>7, <2>8, <4>2, <4>3, AnsweredAppend
      <4> QED BY <4>1, <4>4
    <3> QED BY <3>1, <3>2
  <2>12. Ordered(c, h, platform, executing', executed'[c])
    <3>1. Ordered(c, h, platform, {}, executed[c])
      BY <1>7, <2>2, <2>3, <2>5, <2>6, <2>7, <2>8, OrderedAnswered
    <3> QED BY <1>2, <1>12, <3>1
  <2>13. status[c] = "gone" => answers'[c] = answers[c]
    BY <1>9
  <2>14. There(c, g) /\ status[c] # "gone" =>
           Recovered(c, g, added[c], reports[c], unrecovered'[c], answers'[c], executing')
    <3> DEFINE old == answers[c]
               new == answers'[c]
               n == Len(old)
    <3>1. SUFFICES ASSUME There(c, g), status[c] # "gone", c \notin Chunking, reports[c] # <<"error">>,
                          \A i \in 1..added[c] : g.kind[i] # "ROLLBACK", NEW s \in unrecovered[c]
                   PROVE  \E k \in 1..Len(new) : FailedIn(g, new[k], s)
      BY <1>12 DEF Recovered
    <3>2. (\E k \in 1..n : FailedIn(g, old[k], s)) \/ FailedIn(g, x, s)
      BY <1>4, <3>1 DEF There, Recovered
    <3>3. /\ Len(new) = n + 1 /\ n \in Nat /\ new[n + 1] = r /\ \A i \in 1..n : new[i] = old[i]
      <4> DEFINE V == Replies
      <4>1. old \in Seq(V) /\ r \in V /\ new = Append(old, r)
        BY <1>1, <1>6, <1>9, <3>1 DEF Types
      <4> HIDE DEF V, old, new
      <4> QED BY <4>1, Appended DEF n
    <3> HIDE DEF old, new, n
    <3>4. FailedIn(g, x, s) => FailedIn(g, r, s)
      BY <1>6 DEF FailedIn
    <3>5. (\A i \in 1..n : i \in 1..(n + 1)) /\ n + 1 \in 1..(n + 1)
      BY <3>3
    <3> QED BY <3>2, <3>3, <3>4, <3>5
  <2>15. /\ SameContext(c) /\ platform' = platform /\ Sent(c, h, requests'[c])
         /\ h.taken + Len(requests'[c]) = g.taken + Len(requests[c])
         /\ Collected(c, h, batchmap')
    BY <1>12, <2>7
  <2>16. Way(c, h)'
    BY <2>1, <2>7, <2>9, <2>10, <2>11, <2>12, <2>13, <2>14, <2>15, Moves
  <2> QED BY <2>16
<1>15. \A d \in Contexts : \E f : Way(d, f)'
  BY <1>13, <1>14
<1> QED BY <1>11, <1>15 DEF IInv

-----------------------------------------------------------------------------
(* TakeRequest. *)

\* g, when the next message, of batch b, is taken.
Took(g, b) ==
  [n |-> g.n, kind |-> g.kind, first |-> g.first, at |-> g.at, taken |-> g.taken + 1,
   phase |-> IF g.taken + 1 = g.at[b] THEN Set(g.phase, b, "queued") ELSE g.phase]

\* The next message is of batch b.
IsNext(g, b) == g.at[b - 1] < g.taken + 1 /\ g.taken + 1 <= g.at[b]

LEMMA TookFacts ==
  ASSUME NEW c \in Contexts, NEW g, Numbered(c, g), Phased(g), NEW b \in 1..g.n, IsNext(g, b)
  PROVE  /\ Moved(g, Took(g, b)) /\ Phased(Took(g, b)) /\ Took(g, b).taken = g.taken + 1
         /\ g.phase[b] = "sent"
         /\ g.taken + 1 = g.at[b] => Took(g, b).phase[b] = "queued"
         /\ g.taken + 1 # g.at[b] => Took(g, b).phase = g.phase
         /\ \A a \in 1..g.n : a # b => Took(g, b).phase[a] = g.phase[a]
<1> DEFINE h == Took(g, b)
           f == g.phase
           D == Nat
           number == g.taken + 1
<1>1. /\ g \in Histories /\ f \in [D -> Phases] /\ b \in D /\ g.taken \in Nat /\ b \in Nat /\ g.n \in Nat
  <2>1. g \in Histories
    BY DEF Numbered
  <2>2. f \in [D -> Phases] /\ g.taken \in Nat /\ g.n \in Nat
    BY <2>1, HistoryTypes
  <2> QED BY <2>1, <2>2
<1>2. /\ number \in Nat /\ g.at[b - 1] < number /\ number <= g.at[b] /\ g.taken < number
      /\ \A k \in Nat : k < number <=> k <= g.taken
  BY <1>1 DEF IsNext
<1> HIDE DEF f, D, number
<1>3. /\ Set(f, b, "queued") \in [D -> Phases] /\ Set(f, b, "queued")[b] = "queued"
      /\ \A a \in D : a # b => Set(f, b, "queued")[a] = f[a]
  <2>1. f \in [D -> Phases] /\ b \in D /\ "queued" \in Phases
    BY <1>1 DEF Phases
  <2>2. ASSUME NEW V, NEW w \in V, f \in [D -> V]
        PROVE  /\ Set(f, b, w) \in [D -> V] /\ Set(f, b, w)[b] = w
               /\ \A a \in D : a # b => Set(f, b, w)[a] = f[a]
    BY <2>1, <2>2 DEF Set
  <2> QED BY <2>1, <2>2
<1> DEFINE phase == IF number = g.at[b] THEN Set(f, b, "queued") ELSE f
<1>4. h = [n |-> g.n, kind |-> g.kind, first |-> g.first, at |-> g.at, taken |-> number, phase |-> phase]
  BY DEF Took, number, f
<1>5. phase \in [D -> Phases] /\ \A a \in D : a # b => phase[a] = f[a]
  BY <1>1, <1>3
<1>6. (number = g.at[b] => phase[b] = "queued") /\ (number # g.at[b] => phase = f)
  BY <1>3
<1> HIDE DEF h, phase
<1>7. /\ h.n = g.n /\ h.kind = g.kind /\ h.first = g.first /\ h.at = g.at /\ h.taken = number
      /\ h.phase = phase /\ h \in Histories
  BY <1>1, <1>2, <1>4, <1>5, HistoryTypes DEF Histories, D
<1>8. f[b] = "sent"
  <2>1. g.taken < g.at[b]
    <3>1. g.at[b] \in Nat
      BY BatchFacts
    <3> QED BY <1>1, <1>2, <3>1
  <2> QED BY <2>1 DEF Phased, f
<1>9. \A a \in 1..g.n : a # b => h.phase[a] = f[a]
  BY <1>1, <1>5, <1>7 DEF D
<1>10. Moved(g, h)
  <2>1. h.phase[b] # "delivered"
    BY <1>6, <1>7, <1>8
  <2> QED BY <1>7, <1>8, <1>9, <2>1 DEF Moved, SameBatches, f
<1>11. Phased(h)
  <2>1. h.taken <= h.at[h.n]
    <3>1. g.at[b] <= g.at[g.n] /\ g.at[b] \in Nat /\ g.at[g.n] \in Nat
      <4>1. g.n \in 0..g.n
        BY <1>1
      <4> QED BY <4>1, BatchFacts, Order
    <3> QED BY <1>2, <1>7, <3>1
  <2>2. ASSUME NEW a \in 1..g.n PROVE h.phase[a] = "sent" <=> number < g.at[a]
    <3>0. g.at[a] \in Nat /\ g.at[b] \in Nat /\ g.at[b - 1] \in Nat /\ b - 1 \in 0..g.n /\ a \in 0..g.n /\ b \in 0..g.n
      BY BatchFacts
    <3>1. CASE a = b
      <4>1. number = g.at[b] \/ number < g.at[b]
        BY <1>2, <3>0
      <4>2. ~(g.at[b] < g.at[b])
        BY <3>0
      <4>3. number < g.at[b] => number # g.at[b]
        BY <1>2, <3>0
      <4> QED BY <1>6, <1>7, <1>8, <3>1, <4>1, <4>2, <4>3
    <3>2. CASE a # b
      <4>1. f[a] = "sent" <=> g.taken < g.at[a]
        BY DEF Phased, f
      <4>2. (g.taken < g.at[a]) <=> (number < g.at[a])
        <5>1. a < b \/ b < a
          BY <1>1, <3>2
        <5>2. ASSUME a < b PROVE g.at[a] <= g.at[b - 1]
          <6>1. a = b - 1 \/ a < b - 1
            BY <1>1, <5>2
          <6>2. a < b - 1 => g.at[a] < g.at[b - 1]
            BY <3>0, Order
          <6> QED BY <3>0, <6>1, <6>2
        <5>3. b < a => g.at[b] < g.at[a]
          BY <3>0, Order
        <5> QED BY <1>1, <1>2, <3>0, <5>1, <5>2, <5>3
      <4> QED BY <1>9, <3>2, <4>1, <4>2
    <3> QED BY <3>1, <3>2
  <2>3. \A a \in Nat : a > g.n => h.phase[a] = "sent"
    <3> TAKE a \in Nat
    <3>1. a > g.n => a # b
      BY <1>1
    <3> QED BY <1>5, <1>7, <3>1 DEF Phased, f, D
  <2> QED BY <1>7, <2>1, <2>2, <2>3 DEF Phased
<1> QED BY <1>6, <1>7, <1>8, <1>9, <1>10, <1>11 DEF h, f, number

\* The batch as it is in the queue.
Job(c, g, b) ==
  [to |-> c, cbid |-> g.at[b], todo |-> Tagged(c, Batch(g, b)), results |-> << >>, outcomes |-> << >>]

\* The batches of other contexts stay in batchmap.
OthersKept(c) ==
  \A d, a : d # c /\ BatchId(d, a) \in DOMAIN batchmap =>
    BatchId(d, a) \in DOMAIN batchmap' /\ batchmap'[BatchId(d, a)] = batchmap[BatchId(d, a)]

\* What becomes of the next message.
TakenUp(c, g, b) ==
  /\ OthersKept(c)
  /\ g.taken + 1 = g.at[b] => queue' = Append(queue, Job(c, g, b))
  /\ g.taken + 1 # g.at[b] =>
       /\ queue' = queue /\ BatchId(c, b) \in DOMAIN batchmap'
       /\ batchmap'[BatchId(c, b)] =
            [flen |-> Len(Batch(g, b)), flatlist |-> Taken(c, Batch(g, b), g.taken + 1 - g.at[b - 1] - 1)]

LEMMA FlatlistAdded ==
  ASSUME NEW size, NEW old, NEW part
  PROVE  [[flen |-> size, flatlist |-> old] EXCEPT !.flatlist = @ \o part]
           = [flen |-> size, flatlist |-> old \o part]
<1> DEFINE new == old \o part
<1>1. [[flen |-> size, flatlist |-> old] EXCEPT !.flatlist = @ \o part]
        = [[flen |-> size, flatlist |-> old] EXCEPT !.flatlist = new]
  OBVIOUS
<1> HIDE DEF new
<1>2. [[flen |-> size, flatlist |-> old] EXCEPT !.flatlist = new] = [flen |-> size, flatlist |-> new]
  OBVIOUS
<1> QED BY <1>1, <1>2 DEF new

LEMMA OtherId ==
  ASSUME NEW c, NEW b, NEW d, NEW a, d # c
  PROVE  BatchId(d, a) # BatchId(c, b)
BY DEF BatchId

LEMMA TakesMessage ==
  ASSUME NEW c \in Contexts, NEW g, Numbered(c, g), NEW b \in 1..g.n, IsNext(g, b),
         Collected(c, g, batchmap), NEW number, number = g.taken + 1,
         NEW j, j = number - g.at[b - 1], NEW msg, msg = Message(c, b, Batch(g, b), j, number),
         TakeBatch(msg) \/ TakeStart(msg) \/ TakePart(msg) \/ TakeRun(msg)
  PROVE  TakenUp(c, g, b)
<1> DEFINE stmts == Batch(g, b)
           before == g.at[b - 1]
           last == g.at[b]
           m == MessageCount(c, stmts)
           id == BatchId(c, b)
           size == Len(stmts)
<1>1. /\ stmts \in Seq(Sql) /\ before \in Nat /\ last \in Nat /\ last = before + m /\ m \in Nat \ {0}
      /\ g.taken \in Nat
  <2>1. g.taken \in Nat
    BY HistoryTypes DEF Numbered
  <2> QED BY <2>1, BatchFacts
<1>2. number \in Nat /\ before < number /\ number <= last
  BY <1>1 DEF IsNext
<1> HIDE DEF stmts, before, last, m
<1>3. j \in 1..m /\ (j = m <=> number = last) /\ j = number - before
  <2>1. j = number - before
    BY DEF before
  <2> QED BY <1>1, <1>2, <2>1
<1>4. /\ Statements(Flat(c, stmts), size) = Tagged(c, stmts) /\ Parts(c, stmts) \in Nat
      /\ Taken(c, stmts, 0) = << >> /\ Taken(c, stmts, Parts(c, stmts)) = Flat(c, stmts)
      /\ \A i \in 1..Parts(c, stmts) :
           Taken(c, stmts, i) = Taken(c, stmts, i - 1) \o Part(Flat(c, stmts), MaxPartSize, i)
  BY <1>1, FlatFacts
<1>5. msg = Message(c, b, stmts, j, number)
  BY DEF stmts
<1> DEFINE job == [to |-> c, cbid |-> last, todo |-> Tagged(c, stmts), results |-> << >>, outcomes |-> << >>]
           entry(k) == [flen |-> size, flatlist |-> Taken(c, stmts, k)]
<1>6. SUFFICES /\ OthersKept(c)
               /\ j = m => queue' = Append(queue, job)
               /\ j # m => /\ queue' = queue /\ id \in DOMAIN batchmap'
                           /\ batchmap'[id] = entry(j - 1)
  <2>1. queue' = Append(queue, job) => queue' = Append(queue, Job(c, g, b))
    BY DEF Job, stmts, last
  <2>2. batchmap'[id] = entry(j - 1) =>
          batchmap'[id] = [flen |-> Len(Batch(g, b)),
                           flatlist |-> Taken(c, Batch(g, b), g.taken + 1 - g.at[b - 1] - 1)]
    <3>1. g.taken + 1 - g.at[b - 1] - 1 = j - 1
      <4>1. g.taken \in Nat /\ g.at[b - 1] \in Nat /\ j = (g.taken + 1) - g.at[b - 1]
        BY <1>1 DEF before
      <4> DEFINE t == g.taken
                 u == g.at[b - 1]
      <4>2. t \in Nat /\ u \in Nat /\ j = (t + 1) - u
        BY <4>1
      <4> HIDE DEF t, u
      <4>3. t + 1 - u - 1 = j - 1
        BY <4>2
      <4> QED BY <4>3 DEF t, u
    <3>2. entry(j - 1) = [flen |-> Len(Batch(g, b)), flatlist |-> Taken(c, Batch(g, b), j - 1)]
      BY DEF stmts
    <3> HIDE DEF entry, id
    <3> QED BY <3>1, <3>2
  <2>3. j = m <=> g.taken + 1 = g.at[b]
    BY <1>3 DEF last
  <2> HIDE DEF job, entry
  <2> QED BY <2>1, <2>2, <2>3 DEF TakenUp
<1>7. c \in Workers /\ j # 1 => id \in DOMAIN batchmap /\ batchmap[id] = entry(j - 2)
  <2> SUFFICES ASSUME c \in Workers, j # 1
               PROVE  id \in DOMAIN batchmap /\ batchmap[id] = entry(j - 2)
    OBVIOUS
  <2>1. before < g.taken /\ g.taken < last /\ g.taken - before - 1 = j - 2
    <3> DEFINE t == g.taken
    <3>1. t \in Nat /\ before \in Nat /\ last \in Nat /\ j \in Nat /\ j # 1
      BY <1>1, <1>2, <1>3
    <3>2. j = (t + 1) - before /\ t + 1 <= last /\ before < t + 1
      BY <1>2, <1>3
    <3> HIDE DEF t
    <3>3. before < t /\ t < last /\ t - before - 1 = j - 2
      BY <3>1, <3>2
    <3> QED BY <3>3 DEF t
  <2>2. /\ id \in DOMAIN batchmap
        /\ batchmap[id] = [flen |-> size, flatlist |-> Taken(c, stmts, g.taken - before - 1)]
    BY <2>1 DEF Collected, stmts, before, last
  <2> HIDE DEF id
  <2> QED BY <2>1, <2>2
<1> HIDE DEF size, id
<1>8. CASE c \notin Workers
  <2>1. m = 1 /\ j = m
    <3>1. m = 1
      BY <1>8 DEF MessageCount, m
    <3> QED BY <1>3, <3>1
  <2>2. msg = [op |-> "batch", flen |-> size, flatlist |-> Flat(c, stmts), to |-> c, cbid |-> number]
    BY <1>5, <1>8 DEF Message, size
  <2>3. msg.op = "batch" /\ msg.flen = size /\ msg.flatlist = Flat(c, stmts) /\ msg.to = c
        /\ msg.cbid = number
    BY <2>2
  <2>4. TakeBatch(msg)
    BY <2>3 DEF TakeStart, TakePart, TakeRun
  <2>5. queue' = Append(queue, job) /\ batchmap' = batchmap
    <3>1. number = last
      BY <1>3, <2>1
    <3> QED BY <1>4, <2>3, <2>4, <3>1 DEF TakeBatch, Enqueue
  <2> QED BY <2>1, <2>5 DEF OthersKept
<1>9. CASE c \in Workers /\ j = 1
  <2>1. m # 1 /\ j # m
    <3>1. m = Parts(c, stmts) + 2
      BY <1>9 DEF MessageCount, m
    <3> DEFINE k == Parts(c, stmts)
    <3>2. k \in Nat /\ m = k + 2
      BY <1>4, <3>1
    <3> HIDE DEF k
    <3>3. m # 1
      BY <3>2
    <3> QED BY <1>9, <3>3
  <2>2. msg = [op |-> "batchStart", id |-> id, flen |-> size]
    BY <1>5, <1>9 DEF Message, size, id
  <2>3. msg.op = "batchStart" /\ msg.id = id /\ msg.flen = size
    BY <2>2
  <2>4. TakeStart(msg)
    BY <2>3 DEF TakeBatch, TakePart, TakeRun
  <2>5. /\ queue' = queue
        /\ batchmap' = [i \in DOMAIN batchmap \cup {id} |->
                          IF i = id THEN [flen |-> size, flatlist |-> << >>] ELSE batchmap[i]]
    BY <2>3, <2>4 DEF TakeStart
  <2>6. id \in DOMAIN batchmap' /\ batchmap'[id] = [flen |-> size, flatlist |-> << >>]
        /\ \A i \in DOMAIN batchmap : i # id => i \in DOMAIN batchmap' /\ batchmap'[i] = batchmap[i]
    BY <2>5
  <2>7. batchmap'[id] = entry(j - 1)
    <3>1. j - 1 = 0
      BY <1>9
    <3> QED BY <1>4, <2>6, <3>1
  <2>8. OthersKept(c)
    BY <2>6, OtherId DEF OthersKept, id
  <2> QED BY <2>1, <2>5, <2>6, <2>7, <2>8
<1>10. CASE c \in Workers /\ j # 1 /\ j # m
  <2>1. j - 1 \in 1..Parts(c, stmts)
    <3> DEFINE k == Parts(c, stmts)
    <3>1. k \in Nat /\ m = k + 2
      BY <1>4, <1>10 DEF MessageCount, m
    <3> HIDE DEF k
    <3>2. j - 1 \in 1..k
      BY <1>3, <1>10, <3>1
    <3> QED BY <3>2 DEF k
  <2> DEFINE part == Part(Flat(c, stmts), MaxPartSize, j - 1)
  <2> HIDE DEF part
  <2>2. msg = [op |-> "batchPart", id |-> id, part |-> part]
    BY <1>5, <1>10 DEF Message, id, part, m
  <2>3. msg.op = "batchPart" /\ msg.id = id /\ msg.part = part
    BY <2>2
  <2>4. TakePart(msg)
    BY <2>3 DEF TakeBatch, TakeStart, TakeRun
  <2>5. /\ queue' = queue
        /\ batchmap' = [i \in DOMAIN batchmap |->
                          IF i = id THEN [batchmap[i] EXCEPT !.flatlist = @ \o part] ELSE batchmap[i]]
    BY <2>3, <2>4 DEF TakePart
  <2>6. /\ id \in DOMAIN batchmap' /\ batchmap'[id] = [batchmap[id] EXCEPT !.flatlist = @ \o part]
        /\ \A i \in DOMAIN batchmap : i # id => i \in DOMAIN batchmap' /\ batchmap'[i] = batchmap[i]
    BY <1>7, <1>10, <2>5
  <2>7. batchmap'[id] = entry(j - 1)
    <3>1. batchmap[id] = [flen |-> size, flatlist |-> Taken(c, stmts, j - 2)]
      BY <1>7, <1>10
    <3>2. batchmap'[id] = [flen |-> size, flatlist |-> Taken(c, stmts, j - 2) \o part]
      <4> DEFINE old == Taken(c, stmts, j - 2)
      <4> HIDE DEF old
      <4>1. [[flen |-> size, flatlist |-> old] EXCEPT !.flatlist = @ \o part]
              = [flen |-> size, flatlist |-> old \o part]
        BY FlatlistAdded
      <4>2. batchmap'[id] = [[flen |-> size, flatlist |-> old] EXCEPT !.flatlist = @ \o part]
        BY <2>6, <3>1 DEF old
      <4> QED BY <4>1, <4>2 DEF old
    <3>3. Taken(c, stmts, j - 1) = Taken(c, stmts, j - 2) \o part
      <4>1. j - 1 - 1 = j - 2
        BY <1>3
      <4>2. Taken(c, stmts, j - 1) = Taken(c, stmts, j - 1 - 1) \o part
        BY <1>4, <2>1 DEF part
      <4> QED BY <4>1, <4>2
    <3> QED BY <3>2, <3>3
  <2>8. OthersKept(c)
    BY <2>6, OtherId DEF OthersKept, id
  <2> QED BY <1>10, <2>5, <2>6, <2>7, <2>8
<1>11. CASE c \in Workers /\ j # 1 /\ j = m
  <2>1. j - 2 = Parts(c, stmts)
    <3> DEFINE k == Parts(c, stmts)
    <3>1. k \in Nat /\ m = k + 2
      BY <1>4, <1>11 DEF MessageCount, m
    <3> HIDE DEF k
    <3>2. j - 2 = k
      BY <1>11, <3>1
    <3> QED BY <3>2 DEF k
  <2>2. msg = [op |-> "batchRun", id |-> id, to |-> c, cbid |-> number]
    BY <1>5, <1>11 DEF Message, id, m
  <2>3. msg.op = "batchRun" /\ msg.id = id /\ msg.to = c /\ msg.cbid = number
    BY <2>2
  <2>4. TakeRun(msg)
    BY <2>3 DEF TakeBatch, TakeStart, TakePart
  <2>5. id \in DOMAIN batchmap /\ batchmap[id] = [flen |-> size, flatlist |-> Flat(c, stmts)]
    BY <1>4, <1>7, <1>11, <2>1
  <2>6. /\ batchmap' = [i \in DOMAIN batchmap \ {id} |-> batchmap[i]]
        /\ queue' = Append(queue, job)
    <3>1. /\ batchmap' = [i \in DOMAIN batchmap \ {id} |-> batchmap[i]]
          /\ Enqueue(msg, batchmap[id].flen, batchmap[id].flatlist)
      BY <2>3, <2>4, <2>5 DEF TakeRun
    <3>2. Enqueue(msg, size, Flat(c, stmts))
      BY <2>5, <3>1
    <3>3. number = last
      BY <1>3, <1>11
    <3> QED BY <1>4, <2>3, <3>1, <3>2, <3>3 DEF Enqueue
  <2>7. \A i \in DOMAIN batchmap : i # id => i \in DOMAIN batchmap' /\ batchmap'[i] = batchmap[i]
    BY <2>6
  <2>8. OthersKept(c)
    BY <2>7, OtherId DEF OthersKept, id
  <2> QED BY <1>11, <2>6, <2>8
<1> QED BY <1>8, <1>9, <1>10, <1>11

LEMMA OrderedPhases ==
  ASSUME NEW c, NEW g, NEW h, SameBatches(g, h), NEW p, NEW ex, NEW done,
         \A a \in 1..g.n : /\ h.phase[a] \in {"answered", "delivered"}
                                <=> g.phase[a] \in {"answered", "delivered"}
                           /\ h.phase[a] = "executing" => g.phase[a] = "executing",
         Ordered(c, g, p, ex, done)
  PROVE  Ordered(c, h, p, ex, done)
<1>1. h.n = g.n /\ h.first = g.first
  BY DEF SameBatches
<1>2. ASSUME NEW k, OrderedTo(c, g, ex, done, k) PROVE OrderedTo(c, h, ex, done, k)
  BY <1>1, <1>2 DEF OrderedTo
<1> QED BY <1>1, <1>2 DEF Ordered

\* The queue with a new batch.
LEMMA QueuedGiven ==
  ASSUME NEW c \in Contexts, NEW g, Numbered(c, g), Phased(g), NEW h, SameBatches(g, h), NEW p,
         NEW q \in Seq(Jobs), Queued(c, g, p, q), NEW b \in 1..g.n, g.taken + 1 = g.at[b],
         h.phase[b] = "queued", g.phase[b] = "sent", \A a \in 1..g.n : a # b => h.phase[a] = g.phase[a],
         Job(c, g, b) \in Jobs
  PROVE  Queued(c, h, p, Append(q, Job(c, g, b)))
<1> DEFINE n == Len(q)
           x == Job(c, g, b)
           new == Append(q, x)
<1>0. /\ x.to = c /\ x.cbid = g.at[b] /\ x.todo = Tagged(c, Batch(g, b)) /\ x.results = << >>
      /\ x.outcomes = << >>
  BY DEF Job
<1> HIDE DEF x
<1>1. /\ Len(new) = n + 1 /\ n \in Nat /\ new[n + 1] = x /\ \A i \in 1..n : new[i] = q[i]
  <2> DEFINE V == Jobs
  <2> HIDE DEF V
  <2>1. q \in Seq(V) /\ x \in V
    BY DEF V, x
  <2> QED BY <2>1, Appended
<1> HIDE DEF n, new
<1>2. /\ h.n = g.n /\ h.at = g.at /\ \A a : Batch(h, a) = Batch(g, a)
  <2>1. \A a : Batch(h, a) = Batch(g, a)
    BY SameBatchesFacts
  <2> QED BY <2>1 DEF SameBatches
<1>3. \A a, y : IsBatch(c, g, p, y, a) => IsBatch(c, h, p, y, a)
  BY <1>2 DEF IsBatch, HasResults, StillToDo
<1>4. IsBatch(c, g, p, x, b)
  <2>1. HasResults(g, p, x, b)
    BY <1>0, NoResults
  <2>2. x.todo = StillToDo(c, g, b, Len(x.outcomes))
    <3>1. Len(x.outcomes) = 0
      BY <1>0
    <3>2. 0 <= Len(Batch(g, b))
      <4>1. Batch(g, b) \in Seq(Sql)
        BY BatchFacts
      <4> QED BY <4>1
    <3>3. StillToDo(c, g, b, 0) = Tagged(c, Batch(g, b))
      BY <3>2, ToDo
    <3> QED BY <1>0, <3>1, <3>3
  <2> QED BY <2>1, <2>2 DEF IsBatch
<1>5. ASSUME NEW k \in 1..n, q[k].to = c
      PROVE  \E a \in 1..h.n : /\ IsBatch(c, h, p, q[k], a) /\ h.phase[a] = "queued"
                               /\ q[k].outcomes = << >> /\ q[k].cbid < x.cbid
  <2>1. PICK a \in 1..g.n : IsBatch(c, g, p, q[k], a) /\ g.phase[a] = "queued" /\ q[k].outcomes = << >>
    BY <1>5 DEF Queued, n
  <2>2. q[k].cbid = g.at[a]
    BY <2>1 DEF IsBatch, HasResults
  <2>3. g.at[a] < g.at[b]
    <3>1. ~(g.taken < g.at[a])
      BY <2>1 DEF Phased
    <3>2. g.taken \in Nat
      BY HistoryTypes DEF Numbered
    <3>3. g.at[a] \in Nat
      BY BatchFacts
    <3> DEFINE t == g.taken
               u == g.at[a]
    <3>4. t \in Nat /\ u \in Nat /\ ~(t < u) /\ g.at[b] = t + 1
      BY <3>1, <3>2, <3>3
    <3> HIDE DEF t, u
    <3>5. u < t + 1
      BY <3>4
    <3> QED BY <3>4, <3>5 DEF t, u
  <2>4. a # b
    BY <2>1
  <2> QED BY <1>0, <1>2, <1>3, <2>1, <2>2, <2>3, <2>4
<1>6. ASSUME NEW k \in 1..(n + 1), new[k].to = c
      PROVE  \E a \in 1..h.n : IsBatch(c, h, p, new[k], a) /\ h.phase[a] = "queued" /\ new[k].outcomes = << >>
  <2>1. k \in 1..n \/ k = n + 1
    BY <1>1
  <2>2. CASE k \in 1..n
    BY <1>1, <1>5, <1>6, <2>2
  <2>3. CASE k = n + 1
    BY <1>0, <1>1, <1>2, <1>3, <1>4, <2>3
  <2> QED BY <2>1, <2>2, <2>3
<1>7. ASSUME NEW j \in 1..(n + 1), NEW k \in 1..(n + 1), j < k, new[j].to = c, new[k].to = c
      PROVE  new[j].cbid < new[k].cbid
  <2>1. j \in 1..n /\ (k \in 1..n \/ k = n + 1)
    BY <1>1, <1>7
  <2>2. k \in 1..n => q[j].cbid < q[k].cbid
    <3>1. j \in 1..n /\ new[j] = q[j] /\ (k \in 1..n => new[k] = q[k])
      BY <1>1, <2>1
    <3> QED BY <1>7, <3>1 DEF Queued, n
  <2>3. k = n + 1 => new[j].cbid < x.cbid
    BY <1>1, <1>5, <1>7, <2>1
  <2> QED BY <1>1, <2>1, <2>2, <2>3
<1>8. ASSUME NEW a \in 1..h.n, h.phase[a] = "queued"
      PROVE  \E k \in 1..(n + 1) : new[k].to = c /\ new[k].cbid = h.at[a]
  <2>1. CASE a = b
    <3>1. n + 1 \in 1..(n + 1)
      BY <1>1
    <3> QED BY <1>0, <1>1, <1>2, <2>1, <3>1
  <2>2. CASE a # b
    <3>1. a \in 1..g.n /\ g.phase[a] = "queued"
      BY <1>2, <1>8, <2>2
    <3>2. PICK k \in 1..n : q[k].to = c /\ q[k].cbid = g.at[a]
      BY <3>1 DEF Queued, n
    <3>3. k \in 1..(n + 1) /\ new[k] = q[k]
      BY <1>1
    <3> QED BY <1>2, <3>2, <3>3
  <2> QED BY <2>1, <2>2
<1> QED BY <1>1, <1>6, <1>7, <1>8 DEF Queued, new, x

\* Requests without the first.
LEMMA SentTail ==
  ASSUME NEW c \in Contexts, NEW g, Numbered(c, g), NEW h, SameBatches(g, h), h.taken = g.taken + 1,
         NEW reqs, Sent(c, g, reqs), reqs # << >>
  PROVE  Sent(c, h, Tail(reqs)) /\ h.taken + Len(Tail(reqs)) = g.taken + Len(reqs)
<1> DEFINE V == AnyMessage(c)
           r == Tail(reqs)
           n == Len(reqs)
           t == g.taken
<1>1. t \in Nat
  BY HistoryTypes DEF Numbered
<1>2. reqs \in Seq(V) /\ n \in Nat /\ n > 0
  BY DEF Sent
<1> HIDE DEF V
<1>3. r \in Seq(V) /\ Len(r) = n - 1 /\ \A i \in 1..Len(r) : r[i] = reqs[i + 1]
  BY <1>2, HeadTailProperties
<1> HIDE DEF r, n, t
<1>4. ASSUME NEW k \in 1..Len(r) PROVE IsMessage(c, h, r[k], h.taken + k)
  <2>0. k \in Nat /\ k >= 1 /\ k <= n - 1 /\ h.taken = t + 1
    BY <1>1, <1>2, <1>3 DEF t
  <2>1. k + 1 \in 1..n /\ h.taken + k = t + (k + 1)
    BY <1>1, <1>2, <2>0
  <2>2. IsMessage(c, g, reqs[k + 1], t + (k + 1))
    <3> DEFINE i == k + 1
    <3>1. i \in 1..n
      BY <2>1
    <3> HIDE DEF i
    <3>2. IsMessage(c, g, reqs[i], t + i)
      BY <3>1 DEF Sent, n, t
    <3> QED BY <3>2 DEF i
  <2>3. \A msg, i : IsMessage(c, g, msg, i) => IsMessage(c, h, msg, i)
    BY SameBatchesFacts
  <2> QED BY <1>3, <2>1, <2>2, <2>3
<1>5. h.taken + Len(r) = t + n
  BY <1>1, <1>2, <1>3 DEF t
<1> QED BY <1>3, <1>4, <1>5 DEF Sent, V, r, n, t

\* The batches that are put together, when the next message of batch b is taken.
LEMMA CollectedTook ==
  ASSUME NEW c \in Contexts, NEW g, Numbered(c, g), NEW b \in 1..g.n, IsNext(g, b),
         NEW h, SameBatches(g, h), h.taken = g.taken + 1, TakenUp(c, g, b)
  PROVE  Collected(c, h, batchmap')
<1> DEFINE t == g.taken
<1>1. t \in Nat /\ h.taken = t + 1
  BY HistoryTypes DEF Numbered
<1>2. /\ h.n = g.n /\ h.at = g.at /\ \A a : Batch(h, a) = Batch(g, a)
  <2>1. \A a : Batch(h, a) = Batch(g, a)
    BY SameBatchesFacts
  <2> QED BY <2>1 DEF SameBatches
<1>3. ASSUME NEW a \in 1..h.n, h.at[a - 1] < h.taken, h.taken < h.at[a]
      PROVE  a = b /\ g.taken + 1 # g.at[b]
  <2> DEFINE k == h.taken
  <2>0. k \in Nat /\ g.at[a - 1] < k /\ k < g.at[a] /\ g.at[b - 1] < k /\ k <= g.at[b] /\ g.at[a] \in Nat
    <3>1. g.at[a] \in Nat
      BY <1>2, BatchFacts
    <3> QED BY <1>1, <1>2, <1>3, <3>1 DEF IsNext
  <2> HIDE DEF k
  <2>1. k <= g.at[a]
    BY <2>0
  <2>2. a = b
    BY <1>2, <2>0, <2>1, OneBatchOf
  <2> QED BY <2>0, <2>2 DEF k
<1>4. ASSUME NEW a \in 1..h.n, h.at[a - 1] < h.taken, h.taken < h.at[a]
      PROVE  /\ BatchId(c, a) \in DOMAIN batchmap'
             /\ batchmap'[BatchId(c, a)] =
                  [flen |-> Len(Batch(h, a)), flatlist |-> Taken(c, Batch(h, a), h.taken - h.at[a - 1] - 1)]
  <2>1. a = b /\ g.taken + 1 # g.at[b]
    BY <1>3, <1>4
  <2>2. /\ BatchId(c, b) \in DOMAIN batchmap'
        /\ batchmap'[BatchId(c, b)] =
             [flen |-> Len(Batch(g, b)), flatlist |-> Taken(c, Batch(g, b), g.taken + 1 - g.at[b - 1] - 1)]
    BY <2>1 DEF TakenUp
  <2>3. g.taken + 1 - g.at[b - 1] - 1 = h.taken - h.at[b - 1] - 1
    <3> DEFINE u == g.at[b - 1]
    <3>1. u \in Nat /\ h.at[b - 1] = u
      BY <1>2, BatchFacts
    <3> HIDE DEF t, u
    <3>2. t + 1 - u - 1 = (t + 1) - u - 1
      BY <1>1, <3>1
    <3> QED BY <1>1, <3>1, <3>2 DEF t, u
  <2> QED BY <1>2, <2>1, <2>2, <2>3
<1> QED BY <1>4 DEF Collected

LEMMA TakeRequestStep ==
  ASSUME IInv, NEW c \in Contexts, TakeRequest(c)
  PROVE  IInv'
<1>1. Types /\ \A d \in Contexts : \E g : Way(d, g)
  BY DEF IInv
<1>2. PICK msg : /\ msg = Head(requests[c])
                 /\ TakeBatch(msg) \/ TakeStart(msg) \/ TakePart(msg) \/ TakeRun(msg)
  BY DEF TakeRequest
<1>3. /\ requests[c] # << >> /\ requests' = [requests EXCEPT ![c] = Tail(@)]
      /\ UNCHANGED <<platform, txVars, aqcbmap, answers, executing, executed>>
  BY DEF TakeRequest
<1>4. PICK g : Way(c, g)
  BY <1>1
<1>5. /\ Numbered(c, g) /\ Phased(g) /\ Sent(c, g, requests[c]) /\ Collected(c, g, batchmap)
      /\ Queued(c, g, platform, queue) /\ Executing(c, g, platform, executing)
      /\ Answered(g, platform, answers[c], status[c] = "gone")
      /\ Ordered(c, g, platform, executing, executed[c])
  BY <1>4 DEF Way
<1>6. PICK number : number = g.taken + 1
  OBVIOUS
<1>7. IsMessage(c, g, msg, number)
  <2> DEFINE reqs == requests[c]
             V == AnyMessage(c)
  <2>1. reqs \in Seq(V) /\ reqs # << >> /\ \A k \in 1..Len(reqs) : IsMessage(c, g, reqs[k], g.taken + k)
    BY <1>3, <1>5 DEF Sent
  <2> HIDE DEF reqs, V
  <2>2. 1 \in 1..Len(reqs) /\ Head(reqs) = reqs[1]
    BY <2>1
  <2>3. IsMessage(c, g, reqs[1], g.taken + 1)
    BY <2>1, <2>2
  <2> QED BY <1>2, <1>6, <2>2, <2>3 DEF reqs
<1>8. PICK b \in 1..g.n : /\ g.at[b - 1] < number /\ number <= g.at[b]
                          /\ msg = Message(c, b, Batch(g, b), number - g.at[b - 1], number)
  BY <1>7 DEF IsMessage
<1>9. IsNext(g, b)
  BY <1>6, <1>8 DEF IsNext
<1>10. TakenUp(c, g, b)
  <2>1. PICK j : j = number - g.at[b - 1]
    OBVIOUS
  <2>2. msg = Message(c, b, Batch(g, b), j, number)
    BY <1>8, <2>1
  <2> QED BY <1>2, <1>5, <1>6, <1>9, <2>1, <2>2, TakesMessage
<1> DEFINE h == Took(g, b)
<1> HIDE DEF h
<1>11. /\ Moved(g, h) /\ Phased(h) /\ h.taken = g.taken + 1
       /\ g.phase[b] = "sent"
       /\ g.taken + 1 = g.at[b] => h.phase[b] = "queued"
       /\ g.taken + 1 # g.at[b] => h.phase = g.phase
       /\ \A a \in 1..g.n : a # b => h.phase[a] = g.phase[a]
  BY <1>5, <1>9, TookFacts DEF h
<1>12. SameBatches(g, h) /\ h.n = g.n /\ h.at = g.at /\ \A a : Batch(h, a) = Batch(g, a)
  BY <1>5, <1>11, MovedFacts DEF Moved, SameBatches
<1>13. \A phase : phase \notin {"sent", "queued"} => Agrees(g, h, phase)
  <2> TAKE phase
  <2>1. \A a \in 1..g.n : phase \notin {"sent", "queued"} => (h.phase[a] = phase <=> g.phase[a] = phase)
    BY <1>11
  <2> QED BY <1>12, <2>1 DEF Agrees
<1>14. Job(c, g, b) \in Jobs
  <2>1. Batch(g, b) \in Seq(Sql) /\ g.at[b] \in Nat
    BY <1>5, BatchFacts
  <2>2. Tagged(c, Batch(g, b)) \in Seq(Owned)
    BY <2>1, TaggedFacts
  <2>3. << >> \in Seq(Words) /\ << >> \in Seq(Endings)
    OBVIOUS
  <2> QED BY <2>1, <2>2, <2>3 DEF Job, Jobs
<1>15. queue \in Seq(Jobs) /\ queue' \in Seq(Jobs)
  <2>1. queue \in Seq(Jobs)
    BY <1>1 DEF Types
  <2>2. Append(queue, Job(c, g, b)) \in Seq(Jobs)
    <3> DEFINE V == Jobs
               x == Job(c, g, b)
    <3>1. queue \in Seq(V) /\ x \in V
      BY <1>14, <2>1
    <3> HIDE DEF V, x
    <3>2. Append(queue, x) \in Seq(V)
      BY <3>1, Appended
    <3> QED BY <3>2 DEF V, x
  <2> QED BY <1>10, <2>1, <2>2 DEF TakenUp
<1>16. /\ OnContexts(requests') /\ requests'[c] = Tail(requests[c])
       /\ \A d \in Contexts : d # c => requests'[d] = requests[d]
  <2> DEFINE v == Tail(requests[c])
  <2>1. Changed(requests', requests, c, v)
    BY <1>3 DEF Changed
  <2> HIDE DEF v
  <2>2. /\ OnContexts(requests') /\ requests'[c] = v
        /\ \A d \in Contexts : d # c => requests'[d] = requests[d]
    BY <1>1, <2>1, Excepted DEF Types, JsFunctions
  <2> QED BY <2>2 DEF v
<1>17. Types'
  BY <1>1, <1>3, <1>15, <1>16 DEF Types, JsFunctions, OnContexts, txVars
<1>18. ASSUME NEW d \in Contexts
       PROVE  /\ SameContext(d) /\ answers'[d] = answers[d] /\ unrecovered'[d] = unrecovered[d]
              /\ executed'[d] = executed[d] /\ platform' = platform /\ executing' = executing
  BY <1>3 DEF SameContext, txVars
<1>19. ASSUME NEW d \in Contexts, d # c PROVE \E f : Way(d, f)'
  <2>1. PICK f : Way(d, f)
    BY <1>1
  <2>2. Queued(d, f, platform, queue')
    <3>1. Job(c, g, b).to # d
      BY <1>19 DEF Job
    <3> DEFINE x == Job(c, g, b)
    <3>2. x \in Jobs /\ x.to # d /\ (queue' = queue \/ queue' = Append(queue, x))
      BY <1>10, <1>14, <3>1 DEF TakenUp
    <3>3. Queued(d, f, platform, queue)
      BY <2>1 DEF Way
    <3> HIDE DEF x
    <3> QED BY <1>15, <3>2, <3>3, QueuedAppend
  <2>3. Collected(d, f, batchmap')
    <3>1. Collected(d, f, batchmap) /\ OthersKept(c)
      BY <1>10, <2>1 DEF Way, TakenUp
    <3> QED BY <1>19, <3>1 DEF Collected, OthersKept
  <2>4. Executing(d, f, platform, executing') /\ Ordered(d, f, platform, executing', executed[d])
    BY <1>18, <2>1 DEF Way
  <2>5. requests'[d] = requests[d] /\ \A z \in executing : z.to = d => z \in executing'
    BY <1>16, <1>18, <1>19
  <2>6. Way(d, f)'
    BY <1>18, <2>1, <2>2, <2>3, <2>4, <2>5, Frame
  <2> QED BY <2>6
<1>20. Way(c, h)'
  <2>1. /\ SameContext(c) /\ answers'[c] = answers[c] /\ unrecovered'[c] = unrecovered[c]
        /\ executed'[c] = executed[c] /\ platform' = platform /\ executing' = executing
    BY <1>18
  <2>2. Sent(c, h, requests'[c]) /\ h.taken + Len(requests'[c]) = g.taken + Len(requests[c])
    <3> DEFINE reqs == requests[c]
               now == requests'[c]
    <3>1. now = Tail(reqs) /\ reqs # << >> /\ Sent(c, g, reqs)
      BY <1>3, <1>5, <1>16
    <3> HIDE DEF reqs, now
    <3>2. Sent(c, h, now) /\ h.taken + Len(now) = g.taken + Len(reqs)
      BY <1>5, <1>11, <1>12, <3>1, SentTail
    <3> QED BY <3>2 DEF reqs, now
  <2>3. Collected(c, h, batchmap')
    BY <1>5, <1>9, <1>10, <1>11, <1>12, CollectedTook
  <2>4. Queued(c, h, platform, queue')
    <3>1. CASE g.taken + 1 = g.at[b]
      <4>1. queue' = Append(queue, Job(c, g, b))
        BY <1>10, <3>1 DEF TakenUp
      <4>2. Queued(c, h, platform, Append(queue, Job(c, g, b)))
        BY <1>5, <1>11, <1>12, <1>14, <1>15, <3>1, QueuedGiven
      <4> QED BY <4>1, <4>2
    <3>2. CASE g.taken + 1 # g.at[b]
      <4>1. queue' = queue
        BY <1>10, <3>2 DEF TakenUp
      <4>2. Agrees(g, h, "queued")
        BY <1>11, <1>12, <3>2 DEF Agrees
      <4>3. Queued(c, h, platform, queue)
        BY <1>5, <4>2, QueuedAgrees
      <4> QED BY <4>1, <4>3
    <3> QED BY <3>1, <3>2
  <2>5. Executing(c, h, platform, executing')
    <3>1. Agrees(g, h, "executing")
      BY <1>13
    <3>2. Executing(c, h, platform, executing)
      BY <1>5, <3>1, ExecutingAgrees
    <3> QED BY <2>1, <3>2
  <2>6. Answered(h, platform, answers'[c], status[c] = "gone")
    <3>1. Agrees(g, h, "answered")
      BY <1>13
    <3>2. Answered(h, platform, answers[c], status[c] = "gone")
      BY <1>5, <3>1, AnsweredAgrees
    <3> QED BY <2>1, <3>2
  <2>7. Ordered(c, h, platform, executing', executed'[c])
    <3>1. \A a \in 1..g.n : /\ h.phase[a] \in {"answered", "delivered"}
                                <=> g.phase[a] \in {"answered", "delivered"}
                            /\ h.phase[a] = "executing" => g.phase[a] = "executing"
      BY <1>11
    <3>2. Ordered(c, h, platform, executing, executed[c])
      BY <1>5, <1>12, <3>1, OrderedPhases
    <3> QED BY <2>1, <3>2
  <2>8. There(c, g) /\ status[c] # "gone" =>
          Recovered(c, g, added[c], reports[c], unrecovered'[c], answers'[c], executing')
    BY <2>1 DEF There
  <2> QED BY <1>4, <1>11, <2>1, <2>2, <2>3, <2>4, <2>5, <2>6, <2>7, <2>8, Moves
<1>21. \A d \in Contexts : \E f : Way(d, f)'
  BY <1>19, <1>20
<1> QED BY <1>17, <1>21 DEF IInv

-----------------------------------------------------------------------------
(* Terminate. *)

LEMMA SentPrefix ==
  ASSUME NEW c \in Contexts, NEW g, NEW reqs, Sent(c, g, reqs), NEW n \in 0..Len(reqs)
  PROVE  Sent(c, g, SubSeq(reqs, 1, n))
<1> DEFINE V == AnyMessage(c)
           r == SubSeq(reqs, 1, n)
<1>1. reqs \in Seq(V) /\ \A k \in 1..Len(reqs) : IsMessage(c, g, reqs[k], g.taken + k)
  BY DEF Sent
<1> HIDE DEF V
<1>2. r \in Seq(V) /\ Len(r) = n /\ n <= Len(reqs) /\ \A k \in 1..n : r[k] = reqs[k]
  BY <1>1
<1> HIDE DEF r
<1>3. \A k \in 1..n : k \in 1..Len(reqs)
  BY <1>1, <1>2
<1> QED BY <1>1, <1>2, <1>3 DEF Sent, V, r

LEMMA TerminateStep ==
  ASSUME IInv, NEW c \in Contexts, Terminate(c)
  PROVE  IInv'
<1>1. Types /\ \A d \in Contexts : \E g : Way(d, g)
  BY DEF IInv
<1>2. PICK n \in 0..Len(requests[c]) : requests' = [requests EXCEPT ![c] = SubSeq(requests[c], 1, n)]
  BY DEF Terminate
<1>3. /\ status[c] = "running" /\ status' = [status EXCEPT ![c] = "gone"]
      /\ executes' = [executes EXCEPT ![c] = << >>] /\ batches' = [batches EXCEPT ![c] = << >>]
      /\ aqcbmap' = [aqcbmap EXCEPT ![c] = << >>] /\ answers' = [answers EXCEPT ![c] = << >>]
      /\ UNCHANGED <<platform, users, added, finalized, unrecovered, reports, nativeVars>>
  BY DEF Terminate
<1>4. /\ OnContexts(requests') /\ requests'[c] = SubSeq(requests[c], 1, n)
      /\ \A d \in Contexts : d # c => requests'[d] = requests[d]
  <2> DEFINE v == SubSeq(requests[c], 1, n)
  <2>1. Changed(requests', requests, c, v)
    BY <1>2 DEF Changed
  <2> HIDE DEF v
  <2>2. /\ OnContexts(requests') /\ requests'[c] = v
        /\ \A d \in Contexts : d # c => requests'[d] = requests[d]
    BY <1>1, <2>1, Excepted DEF Types, JsFunctions
  <2> QED BY <2>2 DEF v
<1>5. /\ OnContexts(status') /\ status'[c] = "gone"
      /\ \A d \in Contexts : d # c => status'[d] = status[d]
  BY <1>1, <1>3 DEF Types, OnContexts
<1>6. /\ OnContexts(executes') /\ executes'[c] = << >>
      /\ \A d \in Contexts : d # c => executes'[d] = executes[d]
  BY <1>1, <1>3 DEF Types, JsFunctions, OnContexts
<1>7. /\ OnContexts(batches') /\ batches'[c] = << >>
      /\ \A d \in Contexts : d # c => batches'[d] = batches[d]
  BY <1>1, <1>3 DEF Types, JsFunctions, OnContexts
<1>8. /\ OnContexts(aqcbmap') /\ aqcbmap'[c] = << >>
      /\ \A d \in Contexts : d # c => aqcbmap'[d] = aqcbmap[d]
  BY <1>1, <1>3 DEF Types, JsFunctions, OnContexts
<1>9. /\ OnContexts(answers') /\ answers'[c] = << >>
      /\ \A d \in Contexts : d # c => answers'[d] = answers[d]
  BY <1>1, <1>3 DEF Types, OnContexts
<1>10. Types'
  <2>1. \A d \in Contexts : answers'[d] \in Seq(Replies) /\ finalized'[d] \in BOOLEAN
    BY <1>1, <1>3, <1>9 DEF Types
  <2> QED BY <1>1, <1>3, <1>4, <1>5, <1>6, <1>7, <1>8, <1>9, <2>1
          DEF Types, JsFunctions, OnContexts, nativeVars
<1>11. ASSUME NEW d \in Contexts, d # c PROVE \E f : Way(d, f)'
  <2>1. PICK f : Way(d, f)
    BY <1>1
  <2>2. SameContext(d)
    BY <1>3, <1>5, <1>6, <1>7, <1>8, <1>11 DEF SameContext
  <2>3. /\ requests'[d] = requests[d] /\ answers'[d] = answers[d] /\ unrecovered'[d] = unrecovered[d]
        /\ platform' = platform /\ UNCHANGED nativeVars
    BY <1>3, <1>4, <1>9, <1>11
  <2>4. Way(d, f)'
    BY <2>1, <2>2, <2>3, FrameNative
  <2> QED BY <2>4
<1>12. \E f : Way(c, f)'
  <2>1. PICK g : Way(c, g)
    BY <1>1
  <2>2. /\ platform' = platform /\ added' = added /\ finalized' = finalized /\ reports' = reports
        /\ batchmap' = batchmap /\ queue' = queue /\ executing' = executing /\ executed' = executed
    BY <1>3 DEF nativeVars
  <2>3. Sent(c, g, requests'[c])
    BY <1>4, <2>1, SentPrefix DEF Way
  <2>4. Statuses(g, status'[c], reports'[c], finalized'[c], added'[c])
    BY <1>3, <1>5, <2>1, <2>2 DEF Way, Statuses
  <2>5. Answered(g, platform', answers'[c], status'[c] = "gone")
    BY <1>5, <1>9 DEF Answered
  <2>6. Left(c)'
    <3>1. added[c] \in Nat
      BY <1>3, <2>1 DEF Way, There, Holds
    <3> QED BY <1>6, <1>7, <1>8, <1>9, <2>2, <3>1 DEF Left
  <2>7. Way(c, g)'
    BY <1>5, <2>1, <2>2, <2>3, <2>4, <2>5, <2>6 DEF Way
  <2> QED BY <2>7
<1>13. \A d \in Contexts : \E f : Way(d, f)'
  BY <1>11, <1>12
<1> QED BY <1>10, <1>13 DEF IInv

-----------------------------------------------------------------------------
(* Start and Deliver. *)

\* In h, batch b of g is delivered, if it is not 0, and batches are added.
LEMMA NativeParts ==
  ASSUME NEW c \in Contexts, NEW g, Numbered(c, g), Phased(g), NEW b \in 0..g.n,
         b # 0 => g.phase[b] = "answered",
         NEW h, Numbered(c, h), Extends(InPhase(g, b, "delivered"), h),
         Phased(InPhase(g, b, "delivered")), NEW p
  PROVE  /\ \A bmap : Collected(c, g, bmap) => Collected(c, h, bmap)
         /\ \A q : Queued(c, g, p, q) => Queued(c, h, p, q)
         /\ \A ex : Executing(c, g, p, ex) => Executing(c, h, p, ex)
         /\ \A ex, done : Ordered(c, g, p, ex, done) => Ordered(c, h, p, ex, done)
<1> DEFINE f == InPhase(g, b, "delivered")
<1>0. g.n \in Nat /\ b \in Nat /\ "delivered" \in Phases
  BY HistoryTypes DEF Numbered, Phases
<1>1. /\ SameBatches(g, f) /\ f.taken = g.taken /\ f.phase[b] = "delivered"
      /\ \A a \in Nat : a # b => f.phase[a] = g.phase[a]
  BY <1>0, InPhaseFacts
<1>2. Phased(f) /\ Extends(f, h)
  OBVIOUS
<1> HIDE DEF f
<1>3. Numbered(c, f) /\ f.n = g.n /\ f.at = g.at /\ \A a : Batch(f, a) = Batch(g, a)
  BY <1>1, SameBatchesFacts DEF SameBatches
<1>4. \A a \in 1..g.n : \/ a = b /\ f.phase[a] = "delivered" /\ g.phase[a] = "answered"
                        \/ a # b /\ f.phase[a] = g.phase[a]
  BY <1>0, <1>1
<1>5. \A phase : phase \notin {"answered", "delivered"} => Agrees(g, f, phase)
  <2> TAKE phase
  <2>1. \A a \in 1..g.n : phase \notin {"answered", "delivered"} => (f.phase[a] = phase <=> g.phase[a] = phase)
    BY <1>4
  <2> QED BY <1>3, <2>1 DEF Agrees
<1>6. \A bmap : Collected(c, g, bmap) => Collected(c, h, bmap)
  <2>1. \A bmap : Collected(c, g, bmap) => Collected(c, f, bmap)
    BY <1>1, <1>3 DEF Collected
  <2>2. \A bmap : Collected(c, f, bmap) => Collected(c, h, bmap)
    BY <1>2, <1>3, ExtendsCollected
  <2> QED BY <2>1, <2>2
<1>7. \A q : Queued(c, g, p, q) => Queued(c, h, p, q)
  <2>1. Agrees(g, f, "queued") /\ Agrees(f, h, "queued")
    BY <1>2, <1>3, <1>5, ExtendsAgrees
  <2> QED BY <2>1, QueuedAgrees
<1>8. \A ex : Executing(c, g, p, ex) => Executing(c, h, p, ex)
  <2>1. Agrees(g, f, "executing") /\ Agrees(f, h, "executing")
    BY <1>2, <1>3, <1>5, ExtendsAgrees
  <2> QED BY <2>1, ExecutingAgrees
<1>9. \A ex, done : Ordered(c, g, p, ex, done) => Ordered(c, h, p, ex, done)
  <2>1. \A a \in 1..g.n : /\ f.phase[a] \in {"answered", "delivered"}
                                <=> g.phase[a] \in {"answered", "delivered"}
                          /\ f.phase[a] = "executing" => g.phase[a] = "executing"
    BY <1>4
  <2>2. \A ex, done : Ordered(c, g, p, ex, done) => Ordered(c, f, p, ex, done)
    BY <1>1, <2>1, OrderedPhases
  <2>3. \A ex, done : Ordered(c, f, p, ex, done) => Ordered(c, h, p, ex, done)
    BY <1>2, <1>3, ExtendsOrdered
  <2> QED BY <2>2, <2>3
<1> QED BY <1>6, <1>7, <1>8, <1>9

LEMMA FirstKinds ==
  ASSUME NEW n \in Nat
  PROVE  /\ <<"BEGIN">> \o Users(n) \in Seq(Kinds) /\ Len(<<"BEGIN">> \o Users(n)) = n + 1
         /\ \A i \in 1..(n + 1) : (<<"BEGIN">> \o Users(n))[i] \in {"BEGIN", "user"}
<1> DEFINE u == Users(n)
           s == <<"BEGIN">>
<1>1. u \in Seq(Kinds) /\ Len(u) = n /\ \A i \in 1..n : u[i] = "user"
  BY DEF Users, Kinds
<1>2. s \in Seq(Kinds) /\ Len(s) = 1 /\ s[1] = "BEGIN"
  BY DEF Kinds
<1> HIDE DEF u, s
<1>3. /\ s \o u \in Seq(Kinds) /\ Len(s \o u) = n + 1
      /\ \A i \in 1..(n + 1) : (s \o u)[i] = IF i <= 1 THEN s[i] ELSE u[i - 1]
  <2>1. /\ s \o u \in Seq(Kinds) /\ Len(s \o u) = Len(s) + Len(u)
        /\ \A i \in 1..(Len(s) + Len(u)) :
             (s \o u)[i] = IF i <= Len(s) THEN s[i] ELSE u[i - Len(s)]
    BY <1>1, <1>2, ConcatProperties
  <2>2. Len(s) + Len(u) = n + 1
    BY <1>1, <1>2
  <2> QED BY <1>2, <2>1, <2>2
<1>4. ASSUME NEW i \in 1..(n + 1) PROVE (s \o u)[i] \in {"BEGIN", "user"}
  <2>1. i = 1 \/ i - 1 \in 1..n
    OBVIOUS
  <2>2. i = 1 => i <= 1
    OBVIOUS
  <2>3. i - 1 \in 1..n => ~(i <= 1)
    OBVIOUS
  <2> QED BY <1>1, <1>2, <1>3, <2>1, <2>2, <2>3
<1> QED BY <1>3, <1>4 DEF u, s

\* The history of a context that starts.
LEMMA Started ==
  ASSUME NEW c \in Contexts, NEW g, Numbered(c, g), Phased(g), g.n = 0,
         NEW h, NEW kinds \in Seq(Kinds), Len(kinds) \in Nat \ {0},
         \A i \in 1..Len(kinds) : kinds[i] \notin Ends, added[c] = 0,
         NEW runs \in BOOLEAN, NEW rest, runs <=> rest # << >>,
         Submitted(c, g, h, kinds, runs, rest)
  PROVE  /\ h.n \in Nat /\ h.n # 0 /\ \A b \in 1..h.n : h.phase[b] = "sent"
         /\ Ended(h, FALSE, added'[c], << >>) /\ OneByOne(c, h)
<1> DEFINE add == added'[c]
           m == Len(kinds)
           n == h.n
           top == h.first[n]
<1>1. /\ Phased(h) /\ Extends(g, h) /\ h.kind = Longer(g.kind, 0, kinds)
      /\ Holds(c, h, requests'[c], aqcbmap'[c], batches'[c], add, executes'[c]) /\ add = 0 + m
      /\ runs => 0 < n
      /\ ~runs => executes'[c] = rest
      /\ \A b \in 1..n : h.first[b - 1] < h.first[b] \/ (runs /\ b = n)
      /\ runs => h.first[n - 1] < h.first[n]
      /\ c \notin Chunking => n = IF runs THEN 1 ELSE 0
  <2>1. /\ Phased(h) /\ Extends(g, h) /\ h.kind = Longer(g.kind, added[c], kinds)
        /\ Holds(c, h, requests'[c], aqcbmap'[c], batches'[c], add, executes'[c]) /\ add = added[c] + m
        /\ runs => g.n < n
        /\ ~runs => executes'[c] = rest
        /\ \A b \in (g.n + 1)..n : h.first[b - 1] < h.first[b] \/ (runs /\ b = n)
        /\ runs /\ rest # << >> => h.first[n - 1] < h.first[n]
        /\ c \notin Chunking => n = IF runs THEN g.n + 1 ELSE g.n
    BY DEF Submitted
  <2>2. (g.n + 1) = 1
    OBVIOUS
  <2> QED BY <2>1, <2>2
<1>2. Numbered(c, h) /\ n \in Nat /\ top \in Nat /\ h.first[0] = 0
      /\ executes'[c] = Piece(h.kind, top, add) /\ top <= add /\ h.kind \in [Nat -> Kinds]
      /\ h.phase = g.phase
  BY <1>1, HistoryTypes DEF Holds, Posted, Numbered, Extends
<1>3. m \in Nat /\ m # 0 /\ add = m /\ add \in Nat
  BY <1>1
<1> HIDE DEF add, m, n, top
<1>4. n # 0
  <2>1. CASE runs
    BY <1>1, <1>2, <2>1
  <2>2. CASE ~runs
    <3>1. Piece(h.kind, top, add) = << >>
      BY <1>1, <1>2, <2>2
    <3>2. Len(Piece(h.kind, top, add)) = add - top
      BY <1>2, <1>3, PieceFacts, ZenonT(30)
    <3>3. add = top
      BY <1>2, <1>3, <3>1, <3>2
    <3>4. top # 0
      BY <1>3, <3>3
    <3> QED BY <1>2, <3>4 DEF top
  <2> QED BY <2>1, <2>2
<1>5. \A b \in 1..n : h.phase[b] = "sent"
  <2>1. \A b \in Nat : b > 0 => g.phase[b] = "sent"
    BY DEF Phased
  <2>2. \A b \in 1..n : b \in Nat /\ b > 0
    BY <1>2
  <2> QED BY <1>2, <2>1, <2>2
<1>6. \A i \in 1..add : h.kind[i] \notin Ends
  <2>1. g.kind \in [Nat -> Kinds]
    BY HistoryTypes DEF Numbered
  <2>2. \A i \in 1..Len(kinds) : 0 + i \in Nat /\ Longer(g.kind, 0, kinds)[0 + i] = kinds[i]
    BY <2>1, LongerFacts
  <2>3. \A i \in 1..Len(kinds) : 0 + i = i
    BY <1>3 DEF m
  <2> QED BY <1>1, <1>3, <2>2, <2>3 DEF m
<1>7. \A b \in 1..n : h.first[b - 1] < h.first[b]
  BY <1>1
<1>8. Ended(h, FALSE, add, << >>)
  BY <1>6, <1>7 DEF Ended, n
<1>9. OneByOne(c, h)
  BY <1>1 DEF OneByOne, n
<1> QED BY <1>2, <1>4, <1>5, <1>8, <1>9 DEF add, n

LEMMA StartStep ==
  ASSUME IInv, NEW c \in Contexts, Start(c)
  PROVE  IInv'
<1>1. Types /\ \A d \in Contexts : \E g : Way(d, g)
  BY DEF IInv
<1>2. PICK n \in 0..MaxStatements - users : 
        LET kinds == <<"BEGIN">> \o Users(n) IN
        users' = users + n /\ Submit(c, kinds, Rest(c, Waiting(c, kinds)) # << >>, 0)
  BY DEF Start
<1>3. PICK kinds : kinds = <<"BEGIN">> \o Users(n)
  OBVIOUS
<1>4. PICK rest : rest = Rest(c, Waiting(c, kinds))
  OBVIOUS
<1>5. PICK runs \in BOOLEAN : runs <=> rest # << >>
  OBVIOUS
<1>6. users' = users + n /\ Submit(c, kinds, runs, 0)
  <2>1. Submit(c, kinds, rest # << >>, 0)
    BY <1>2, <1>3, <1>4
  <2>2. runs = (rest # << >>)
    BY <1>5
  <2> QED BY <1>2, <2>1, <2>2
<1>7. /\ status[c] = "new" /\ status' = [status EXCEPT ![c] = "running"]
      /\ UNCHANGED <<platform, finalized, unrecovered, reports, answers, nativeVars>>
  BY DEF Start
<1>8. users \in 0..MaxStatements /\ MaxStatements \in Nat /\ n \in Nat /\ users' \in 0..MaxStatements
  BY <1>1, <1>2, <1>6, StatementBatchAssumption DEF Types
<1>9. /\ kinds \in Seq(Kinds) /\ Len(kinds) \in Nat \ {0} /\ \A i \in 1..Len(kinds) : kinds[i] \notin Ends
  <2>1. /\ kinds \in Seq(Kinds) /\ Len(kinds) = n + 1
        /\ \A i \in 1..(n + 1) : kinds[i] \in {"BEGIN", "user"}
    BY <1>3, <1>8, FirstKinds
  <2>2. Len(kinds) \in Nat \ {0}
    BY <1>8, <2>1
  <2>3. \A i \in 1..Len(kinds) : kinds[i] \in {"BEGIN", "user"}
    BY <2>1
  <2> QED BY <2>1, <2>2, <2>3 DEF Ends
<1>10. JsFunctions
  BY <1>1 DEF Types
<1>11. /\ JsFunctions'
       /\ \A d \in Contexts : d # c =>
            /\ added'[d] = added[d] /\ executes'[d] = executes[d] /\ batches'[d] = batches[d]
            /\ requests'[d] = requests[d] /\ aqcbmap'[d] = aqcbmap[d]
  BY <1>6, <1>10, SubmitsAlone
<1>12. /\ OnContexts(status') /\ status'[c] = "running"
       /\ \A d \in Contexts : d # c => status'[d] = status[d]
  BY <1>1, <1>7 DEF Types, OnContexts
<1>13. Types'
  BY <1>1, <1>7, <1>8, <1>11, <1>12 DEF Types, OnContexts, nativeVars
<1>14. ASSUME NEW d \in Contexts, d # c PROVE \E f : Way(d, f)'
  <2>1. PICK f : Way(d, f)
    BY <1>1
  <2>2. SameContext(d)
    BY <1>7, <1>11, <1>12, <1>14 DEF SameContext
  <2>3. /\ requests'[d] = requests[d] /\ answers'[d] = answers[d] /\ unrecovered'[d] = unrecovered[d]
        /\ platform' = platform /\ UNCHANGED nativeVars
    BY <1>7, <1>11, <1>14
  <2>4. Way(d, f)'
    BY <2>1, <2>2, <2>3, FrameNative
  <2> QED BY <2>4
<1>15. \E f : Way(c, f)'
  <2>1. PICK g : Way(c, g)
    BY <1>1
  <2>2. /\ Numbered(c, g) /\ Phased(g) /\ There(c, g) /\ Collected(c, g, batchmap)
        /\ Queued(c, g, platform, queue) /\ Executing(c, g, platform, executing)
        /\ Answered(g, platform, answers[c], FALSE)
        /\ Ordered(c, g, platform, executing, executed[c])
        /\ Statuses(g, status[c], reports[c], finalized[c], added[c])
    <3>1. (status[c] = "gone") = FALSE
      BY <1>7
    <3> QED BY <2>1, <3>1 DEF Way
  <2>3. g.n = 0 /\ ~finalized[c] /\ added[c] = 0 /\ reports[c] = << >>
    BY <1>7, <2>2 DEF Statuses
  <2>4. finalized[c] = FALSE /\ finalized[c] \in BOOLEAN
    BY <1>1, <2>3 DEF Types
  <2>5. PICK f : f = InPhase(g, 0, "delivered")
    OBVIOUS
  <2>6. /\ Holds(c, f, requests[c], Zeroed(aqcbmap[c], 0), Emptied(batches[c], 0), added[c], executes[c])
        /\ Phased(f)
    <3>1. Holds(c, g, requests[c], aqcbmap[c], batches[c], added[c], executes[c])
      BY <2>2 DEF There
    <3>2. 0 \in 0..g.n
      BY <2>3
    <3> QED BY <2>2, <2>5, <3>1, <3>2, Forgets
  <2>7. f.n = 0 /\ Len(batches[c]) = f.n /\ Numbered(c, f)
    <3>1. Len(batches[c]) = g.n
      BY <2>2 DEF There, Holds
    <3>2. Numbered(c, f)
      BY <2>6 DEF Holds, Posted
    <3> QED BY <2>3, <2>5, <3>1, <3>2 DEF InPhase
  <2>8. PICK h : Submitted(c, f, h, kinds, runs, rest)
    <3>1. 0 \in Nat
      OBVIOUS
    <3>2. \E h : Submitted(c, f, h, kinds, runs, Rest(c, Waiting(c, kinds)))
      BY <1>6, <1>9, <1>10, <2>6, <2>7, <3>1, Submits
    <3> QED BY <1>4, <3>2
  <2>9. /\ h.n \in Nat /\ h.n # 0 /\ \A b \in 1..h.n : h.phase[b] = "sent"
        /\ Ended(h, FALSE, added'[c], << >>) /\ OneByOne(c, h)
    BY <1>5, <1>9, <2>3, <2>6, <2>7, <2>8, Started
  <2>10. /\ Phased(h) /\ Extends(f, h)
         /\ Holds(c, h, requests'[c], aqcbmap'[c], batches'[c], added'[c], executes'[c])
         /\ Numbered(c, h) /\ Sent(c, h, requests'[c])
    BY <2>8 DEF Submitted, Holds, Posted
  <2>11. /\ Collected(c, h, batchmap) /\ Queued(c, h, platform, queue)
         /\ Executing(c, h, platform, executing) /\ Ordered(c, h, platform, executing, executed[c])
    <3>1. 0 \in 0..g.n /\ (0 # 0 => g.phase[0] = "answered")
      BY <2>3
    <3>2. Extends(InPhase(g, 0, "delivered"), h) /\ Phased(InPhase(g, 0, "delivered"))
      BY <2>5, <2>6, <2>10
    <3> QED BY <2>2, <2>10, <3>1, <3>2, NativeParts
  <2>12. Answered(h, platform, answers[c], FALSE)
    <3>1. Agrees(g, h, "answered")
      <4>1. \A b \in 1..g.n : FALSE
        BY <2>3
      <4> QED BY <2>9, <4>1 DEF Agrees
    <3> QED BY <2>2, <3>1, AnsweredAgrees
  <2>13. /\ platform' = platform /\ batchmap' = batchmap /\ queue' = queue /\ executing' = executing
         /\ executed' = executed /\ answers' = answers /\ reports' = reports
         /\ finalized' = finalized /\ unrecovered' = unrecovered
    BY <1>7 DEF nativeVars
  <2>14. Statuses(h, "running", reports[c], finalized[c], added'[c])
    <3>1. 1 \in 1..h.n /\ h.phase[1] # "delivered"
      BY <2>9
    <3> QED BY <2>3, <3>1 DEF Statuses
  <2>15. Recovered(c, h, added'[c], reports[c], unrecovered[c], answers[c], executing)
    <3>1. c \notin Chunking => unrecovered[c] = {}
      <4>1. Recovered(c, g, 0, << >>, unrecovered[c], answers[c], executing)
        BY <2>2, <2>3 DEF There
      <4>2. \A x, s : ~FailedIn(g, x, s)
        BY <2>3 DEF FailedIn
      <4> QED BY <4>1, <4>2 DEF Recovered
    <3> QED BY <3>1 DEF Recovered
  <2>16. There(c, h)'
    <3>1. Ended(h, finalized[c], added'[c], reports[c]) /\ Alone(c, h, finalized[c], added'[c])
      BY <2>3, <2>4, <2>9 DEF Alone
    <3> QED BY <2>10, <2>13, <2>15, <3>1 DEF There
  <2>17. Statuses(h, status'[c], reports'[c], finalized'[c], added'[c])
    BY <1>12, <2>13, <2>14
  <2>18. Answered(h, platform', answers'[c], status'[c] = "gone")
    <3>1. (status'[c] = "gone") = FALSE
      BY <1>12
    <3> QED BY <2>12, <2>13, <3>1
  <2>19. Way(c, h)'
    BY <1>12, <2>9, <2>10, <2>11, <2>13, <2>16, <2>17, <2>18 DEF Way
  <2> QED BY <2>19
<1>16. \A d \in Contexts : \E f : Way(d, f)'
  BY <1>14, <1>15
<1> QED BY <1>13, <1>16 DEF IInv

\* The calls of all handlers of a batch.
CallsOf(outcomes, n) == [i \in 1..n |-> <<i, outcomes[i]>>]

\* Statement s of stmts has failed, or has not.
Fails(stmts, outcomes, s) ==
  \E j \in 1..Len(stmts) : s = stmts[j] /\ outcomes[j][1] = "error"
Succeeds(stmts, outcomes, s) ==
  \E j \in 1..Len(stmts) : s = stmts[j] /\ outcomes[j][1] # "error"

LEMMA SqlsAre ==
  ASSUME NEW c, NEW b, NEW stmts \in Seq(Sql), batches[c][b] = stmts, NEW o,
         NEW calls, calls = CallsOf(o, Len(stmts))
  PROVE  /\ \A s : s \in Sqls(c, b, calls, "error") <=> Fails(stmts, o, s)
         /\ \A s : s \in Sqls(c, b, calls, "success") <=> Succeeds(stmts, o, s)
<1> DEFINE n == Len(stmts)
<1>1. DOMAIN calls = 1..n /\ \A i \in 1..n : calls[i][1] = i /\ calls[i][2] = o[i]
  BY DEF CallsOf
<1> HIDE DEF n
<1>2. \A what : Sqls(c, b, calls, what) =
                  {stmts[i] : i \in {j \in 1..n : (o[j][1] = "error") = (what = "error")}}
  BY <1>1 DEF Sqls
<1>3. \A j \in 1..n : ((o[j][1] = "error") = ("error" = "error")) <=> o[j][1] = "error"
  OBVIOUS
<1>4. \A j \in 1..n : ((o[j][1] = "error") = ("success" = "error")) <=> o[j][1] # "error"
  OBVIOUS
<1>5. \A s : s \in Sqls(c, b, calls, "error") <=> Fails(stmts, o, s)
  BY <1>2, <1>3 DEF Fails, n
<1>6. \A s : s \in Sqls(c, b, calls, "success") <=> Succeeds(stmts, o, s)
  BY <1>2, <1>4 DEF Succeeds, n
<1> QED BY <1>5, <1>6

\* ... and a statement of this kind.
FailsKind(stmts, outcomes, kind) ==
  \E j \in 1..Len(stmts) : kind = stmts[j][2] /\ outcomes[j][1] = "error"
SucceedsKind(stmts, outcomes, kind) ==
  \E j \in 1..Len(stmts) : kind = stmts[j][2] /\ outcomes[j][1] # "error"

LEMMA KindsAre ==
  ASSUME NEW c, NEW b, NEW stmts \in Seq(Sql), batches[c][b] = stmts, NEW o,
         NEW calls, calls = CallsOf(o, Len(stmts))
  PROVE  /\ \A k : k \in Kind(Sqls(c, b, calls, "error")) <=> FailsKind(stmts, o, k)
         /\ \A k : k \in Kind(Sqls(c, b, calls, "success")) <=> SucceedsKind(stmts, o, k)
<1> DEFINE failed == Sqls(c, b, calls, "error")
           others == Sqls(c, b, calls, "success")
<1>1. /\ \A s : s \in failed <=> Fails(stmts, o, s)
      /\ \A s : s \in others <=> Succeeds(stmts, o, s)
  BY SqlsAre
<1> HIDE DEF failed, others
<1>2. \A T, k : k \in Kind(T) <=> \E s \in T : k = s[2]
  BY DEF Kind
<1>3. \A k : k \in Kind(failed) <=> FailsKind(stmts, o, k)
  BY <1>1, <1>2 DEF Fails, FailsKind
<1>4. \A k : k \in Kind(others) <=> SucceedsKind(stmts, o, k)
  BY <1>1, <1>2 DEF Succeeds, SucceedsKind
<1> QED BY <1>3, <1>4 DEF failed, others

\* What the application is told, when the handlers of a batch are called.
TellsEnd(told, stmts, o) ==
  /\ told \in {<< >>, <<"success">>, <<"error">>}
  /\ told # << >> <=> \E j \in 1..Len(stmts) : stmts[j][2] \in Ends
  /\ told = <<"success">> => \E j \in 1..Len(stmts) : stmts[j][2] = "COMMIT" /\ o[j][1] # "error"

LEMMA ToldIs ==
  ASSUME NEW c, NEW b, NEW stmts \in Seq(Sql), batches[c][b] = stmts, NEW o,
         NEW calls, calls = CallsOf(o, Len(stmts))
  PROVE  TellsEnd(Told(c, b, calls), stmts, o)
<1> DEFINE failed == Kind(Sqls(c, b, calls, "error"))
           others == Kind(Sqls(c, b, calls, "success"))
           told == Told(c, b, calls)
<1>1. /\ \A k : k \in failed <=> FailsKind(stmts, o, k)
      /\ \A k : k \in others <=> SucceedsKind(stmts, o, k)
  BY KindsAre
<1>2. told = IF Ends \cap failed # {} \/ "ROLLBACK" \in others THEN <<"error">>
             ELSE IF "COMMIT" \in others THEN <<"success">> ELSE << >>
  BY DEF Told, Ends
<1> HIDE DEF failed, others, told
<1>3. told \in {<< >>, <<"success">>, <<"error">>}
  BY <1>2
<1>4. <<"error">> # << >> /\ <<"success">> # << >> /\ <<"success">> # <<"error">>
  OBVIOUS
<1>5. told # << >> <=> Ends \cap failed # {} \/ Ends \cap others # {}
  BY <1>2, <1>4 DEF Ends
<1>6. Ends \cap failed # {} \/ Ends \cap others # {} <=> \E j \in 1..Len(stmts) : stmts[j][2] \in Ends
  BY <1>1 DEF FailsKind, SucceedsKind
<1>7. told = <<"success">> => \E j \in 1..Len(stmts) : stmts[j][2] = "COMMIT" /\ o[j][1] # "error"
  BY <1>1, <1>2, <1>4 DEF SucceedsKind
<1>8. TellsEnd(told, stmts, o)
  BY <1>3, <1>5, <1>6, <1>7 DEF TellsEnd
<1> QED BY <1>8 DEF told

\* The batch that has a statement.
HasIt(g, b, i) == g.first[b - 1] < i /\ i <= g.first[b]

LEMMA SomeBatchHasIt ==
  ASSUME NEW c \in Contexts, NEW g, Numbered(c, g), NEW i \in Nat \ {0}, i <= g.first[g.n]
  PROVE  \E b \in 1..g.n : HasIt(g, b, i)
<1> DEFINE n == g.n
           T == {b \in 0..n : i <= g.first[b]}
<1>1. n \in Nat /\ g.first[0] = 0 /\ \A b \in 0..n : g.first[b] \in Nat
  BY Order, HistoryTypes DEF Numbered
<1>2. T \subseteq Nat /\ T # {}
  <2>1. n \in T
    BY <1>1
  <2> QED BY <1>1, <2>1
<1>3. PICK b \in T : \A y \in T : b <= y
  BY <1>2, SmallestNumber
<1>4. b \in 0..n /\ i <= g.first[b] /\ b # 0
  BY <1>1, <1>3
<1>5. b - 1 \in 0..n /\ b - 1 \notin T /\ b \in 1..n
  BY <1>1, <1>3, <1>4
<1>6. g.first[b - 1] < i
  BY <1>1, <1>5
<1> QED BY <1>4, <1>5, <1>6 DEF HasIt

LEMMA OneBatchHasIt ==
  ASSUME NEW c \in Contexts, NEW g, Numbered(c, g), NEW i \in Nat, NEW a \in 1..g.n, NEW b \in 1..g.n,
         HasIt(g, a, i), HasIt(g, b, i)
  PROVE  a = b
<1> DEFINE n == g.n
<1>1. n \in Nat /\ (\A k \in 0..n : g.first[k] \in Nat) /\ \A j, k \in 0..n : j <= k => g.first[j] <= g.first[k]
  BY Order, HistoryTypes DEF Numbered
<1>2. a \in 0..n /\ b \in 0..n /\ a - 1 \in 0..n /\ b - 1 \in 0..n
  BY <1>1
<1>3. g.first[a - 1] < i /\ i <= g.first[a] /\ g.first[b - 1] < i /\ i <= g.first[b]
  BY DEF HasIt
<1> HIDE DEF n
<1>4. ~(a <= b - 1)
  BY <1>1, <1>2, <1>3
<1>5. ~(b <= a - 1)
  BY <1>1, <1>2, <1>3
<1> QED BY <1>1, <1>2, <1>4, <1>5

NoRollback(g, add) == \A i \in 1..add : g.kind[i] # "ROLLBACK"
AllFail(T, stmts, outcomes) == \A s \in T : Fails(stmts, outcomes, s)

\* The answer is the only one of a context that is not chunking: statements that
\* are not recovered have failed in it.
LEMMA FailedInAnswer ==
  ASSUME NEW c \in Contexts, NEW g, Numbered(c, g), OneByOne(c, g), c \notin Chunking,
         NEW b \in 1..g.n, g.phase[b] = "answered", NEW p, NEW ex, Executing(c, g, p, ex),
         NEW ans, Answered(g, p, ans, FALSE), 1 \in 1..Len(ans), ans[1].cbid = g.at[b],
         NEW add, NEW reps, NEW unrec, Recovered(c, g, add, reps, unrec, ans, ex),
         reps # <<"error">>, NoRollback(g, add)
  PROVE  b = g.n /\ AllFail(unrec, Batch(g, b), ans[1].outcomes)
<1>1. \A a \in 1..g.n : g.phase[a] # "delivered" => a = g.n
  BY DEF OneByOne
<1>2. b = g.n
  BY <1>1
<1>3. ASSUME NEW s \in unrec PROVE Fails(Batch(g, b), ans[1].outcomes, s)
  <2>1. \/ \E k \in 1..Len(ans) : FailedIn(g, ans[k], s)
        \/ \E x \in ex : x.to = c /\ FailedIn(g, x, s)
    BY DEF Recovered, NoRollback
  <2>2. ASSUME NEW x \in ex, x.to = c PROVE FALSE
    <3>1. PICK a \in 1..g.n : g.phase[a] = "executing"
      BY <2>2 DEF Executing
    <3> QED BY <1>1, <1>2, <3>1
  <2>3. ASSUME NEW k \in 1..Len(ans) PROVE k = 1
    <3>1. PICK a \in 1..g.n : HasResults(g, p, ans[k], a) /\ g.phase[a] = "answered"
      BY DEF Answered
    <3>2. a = b
      BY <1>1, <1>2, <3>1
    <3>3. ans[k].cbid = ans[1].cbid
      BY <3>1, <3>2 DEF HasResults
    <3>4. k # 1 => ans[k].cbid # ans[1].cbid
      BY DEF Answered
    <3> QED BY <3>3, <3>4
  <2>4. FailedIn(g, ans[1], s)
    BY <2>1, <2>2, <2>3
  <2>5. PICK a \in 1..g.n : \E j \in 1..Len(Batch(g, a)) :
          ans[1].cbid = g.at[a] /\ j <= Len(ans[1].outcomes) /\ ans[1].outcomes[j][1] = "error"
          /\ s = Batch(g, a)[j]
    BY <2>4 DEF FailedIn
  <2>6. a = b
    BY <2>5, AtIsOne
  <2> QED BY <2>5, <2>6 DEF Fails
<1> QED BY <1>2, <1>3 DEF AllFail

\* The answers behind the first, when its batch b is delivered.
LEMMA AnsweredTail ==
  ASSUME NEW c \in Contexts, NEW g, Numbered(c, g), NEW h, SameBatches(g, h),
         NEW b \in 1..g.n, h.phase[b] = "delivered", \A a \in 1..g.n : a # b => h.phase[a] = g.phase[a],
         NEW p, NEW ans \in Seq(Replies), ans # << >>, ans[1].cbid = g.at[b],
         Answered(g, p, ans, FALSE)
  PROVE  Answered(h, p, Tail(ans), FALSE) /\ Tail(ans) \in Seq(Replies)
<1> DEFINE V == Replies
           r == Tail(ans)
           n == Len(ans)
<1>1. ans \in Seq(V) /\ n \in Nat /\ n > 0
  OBVIOUS
<1> HIDE DEF V
<1>2. r \in Seq(V) /\ Len(r) = n - 1 /\ \A i \in 1..Len(r) : r[i] = ans[i + 1]
  BY <1>1, HeadTailProperties
<1>3. h.n = g.n /\ h.at = g.at /\ \A a : Batch(h, a) = Batch(g, a)
  <2>1. \A a : Batch(h, a) = Batch(g, a)
    BY SameBatchesFacts
  <2> QED BY <2>1 DEF SameBatches
<1> HIDE DEF r, n
<1>4. \A i \in 1..Len(r) : i + 1 \in 1..n /\ i + 1 # 1
  BY <1>1, <1>2
<1>5. 1 \in 1..n
  BY <1>1
<1>6. ASSUME NEW i \in 1..Len(r)
      PROVE  \E a \in 1..h.n : /\ HasResults(h, p, r[i], a) /\ h.phase[a] = "answered"
                               /\ Len(r[i].outcomes) = Len(Batch(h, a))
  <2> DEFINE k == i + 1
  <2>1. k \in 1..n /\ k # 1 /\ r[i] = ans[k]
    BY <1>2, <1>4
  <2> HIDE DEF k
  <2>2. PICK a \in 1..g.n : /\ HasResults(g, p, ans[k], a) /\ g.phase[a] = "answered"
                            /\ Len(ans[k].outcomes) = Len(Batch(g, a))
    BY <2>1 DEF Answered, n
  <2>3. ans[k].cbid # ans[1].cbid
    BY <1>5, <2>1 DEF Answered, n
  <2>4. a # b
    BY <2>2, <2>3 DEF HasResults
  <2>5. HasResults(h, p, ans[k], a)
    BY <1>3, <2>2 DEF HasResults
  <2> QED BY <1>3, <2>1, <2>2, <2>4, <2>5
<1>7. ASSUME NEW i \in 1..Len(r), NEW j \in 1..Len(r), i # j PROVE r[i].cbid # r[j].cbid
  <2> DEFINE k == i + 1
             l == j + 1
  <2>1. k \in 1..n /\ l \in 1..n /\ k # l /\ r[i] = ans[k] /\ r[j] = ans[l]
    BY <1>2, <1>4, <1>7
  <2> HIDE DEF k, l
  <2>2. \A x, y \in 1..n : x # y => ans[x].cbid # ans[y].cbid
    BY DEF Answered, n
  <2>3. ans[k].cbid # ans[l].cbid
    BY <2>1, <2>2
  <2> QED BY <2>1, <2>3
<1>8. ASSUME NEW a \in 1..h.n, h.phase[a] = "answered" PROVE \E i \in 1..Len(r) : r[i].cbid = h.at[a]
  <2>1. a \in 1..g.n /\ a # b /\ g.phase[a] = "answered"
    BY <1>3, <1>8
  <2>2. PICK k \in 1..n : ans[k].cbid = g.at[a]
    BY <2>1 DEF Answered, n
  <2>3. k # 1
    BY <2>1, <2>2, AtIsOne
  <2>4. k - 1 \in 1..Len(r) /\ (k - 1) + 1 = k
    BY <1>1, <1>2, <2>2, <2>3
  <2>5. r[k - 1] = ans[k]
    BY <1>2, <2>4
  <2> QED BY <1>3, <2>2, <2>4, <2>5
<1>9. Answered(h, p, r, FALSE)
  BY <1>6, <1>7, <1>8 DEF Answered
<1> QED BY <1>2, <1>9 DEF r, V

\* A finalized transaction: nothing is added, and nothing is sent.
LEMMA DecidesNothing ==
  ASSUME NEW c, finalized[c], executes[c] = << >>, NEW b, NEW calls, NEW throws,
         Decide(c, b, calls, throws, 0)
  PROVE  /\ Submit(c, << >>, FALSE, b) /\ finalized' = finalized
         /\ Rest(c, Waiting(c, << >>)) = << >>
<1>1. Users(0) = << >>
  BY DEF Users
<1>2. Waiting(c, << >>) = << >>
  <2> DEFINE more == [i \in DOMAIN << >> |-> <<added[c] + i, << >>[i]>>]
  <2>1. more = << >>
    OBVIOUS
  <2> HIDE DEF more
  <2>2. << >> \o << >> = << >>
    OBVIOUS
  <2> QED BY <2>1, <2>2 DEF Waiting, more
<1>3. Rest(c, << >>) = << >>
  <2> DEFINE size == MaxSqlChunk + 1
             m == ChunkCount(c, << >>)
  <2>1. size \in Nat \ {0}
    BY StatementBatchAssumption
  <2> HIDE DEF size
  <2>2. Len(<< >>) = 0 /\ 0 \in Nat
    OBVIOUS
  <2>3. 0 \div size \in Nat /\ (0 \div size) * size <= 0
    BY <2>1, <2>2, Division
  <2>4. m \in Nat
    BY <2>2, <2>3 DEF ChunkCount, size
  <2> HIDE DEF m
  <2>5. m * size \in Nat
    BY <2>1, <2>4
  <2> DEFINE k == m * size
  <2> HIDE DEF k
  <2>6. SubSeq(<< >>, k + 1, 0) = << >>
    BY <2>5 DEF k
  <2> QED BY <2>2, <2>6 DEF Rest, m, size, k
<1>4. Rest(c, Waiting(c, Users(0))) = << >>
  BY <1>1, <1>2, <1>3
<1>5. Submit(c, Users(0), FALSE, b) /\ finalized' = finalized
  BY <1>4 DEF Decide
<1> QED BY <1>1, <1>2, <1>3, <1>5

\* How a transaction that is not finalized goes on: the kinds of the statements
\* it adds, and whether it is finalized then.
GoesOn(kinds, fin, throws, n, left) ==
  \/ throws /\ fin = TRUE /\ kinds = Append(Users(n), "ROLLBACK")
  \/ ~throws /\ left /\ fin = FALSE /\ kinds = Users(n)
  \/ ~throws /\ ~left /\ fin = TRUE /\ kinds = Append(Users(n), "COMMIT")

\* It has gone on so.
HasGoneOn(c, b, throws, n, left) ==
  /\ OnContexts(finalized') /\ \A d \in Contexts : d # c => finalized'[d] = finalized[d]
  /\ \E kinds : \E fin \in BOOLEAN :
       GoesOn(kinds, fin, throws, n, left) /\ Submit(c, kinds, TRUE, b) /\ finalized'[c] = fin

LEMMA DecidesMore ==
  ASSUME NEW c \in Contexts, ~finalized[c], finalized[c] \in BOOLEAN, OnContexts(finalized),
         NEW b, NEW calls, AllCalled(c, b, calls), NEW throws, NEW n, Decide(c, b, calls, throws, n),
         NEW left, left <=> Rest(c, Waiting(c, Users(n))) # << >>
  PROVE  HasGoneOn(c, b, throws, n, left)
<1>1. finalized[c] = FALSE
  OBVIOUS
<1>2. \/ throws /\ finalized' = [finalized EXCEPT ![c] = TRUE] /\ Submit(c, Append(Users(n), "ROLLBACK"), TRUE, b)
      \/ ~throws /\ left /\ finalized' = finalized /\ Submit(c, Users(n), TRUE, b)
      \/ ~throws /\ ~left /\ finalized' = [finalized EXCEPT ![c] = TRUE]
         /\ Submit(c, Append(Users(n), "COMMIT"), TRUE, b)
  BY DEF Decide
<1>3. finalized' = [finalized EXCEPT ![c] = TRUE] =>
        /\ OnContexts(finalized') /\ finalized'[c] = TRUE
        /\ \A d \in Contexts : d # c => finalized'[d] = finalized[d]
  BY DEF OnContexts
<1>4. OnContexts(finalized') /\ \A d \in Contexts : d # c => finalized'[d] = finalized[d]
  BY <1>2, <1>3
<1>5. CASE throws /\ finalized' = [finalized EXCEPT ![c] = TRUE] /\ Submit(c, Append(Users(n), "ROLLBACK"), TRUE, b)
  <2>1. GoesOn(Append(Users(n), "ROLLBACK"), TRUE, throws, n, left)
    BY <1>5 DEF GoesOn
  <2> QED BY <1>3, <1>4, <1>5, <2>1 DEF HasGoneOn
<1>6. CASE ~throws /\ left /\ finalized' = finalized /\ Submit(c, Users(n), TRUE, b)
  <2>1. GoesOn(Users(n), FALSE, throws, n, left)
    BY <1>6 DEF GoesOn
  <2> QED BY <1>1, <1>4, <1>6, <2>1 DEF HasGoneOn
<1>7. CASE ~throws /\ ~left /\ finalized' = [finalized EXCEPT ![c] = TRUE]
           /\ Submit(c, Append(Users(n), "COMMIT"), TRUE, b)
  <2>1. GoesOn(Append(Users(n), "COMMIT"), TRUE, throws, n, left)
    BY <1>7 DEF GoesOn
  <2> QED BY <1>3, <1>4, <1>7, <2>1 DEF HasGoneOn
<1> QED BY <1>2, <1>5, <1>6, <1>7 DEF HasGoneOn

\* The kinds of the statements that are added.
Goes(kinds, fin, throws, n, left) ==
  /\ kinds \in Seq(Kinds)
  /\ fin => Len(kinds) = n + 1
  /\ ~fin => Len(kinds) = n
  /\ \A i \in 1..n : kinds[i] = "user"
  /\ fin /\ throws => kinds[n + 1] = "ROLLBACK"
  /\ fin /\ ~throws => kinds[n + 1] = "COMMIT"
  /\ fin => throws \/ ~left
  /\ ~fin => ~throws /\ left

LEMMA GoesOnFacts ==
  ASSUME NEW kinds, NEW fin \in BOOLEAN, NEW throws \in BOOLEAN, NEW n \in Nat, NEW left \in BOOLEAN,
         GoesOn(kinds, fin, throws, n, left)
  PROVE  Goes(kinds, fin, throws, n, left)
<1> DEFINE u == Users(n)
<1>1. u \in Seq(Kinds) /\ Len(u) = n /\ \A i \in 1..n : u[i] = "user"
  BY DEF Users, Kinds
<1> HIDE DEF u
<1>2. \A e \in Kinds : /\ Append(u, e) \in Seq(Kinds) /\ Len(Append(u, e)) = n + 1
                       /\ Append(u, e)[n + 1] = e /\ \A i \in 1..n : Append(u, e)[i] = u[i]
  BY <1>1, Appended
<1>3. "ROLLBACK" \in Kinds /\ "COMMIT" \in Kinds
  BY DEF Kinds
<1>4. \/ throws /\ fin = TRUE /\ kinds = Append(u, "ROLLBACK")
      \/ ~throws /\ left /\ fin = FALSE /\ kinds = u
      \/ ~throws /\ ~left /\ fin = TRUE /\ kinds = Append(u, "COMMIT")
  BY DEF GoesOn, u
<1> QED BY <1>1, <1>2, <1>3, <1>4 DEF Goes

\* COMMIT is added when no statement waits.
LEMMA NothingLeft ==
  ASSUME NEW c, c \notin Chunking, executes[c] \in Seq(Sql), NEW n \in Nat,
         Rest(c, Waiting(c, Users(n))) = << >>
  PROVE  n = 0 /\ executes[c] = << >>
<1> DEFINE w == executes[c]
           u == Users(n)
           more == [i \in DOMAIN u |-> <<added[c] + i, u[i]>>]
           all == w \o more
<1>1. Len(w) \in Nat /\ Len(all) = Len(w) + n /\ all = Waiting(c, Users(n))
  <2>1. u \in Seq({"user"}) /\ Len(u) = n /\ DOMAIN u = 1..n
    BY DEF Users
  <2> DEFINE v(i) == <<added[c] + i, u[i]>>
  <2>2. more = [i \in 1..n |-> v(i)]
    BY <2>1
  <2> DEFINE V == {v(i) : i \in 1..n} \cup Sql
  <2>3. \A i \in 1..n : v(i) \in V
    OBVIOUS
  <2>4. w \in Seq(V)
    OBVIOUS
  <2> HIDE DEF v, V, u, w, more
  <2>5. more \in Seq(V) /\ Len(more) = n
    BY <2>2, <2>3
  <2>6. Len(w \o more) = Len(w) + Len(more)
    BY <2>4, <2>5, ConcatProperties
  <2>7. Len(w) \in Nat
    BY <2>4
  <2> QED BY <2>5, <2>6, <2>7 DEF Waiting, u, w, more
<1> HIDE DEF all
<1>2. Rest(c, all) = SubSeq(all, 1, Len(all))
  BY StatementBatchAssumption DEF Rest, ChunkCount
<1>3. Len(SubSeq(all, 1, Len(all))) = Len(all)
  <2> DEFINE m == Len(all)
  <2>1. m \in Nat
    BY <1>1
  <2> HIDE DEF m
  <2>2. Len(SubSeq(all, 1, m)) = m
    BY <2>1
  <2> QED BY <2>2 DEF m
<1>4. Len(all) = 0
  BY <1>1, <1>2, <1>3
<1>5. n = 0 /\ Len(w) = 0
  BY <1>1, <1>4
<1> QED BY <1>5

\* The statements of h are the first a of f and those added.
KindsBehind(h, f, a, kinds) ==
  /\ \A i \in 1..a : h.kind[i] = f.kind[i]
  /\ \A i \in 1..Len(kinds) : h.kind[a + i] = kinds[i]

LEMMA SubmittedKinds ==
  ASSUME NEW c \in Contexts, NEW f, Numbered(c, f), NEW h, NEW kinds \in Seq(Kinds), NEW runs, NEW rest,
         added[c] \in Nat, Submitted(c, f, h, kinds, runs, rest)
  PROVE  KindsBehind(h, f, added[c], kinds)
<1>1. f.kind \in [Nat -> Kinds] /\ h.kind = Longer(f.kind, added[c], kinds)
  BY HistoryTypes DEF Numbered, Submitted
<1>2. /\ \A i \in 0..added[c] : h.kind[i] = f.kind[i]
      /\ \A i \in 1..Len(kinds) : h.kind[added[c] + i] = kinds[i]
  <2> DEFINE a == added[c]
             old == f.kind
  <2>1. a \in Nat /\ old \in [Nat -> Kinds] /\ h.kind = Longer(old, a, kinds)
    BY <1>1
  <2> HIDE DEF a, old
  <2>2. /\ \A i \in 0..a : Longer(old, a, kinds)[i] = old[i]
        /\ \A i \in 1..Len(kinds) : Longer(old, a, kinds)[a + i] = kinds[i]
    BY <2>1, LongerFacts
  <2> QED BY <2>1, <2>2 DEF a, old
<1>3. \A i \in 1..added[c] : i \in 0..added[c]
  OBVIOUS
<1> QED BY <1>2, <1>3 DEF KindsBehind

\* The first add statements of f do not end the transaction, and every batch of f
\* has some.
NoneEnds(f, add) ==
  /\ \A i \in 1..add : f.kind[i] \notin Ends
  /\ \A b \in 1..f.n : f.first[b - 1] < f.first[b]

\* A transaction that was not finalized has gone on.
Gone(c, f, h, fin, throws) ==
  /\ h.n \in Nat /\ f.n < h.n /\ h.phase[h.n] = "sent"
  /\ Ended(h, fin, added'[c], << >>) /\ Alone(c, h, fin, added'[c])
  /\ NoRollback(h, added'[c]) => ~throws
  /\ added[c] <= added'[c] /\ \A i \in 1..added[c] : h.kind[i] = f.kind[i]

LEMMA GrowsOn ==
  ASSUME NEW c \in Contexts, NEW f, Numbered(c, f), Phased(f),
         added[c] \in Nat, f.first[f.n] <= added[c], executes[c] = Piece(f.kind, f.first[f.n], added[c]),
         NoneEnds(f, added[c]),
         NEW kinds, NEW fin \in BOOLEAN, NEW throws \in BOOLEAN, NEW n \in Nat, NEW left \in BOOLEAN,
         left <=> Rest(c, Waiting(c, Users(n))) # << >>, GoesOn(kinds, fin, throws, n, left),
         NEW h, Submitted(c, f, h, kinds, TRUE, Rest(c, Waiting(c, kinds)))
  PROVE  Gone(c, f, h, fin, throws)
<1> DEFINE add == added[c]
           to == added'[c]
           m == f.n
           k == h.n
           rest == Rest(c, Waiting(c, kinds))
           count == Len(kinds)
<1>1. /\ kinds \in Seq(Kinds)
      /\ fin => count = n + 1
      /\ ~fin => count = n
      /\ \A i \in 1..n : kinds[i] = "user"
      /\ fin /\ throws => kinds[n + 1] = "ROLLBACK"
      /\ fin /\ ~throws => kinds[n + 1] = "COMMIT"
      /\ fin => throws \/ ~left
      /\ ~fin => ~throws /\ left
  <2>1. Goes(kinds, fin, throws, n, left)
    BY GoesOnFacts
  <2> QED BY <2>1 DEF Goes
<1>2. /\ \A i \in 1..add : h.kind[i] = f.kind[i]
      /\ \A i \in 1..count : h.kind[add + i] = kinds[i]
  <2>1. KindsBehind(h, f, added[c], kinds)
    BY <1>1, SubmittedKinds
  <2> QED BY <2>1 DEF KindsBehind
<1>3. /\ Phased(h) /\ Extends(f, h) /\ to = add + count /\ h.first[k] = to /\ m < k
      /\ Numbered(c, h)
      /\ \A b \in (m + 1)..k : h.first[b - 1] < h.first[b] \/ b = k
      /\ rest # << >> => h.first[k - 1] < h.first[k]
      /\ c \notin Chunking => k = m + 1
  BY DEF Submitted, Holds, Posted
<1>4. /\ m \in Nat /\ k \in Nat /\ add \in Nat /\ f.first[m] \in Nat /\ f.first[m] <= add
      /\ \A b \in 0..m : h.first[b] = f.first[b] /\ f.first[b] <= f.first[m] /\ f.first[b] \in Nat
  <2>1. m \in Nat /\ k \in Nat
    BY <1>3, HistoryTypes DEF Numbered
  <2>2. \A b \in 0..m : h.first[b] = f.first[b]
    BY <1>3 DEF Extends
  <2>3. \A b \in 0..m : f.first[b] <= f.first[m] /\ f.first[b] \in Nat
    <3>1. m \in 0..m /\ \A b \in 0..m : b <= m
      BY <2>1
    <3> QED BY <3>1, Order
  <2>4. m \in 0..m
    BY <2>1
  <2> QED BY <2>1, <2>2, <2>3, <2>4
<1>5. \A b \in Nat : b > m => h.phase[b] = "sent"
  BY <1>3 DEF Extends, Phased
<1>6. k \in Nat /\ m < k /\ h.phase[k] = "sent"
  BY <1>3, <1>4, <1>5
<1>7. left => rest # << >> \/ fin
  <2>1. left /\ ~fin => kinds = Users(n)
    BY DEF GoesOn
  <2> QED BY <2>1
<1> HIDE DEF add, to, m, k, rest, count
<1>8. count \in Nat /\ (fin => count = n + 1) /\ (~fin => count = n) /\ to \in Nat /\ add <= to
  BY <1>1, <1>3, <1>4
<1>9. fin => /\ throws => h.kind[to] = "ROLLBACK"
             /\ ~throws => h.kind[to] = "COMMIT"
             /\ h.kind[to] \in Ends /\ add < to
  <2>1. fin => n + 1 \in 1..count /\ to = add + (n + 1) /\ add < to
    BY <1>3, <1>4, <1>8
  <2>2. fin => h.kind[to] = kinds[n + 1]
    BY <1>2, <2>1
  <2> QED BY <1>1, <2>1, <2>2 DEF Ends
<1>10. \A i \in 1..to : h.kind[i] \in Ends => fin /\ i = to
  <2> TAKE i \in 1..to
  <2>1. CASE i <= add
    <3>1. i \in 1..add
      BY <2>1, <1>4
    <3>2. f.kind[i] \notin Ends
      BY <3>1 DEF add, NoneEnds
    <3> QED BY <1>2, <3>1, <3>2
  <2>2. CASE i > add /\ i <= add + n
    <3> DEFINE j == i - add
    <3>1. j \in 1..n /\ j \in 1..count /\ i = add + j
      BY <2>2, <1>4, <1>8
    <3> HIDE DEF j
    <3>2. h.kind[i] = "user"
      BY <1>1, <1>2, <3>1
    <3> QED BY <3>2 DEF Ends
  <2>3. CASE i > add + n
    <3>1. fin /\ i = to
      BY <2>3, <1>3, <1>4, <1>8
    <3> QED BY <3>1
  <2>4. i <= add \/ (i > add /\ i <= add + n) \/ i > add + n
    BY <1>4, <1>8
  <2> QED BY <2>1, <2>2, <2>3, <2>4
<1>11. ~fin => \A b \in 1..k : h.first[b - 1] < h.first[b]
  <2> SUFFICES ASSUME ~fin, NEW b \in 1..k PROVE h.first[b - 1] < h.first[b]
    OBVIOUS
  <2>1. CASE b <= m
    <3>1. b \in 0..m /\ b - 1 \in 0..m /\ b \in 1..m
      BY <2>1, <1>4
    <3>2. f.first[b - 1] < f.first[b]
      BY <3>1 DEF m, NoneEnds
    <3> QED BY <1>4, <3>1, <3>2
  <2>2. CASE b > m
    <3>1. b \in (m + 1)..k
      BY <2>2, <1>4
    <3>2. rest # << >>
      BY <1>1, <1>7
    <3> QED BY <1>3, <3>1, <3>2
  <2>3. b <= m \/ b > m
    BY <1>4
  <2> QED BY <2>1, <2>2, <2>3
<1>12. fin => \A b \in 1..k : h.phase[b] = "delivered" => ~(to <= h.first[b])
  <2> SUFFICES ASSUME fin, NEW b \in 1..k, h.phase[b] = "delivered" PROVE ~(to <= h.first[b])
    OBVIOUS
  <2>1. ~(b > m)
    BY <1>5
  <2>2. b \in 0..m
    BY <1>4, <2>1
  <2>3. h.first[b] <= add /\ h.first[b] \in Nat
    BY <1>4, <2>2
  <2> QED BY <1>4, <1>8, <1>9, <2>3
<1>13. Ended(h, fin, to, << >>)
  <2>1. fin => h.first[h.n] = to /\ 0 < to /\ h.kind[to] \in Ends
    BY <1>3, <1>4, <1>8, <1>9 DEF k
  <2>2. ~(fin /\ \E b \in 1..h.n : /\ h.first[b - 1] < to /\ to <= h.first[b] /\ h.phase[b] = "delivered")
    BY <1>12 DEF k
  <2> QED BY <1>10, <1>11, <2>1, <2>2 DEF Ended, k
<1>14. Alone(c, h, fin, to)
  <2> SUFFICES ASSUME c \notin Chunking, fin, h.kind[to] = "COMMIT"
               PROVE  h.first[k - 1] + 1 = h.first[k]
    BY DEF Alone, k
  <2>1. ~throws /\ ~left
    BY <1>1, <1>9
  <2>2. executes[c] = Piece(f.kind, f.first[m], add) /\ f.kind \in [Nat -> Kinds]
    BY HistoryTypes DEF Numbered, m, add
  <2>3. executes[c] \in Seq(Sql) /\ Len(executes[c]) = add - f.first[m]
    BY <1>4, <2>2, PieceFacts
  <2>4. n = 0 /\ executes[c] = << >>
    BY <2>1, <2>3, NothingLeft
  <2>5. f.first[m] = add
    BY <1>4, <2>3, <2>4
  <2>6. k - 1 = m /\ to = add + 1 /\ m \in 0..m
    <3>1. count = 1 /\ to = add + count
      BY <1>3, <1>8, <2>4
    <3>2. k = m + 1
      BY <1>3
    <3> QED BY <1>4, <3>1, <3>2
  <2>7. h.first[m] = add
    BY <1>4, <2>5, <2>6
  <2> QED BY <1>3, <2>6, <2>7
<1>15. NoRollback(h, to) => ~throws
  <2>1. fin => to \in 1..to
    BY <1>4, <1>8, <1>9
  <2> QED BY <1>1, <1>9, <2>1 DEF NoRollback
<1> QED BY <1>2, <1>6, <1>8, <1>13, <1>14, <1>15 DEF add, to, m, k, Gone

\* The last of add statements, which ends the transaction, is the only one that does.
LastEnds(g, add) ==
  /\ g.first[g.n] = add /\ add \in Nat \ {0} /\ g.kind[add] \in Ends
  /\ \A i \in 1..add : g.kind[i] \in Ends => i = add

LEMMA EndHasIt ==
  ASSUME NEW c \in Contexts, NEW g, Numbered(c, g), NEW add, LastEnds(g, add), NEW b \in 1..g.n
  PROVE  /\ (\E j \in 1..Len(Batch(g, b)) : Batch(g, b)[j][2] \in Ends) <=> HasIt(g, b, add)
         /\ \A j \in 1..Len(Batch(g, b)) : Batch(g, b)[j][2] \in Ends => Batch(g, b)[j][2] = g.kind[add]
<1> DEFINE m == g.first[b - 1]
           to == g.first[b]
           stmts == Batch(g, b)
           n == Len(stmts)
<1>1. /\ m \in Nat /\ to \in Nat /\ m <= to /\ to <= add /\ n = to - m /\ add \in Nat
      /\ \A j \in 1..n : stmts[j] = <<m + j, g.kind[m + j]>>
  <2>1. /\ m \in Nat /\ to \in Nat /\ m <= to /\ to <= g.first[g.n] /\ n = to - m
        /\ \A j \in 1..n : stmts[j] = <<m + j, g.kind[m + j]>>
    BY BatchFacts
  <2> QED BY <2>1 DEF LastEnds
<1> HIDE DEF m, to, stmts, n
<1>2. \A j \in 1..n : stmts[j][2] = g.kind[m + j]
  BY <1>1
<1>3. ASSUME NEW j \in 1..n, stmts[j][2] \in Ends PROVE m + j = add
  <2> DEFINE i == m + j
  <2>1. i \in 1..add
    BY <1>1
  <2>2. g.kind[i] \in Ends
    BY <1>2, <1>3
  <2> HIDE DEF i
  <2>3. i = add
    BY <2>1, <2>2 DEF LastEnds
  <2> QED BY <2>3 DEF i
<1>4. ASSUME NEW j \in 1..n, stmts[j][2] \in Ends PROVE HasIt(g, b, add)
  <2>1. m < add /\ add <= to
    BY <1>1, <1>3, <1>4
  <2> QED BY <2>1 DEF HasIt, m, to
<1>5. ASSUME HasIt(g, b, add) PROVE \E j \in 1..n : stmts[j][2] \in Ends
  <2> DEFINE j == add - m
  <2>1. m < add /\ add <= to
    BY <1>5 DEF HasIt, m, to
  <2>2. j \in 1..n /\ m + j = add
    BY <1>1, <2>1
  <2> HIDE DEF j
  <2>3. stmts[j][2] \in Ends
    BY <1>2, <2>2 DEF LastEnds
  <2> QED BY <2>2, <2>3
<1>6. \A j \in 1..n : stmts[j][2] \in Ends => stmts[j][2] = g.kind[add]
  BY <1>2, <1>3
<1> QED BY <1>4, <1>5, <1>6 DEF n, stmts

\* The end has been told: the batch that has the last statement is delivered.
Finished(g, add) == \E b \in 1..g.n : HasIt(g, b, add) /\ g.phase[b] = "delivered"

LEMMA EndedFacts ==
  ASSUME NEW g, NEW add \in Nat, NEW reps, Ended(g, TRUE, add, reps)
  PROVE  LastEnds(g, add) /\ ((reps # << >>) <=> Finished(g, add))
<1>1. Finished(g, add) <=> \E b \in 1..g.n : /\ g.first[b - 1] < add /\ add <= g.first[b]
                                             /\ g.phase[b] = "delivered"
  BY DEF Finished, HasIt
<1>2. LastEnds(g, add)
  BY DEF Ended, LastEnds
<1>3. reps # << >> <=> \E b \in 1..g.n : /\ g.first[b - 1] < add /\ add <= g.first[b]
                                         /\ g.phase[b] = "delivered"
  BY DEF Ended
<1> QED BY <1>1, <1>2, <1>3

LEMMA EndedFrom ==
  ASSUME NEW g, NEW add \in Nat, NEW reps, LastEnds(g, add), (reps # << >>) <=> Finished(g, add),
         reps = <<"success">> => g.kind[add] = "COMMIT"
  PROVE  Ended(g, TRUE, add, reps)
<1>1. Finished(g, add) <=> \E b \in 1..g.n : /\ g.first[b - 1] < add /\ add <= g.first[b]
                                             /\ g.phase[b] = "delivered"
  BY DEF Finished, HasIt
<1>2. reps # << >> <=> /\ TRUE
                       /\ \E b \in 1..g.n : /\ g.first[b - 1] < add /\ add <= g.first[b]
                                            /\ g.phase[b] = "delivered"
  BY <1>1
<1>3. /\ \A i \in 1..add : g.kind[i] \in Ends => TRUE /\ i = add
      /\ TRUE => g.first[g.n] = add /\ 0 < add /\ g.kind[add] \in Ends
  BY DEF LastEnds
<1> QED BY <1>2, <1>3 DEF Ended

\* A batch of a finalized transaction is delivered: nothing is sent.
LEMMA SendsNothing ==
  ASSUME NEW c \in Contexts, NEW f, Numbered(c, f), added[c] \in Nat, LastEnds(f, added[c]),
         NEW h, Submitted(c, f, h, << >>, FALSE, << >>)
  PROVE  /\ h.n = f.n /\ added'[c] = added[c] /\ \A i \in 1..added[c] : h.kind[i] = f.kind[i]
         /\ \A b \in 0..f.n : h.first[b] = f.first[b]
         /\ \A b \in 1..f.n : \A i : HasIt(h, b, i) <=> HasIt(f, b, i)
         /\ h.phase = f.phase /\ LastEnds(h, added[c])
<1> DEFINE add == added[c]
           m == f.n
           k == h.n
<1>1. /\ Extends(f, h) /\ added'[c] = add + Len(<< >>) /\ Numbered(c, h)
      /\ h.first[k] <= added'[c]
      /\ \A b \in (m + 1)..k : h.first[b - 1] < h.first[b] \/ (FALSE /\ b = k)
  BY DEF Submitted, Holds, Posted
<1>2. added'[c] = add
  <2>1. Len(<< >>) = 0
    OBVIOUS
  <2> QED BY <1>1, <2>1
<1>3. /\ m \in Nat /\ k \in Nat /\ m <= k /\ h.phase = f.phase
      /\ \A b \in 0..m : h.first[b] = f.first[b]
      /\ f.first[m] = add /\ \A i \in 1..f.first[m] : h.kind[i] = f.kind[i]
  BY <1>1, HistoryTypes DEF Numbered, Extends, LastEnds
<1>4. k = m
  <2>1. SUFFICES ASSUME m < k PROVE FALSE
    BY <1>3
  <2>2. m + 1 \in (m + 1)..k /\ m \in 0..m /\ m + 1 \in 0..k /\ k \in 0..k /\ m + 1 <= k
        /\ (m + 1) - 1 = m
    BY <1>3, <2>1
  <2>3. h.first[m] < h.first[m + 1]
    BY <1>1, <2>2
  <2>4. h.first[m + 1] <= h.first[k] /\ h.first[m + 1] \in Nat /\ h.first[k] \in Nat
    BY <1>1, <2>2, Order
  <2>5. h.first[m] = add /\ h.first[k] <= add
    BY <1>1, <1>2, <1>3, <2>2
  <2> QED BY <2>3, <2>4, <2>5
<1>5. \A i \in 1..add : h.kind[i] = f.kind[i]
  BY <1>3
<1>6. \A b \in 1..m : \A i : HasIt(h, b, i) <=> HasIt(f, b, i)
  <2>1. \A b \in 1..m : b \in 0..m /\ b - 1 \in 0..m
    BY <1>3
  <2> QED BY <1>3, <2>1 DEF HasIt
<1>7. LastEnds(h, add)
  <2>1. m \in 0..m /\ add \in 1..add
    BY <1>3 DEF LastEnds
  <2> QED BY <1>3, <1>4, <1>5, <2>1 DEF LastEnds
<1> QED BY <1>2, <1>3, <1>4, <1>5, <1>6, <1>7

\* h and reports, when what is told is added to reps.
Ending(h, add, reps, told) ==
  /\ reps \o told \in {<< >>, <<"success">>, <<"error">>}
  /\ reps = << >> \/ told = << >>
  /\ told = << >> => reps \o told = reps
  /\ reps = << >> => reps \o told = told
  /\ Ended(h, TRUE, add, reps \o told)
  /\ reps \o told = << >> => \E a \in 1..h.n : h.phase[a] # "delivered"
\* h has the statements of g, and batch b is delivered.
DeliveredIn(h, g, b, add) ==
  /\ h.n = g.n /\ LastEnds(h, add) /\ \A i \in 1..add : h.kind[i] = g.kind[i]
  /\ \A a \in 1..g.n : \A i : HasIt(h, a, i) <=> HasIt(g, a, i)
  /\ h.phase[b] = "delivered" /\ \A a \in 1..g.n : a # b => h.phase[a] = g.phase[a]

\* The application is told the end once, when the batch that has it is delivered.
LEMMA Finishes ==
  ASSUME NEW c \in Contexts, NEW g, Numbered(c, g), NEW b \in 1..g.n, g.phase[b] # "delivered",
         NEW add \in Nat, NEW reps, Ended(g, TRUE, add, reps), reps \in {<< >>, <<"success">>, <<"error">>},
         NEW h, Numbered(c, h), DeliveredIn(h, g, b, add),
         NEW told \in {<< >>, <<"success">>, <<"error">>},
         (told # << >>) <=> HasIt(g, b, add), told = <<"success">> => g.kind[add] = "COMMIT"
  PROVE  Ending(h, add, reps, told)
<1>0. /\ h.n = g.n /\ LastEnds(h, add) /\ \A i \in 1..add : h.kind[i] = g.kind[i]
      /\ \A a \in 1..g.n : \A i : HasIt(h, a, i) <=> HasIt(g, a, i)
      /\ h.phase[b] = "delivered" /\ \A a \in 1..g.n : a # b => h.phase[a] = g.phase[a]
  BY DEF DeliveredIn
<1>1. LastEnds(g, add) /\ ((reps # << >>) <=> Finished(g, add))
  BY EndedFacts
<1>2. HasIt(g, b, add) => ~Finished(g, add)
  BY OneBatchHasIt DEF Finished
<1>3. reps = << >> \/ told = << >>
  BY <1>1, <1>2
<1>4. /\ told = << >> => reps \o told = reps
      /\ reps = << >> => reps \o told = told
  <2> DEFINE V == Seq({"success", "error"})
  <2>0. << >> \in V /\ <<"success">> \in V /\ <<"error">> \in V
    OBVIOUS
  <2> HIDE DEF V
  <2>1. reps \in V /\ told \in V
    BY <2>0
  <2>2. \A s \in V : << >> \o s = s /\ s \o << >> = s
    BY DEF V
  <2> QED BY <2>1, <2>2
<1>5. reps \o told \in {<< >>, <<"success">>, <<"error">>}
  BY <1>3, <1>4
<1>6. Finished(h, add) <=> Finished(g, add) \/ HasIt(g, b, add)
  BY <1>0 DEF Finished
<1>7. (reps \o told # << >>) <=> Finished(h, add)
  BY <1>1, <1>3, <1>4, <1>6
<1>8. reps \o told = <<"success">> => h.kind[add] = "COMMIT"
  <2>1. reps = <<"success">> => g.kind[add] = "COMMIT"
    BY DEF Ended
  <2>2. add \in 1..add
    BY <1>1 DEF LastEnds
  <2> QED BY <1>0, <1>3, <1>4, <2>1, <2>2
<1>9. Ended(h, TRUE, add, reps \o told)
  BY <1>0, <1>7, <1>8, EndedFrom
<1>10. reps \o told = << >> => \E a \in 1..h.n : h.phase[a] # "delivered"
  <2>1. add \in Nat \ {0} /\ add <= h.first[h.n]
    BY <1>0 DEF LastEnds
  <2>2. PICK a \in 1..h.n : HasIt(h, a, add)
    BY <2>1, SomeBatchHasIt
  <2>3. Finished(h, add) \/ h.phase[a] # "delivered"
    BY <2>2 DEF Finished
  <2> QED BY <1>7, <2>3
<1> QED BY <1>3, <1>4, <1>5, <1>9, <1>10 DEF Ending

\* The answer that is delivered is that of batch b, with these outcomes.
IsAnswer(c, g, b, o) ==
  /\ answers[c][1].cbid = g.at[b] /\ g.phase[b] = "answered" /\ o = answers[c][1].outcomes
  /\ aqcbmap[c][Head(answers[c]).cbid] = b /\ batches[c][b] = Batch(g, b)
  /\ Walk(Head(answers[c]).results, Len(Batch(g, b))) =
       [calls |-> CallsOf(o, Len(Batch(g, b))), end |-> "returns"]

\* a answers batch b, whose handlers find their own results in it.
Answers(c, g, b, a) ==
  /\ a.cbid = g.at[b] /\ g.phase[b] = "answered" /\ a.outcomes \in Seq(Endings)
  /\ aqcbmap[c][a.cbid] = b /\ batches[c][b] = Batch(g, b)
  /\ Len(a.outcomes) = Len(Batch(g, b))
  /\ Walk(a.results, Len(Batch(g, b))) =
       [calls |-> CallsOf(a.outcomes, Len(Batch(g, b))), end |-> "returns"]

LEMMA AnswerOf ==
  ASSUME NEW c \in Contexts, NEW g, There(c, g), Answered(g, platform, answers[c], FALSE),
         NEW k \in 1..Len(answers[c]), NEW a, a = answers[c][k]
  PROVE  \E b \in 1..g.n : Answers(c, g, b, a)
<1>1. PICK b \in 1..g.n : /\ HasResults(g, platform, a, b) /\ g.phase[b] = "answered"
                          /\ Len(a.outcomes) = Len(Batch(g, b))
  BY DEF Answered
<1> DEFINE o == a.outcomes
           n == Len(o)
<1>2. /\ a.cbid = g.at[b] /\ o \in Seq(Endings) /\ a.results \in Seq(Words)
      /\ Laid(a.results, [i \in 1..n |-> Encode(o[i], platform)])
  BY <1>1 DEF HasResults
<1>3. Walk(a.results, n) = [calls |-> [i \in 1..n |-> <<i, o[i]>>], end |-> "returns"]
  <2> DEFINE list == a.results
  <2>1. o \in Seq(Endings) /\ list \in Seq(Words)
        /\ Laid(list, [i \in 1..Len(o) |-> Encode(o[i], platform)])
    BY <1>2
  <2> HIDE DEF list, o
  <2>2. Walk(list, Len(o)) = [calls |-> [i \in 1..Len(o) |-> <<i, o[i]>>], end |-> "returns"]
    BY <2>1, LaidWalk
  <2> QED BY <2>2 DEF list, o
<1>4. aqcbmap[c][g.at[b]] = b /\ batches[c][b] = Batch(g, b)
  <2>1. g.phase[b] # "delivered"
    BY <1>1
  <2> QED BY <2>1 DEF There, Holds, Posted
<1>5. n = Len(Batch(g, b))
  BY <1>1
<1>6. Answers(c, g, b, a)
  BY <1>1, <1>2, <1>3, <1>4, <1>5 DEF CallsOf, Answers
<1> QED BY <1>6

LEMMA FindsBatch ==
  ASSUME NEW c \in Contexts, NEW g, There(c, g), answers[c] \in Seq(Replies),
         answers[c] # << >>, Answered(g, platform, answers[c], FALSE)
  PROVE  \E b \in 1..g.n : \E o : IsAnswer(c, g, b, o)
<1> DEFINE a == answers[c][1]
<1>1. 1 \in 1..Len(answers[c]) /\ Head(answers[c]) = a
  <2> DEFINE V == Replies ans == answers[c]
  <2>1. ans \in Seq(V) /\ ans # << >>
    OBVIOUS
  <2> HIDE DEF V, ans
  <2>2. 1 \in 1..Len(ans) /\ Head(ans) = ans[1]
    BY <2>1
  <2> QED BY <2>2 DEF ans
<1>2. PICK b \in 1..g.n : Answers(c, g, b, a)
  BY <1>1, AnswerOf
<1>3. IsAnswer(c, g, b, a.outcomes)
  <2> HIDE DEF a
  <2>1. answers[c][1] = a /\ Head(answers[c]) = a
    BY <1>1 DEF a
  <2> QED BY <1>2, <2>1 DEF IsAnswer, Answers
<1> QED BY <1>3

\* What Deliver does then.
Delivers(c, b, calls, throws, n) ==
  /\ n \in MoreStatements(c, b, calls)
  /\ Decide(c, b, calls, throws, n) /\ users' = users + n
  /\ unrecovered' = [unrecovered EXCEPT ![c] =
                       IF throws THEN unrecovered[c] ELSE unrecovered[c] \ Sqls(c, b, calls, "error")]
  /\ reports' = [reports EXCEPT ![c] = reports[c] \o Told(c, b, calls)]
  /\ status' = [status EXCEPT ![c] = IF Told(c, b, calls) # << >> THEN "done" ELSE status[c]]
  /\ answers' = [answers EXCEPT ![c] = Tail(answers[c])]
  /\ UNCHANGED <<platform, nativeVars>>

LEMMA DeliversAnswer ==
  ASSUME NEW c \in Contexts, NEW g, NEW b, NEW o, IsAnswer(c, g, b, o),
         NEW calls, calls = CallsOf(o, Len(Batch(g, b))), Deliver(c)
  PROVE  \E throws \in BOOLEAN : \E n : Delivers(c, b, calls, throws, n)
<1>1. aqcbmap[c][Head(answers[c]).cbid] = b
  BY DEF IsAnswer
<1> DEFINE walk == Walk(Head(answers[c]).results, Len(batches[c][b]))
<1>2. walk.calls = calls /\ walk.end = "returns"
  BY DEF IsAnswer
<1> HIDE DEF walk
<1>3. /\ \E throws \in Throws(c, b, walk.calls), n \in MoreStatements(c, b, walk.calls) :
             /\ Decide(c, b, walk.calls, throws, n)
             /\ users' = users + n
             /\ unrecovered' = [unrecovered EXCEPT ![c] =
                                  IF throws THEN @ ELSE @ \ Sqls(c, b, walk.calls, "error")]
      /\ reports' = [reports EXCEPT ![c] = @ \o Told(c, b, walk.calls)]
      /\ status' = [status EXCEPT ![c] =
                      IF walk.end = "loops" THEN "stuck"
                      ELSE IF Told(c, b, walk.calls) # << >> THEN "done" ELSE @]
      /\ answers' = [answers EXCEPT ![c] = Tail(@)]
      /\ UNCHANGED <<platform, nativeVars>>
  BY <1>1 DEF Deliver, walk
<1>4. status' = [status EXCEPT ![c] = IF Told(c, b, calls) # << >> THEN "done" ELSE status[c]]
  BY <1>2, <1>3
<1>5. PICK throws \in Throws(c, b, walk.calls), n \in MoreStatements(c, b, walk.calls) :
        /\ Decide(c, b, walk.calls, throws, n)
        /\ users' = users + n
        /\ unrecovered' = [unrecovered EXCEPT ![c] =
                             IF throws THEN @ ELSE @ \ Sqls(c, b, walk.calls, "error")]
  BY <1>3
<1>6. throws \in BOOLEAN
  BY DEF Throws
<1>7. Delivers(c, b, calls, throws, n)
  BY <1>2, <1>3, <1>4, <1>5 DEF Delivers
<1> QED BY <1>6, <1>7

\* A context before a delivery, and after it.
Before(c, g, b, o) ==
  /\ Numbered(c, g) /\ Phased(g) /\ OneByOne(c, g) /\ There(c, g) /\ b \in 1..g.n
  /\ status[c] \in {"running", "done"}
  /\ Statuses(g, status[c], reports[c], finalized[c], added[c])
  /\ Executing(c, g, platform, executing) /\ Answered(g, platform, answers[c], FALSE)
  /\ 1 \in 1..Len(answers[c]) /\ IsAnswer(c, g, b, o)

After(c, f, h) ==
  /\ Extends(f, h) /\ Numbered(c, h) /\ Phased(h) /\ OneByOne(c, h)
  /\ Holds(c, h, requests'[c], aqcbmap'[c], batches'[c], added'[c], executes'[c])
  /\ Ended(h, finalized'[c], added'[c], reports'[c]) /\ Alone(c, h, finalized'[c], added'[c])
  /\ Statuses(h, status'[c], reports'[c], finalized'[c], added'[c])
  /\ c \notin Chunking /\ reports'[c] # <<"error">> /\ NoRollback(h, added'[c])
       => unrecovered'[c] = {}

LEMMA FailedBefore ==
  ASSUME NEW c \in Contexts, NEW g, NEW b, NEW o, Before(c, g, b, o), c \notin Chunking,
         reports[c] # <<"error">>, NoRollback(g, added[c])
  PROVE  b = g.n /\ AllFail(unrecovered[c], Batch(g, b), o)
<1>1. /\ Numbered(c, g) /\ OneByOne(c, g) /\ b \in 1..g.n /\ g.phase[b] = "answered"
      /\ Executing(c, g, platform, executing) /\ Answered(g, platform, answers[c], FALSE)
      /\ 1 \in 1..Len(answers[c]) /\ answers[c][1].cbid = g.at[b] /\ o = answers[c][1].outcomes
      /\ Recovered(c, g, added[c], reports[c], unrecovered[c], answers[c], executing)
  BY DEF Before, IsAnswer, There
<1>2. b = g.n /\ AllFail(unrecovered[c], Batch(g, b), answers[c][1].outcomes)
  <2> DEFINE ans == answers[c]
             un == unrecovered[c]
             reps == reports[c]
             add == added[c]
             p == platform
             ex == executing
  <2>1. /\ Executing(c, g, p, ex) /\ Answered(g, p, ans, FALSE)
        /\ 1 \in 1..Len(ans) /\ ans[1].cbid = g.at[b]
        /\ Recovered(c, g, add, reps, un, ans, ex)
        /\ reps # <<"error">> /\ NoRollback(g, add)
    BY <1>1
  <2> HIDE DEF ans, un, reps, add, p, ex
  <2>2. b = g.n /\ AllFail(un, Batch(g, b), ans[1].outcomes)
    BY <1>1, <2>1, FailedInAnswer
  <2> QED BY <2>2 DEF ans, un
<1> QED BY <1>1, <1>2

\* Whether the batch of the answer is delivered, the handlers are called.
LEMMA HandlersCalled ==
  ASSUME NEW c \in Contexts, NEW g, NEW b, NEW o, Before(c, g, b, o), JsFunctions,
         NEW kinds \in Seq(Kinds), NEW runs \in BOOLEAN, Submit(c, kinds, runs, b)
  PROVE  /\ Phased(InPhase(g, b, "delivered")) /\ Numbered(c, InPhase(g, b, "delivered"))
         /\ \E h : Submitted(c, InPhase(g, b, "delivered"), h, kinds, runs, Rest(c, Waiting(c, kinds)))
<1> DEFINE f == InPhase(g, b, "delivered")
<1>1. /\ Numbered(c, g) /\ Phased(g) /\ b \in 1..g.n /\ g.phase[b] = "answered"
      /\ Holds(c, g, requests[c], aqcbmap[c], batches[c], added[c], executes[c])
  BY DEF Before, There, IsAnswer
<1>2. b \in 0..g.n /\ b \in Nat /\ (b # 0 => g.phase[b] # "sent")
  BY <1>1
<1>3. /\ Holds(c, f, requests[c], Zeroed(aqcbmap[c], b), Emptied(batches[c], b), added[c], executes[c])
      /\ Phased(f)
  BY <1>1, <1>2, Forgets
<1>4. Numbered(c, f) /\ Len(batches[c]) = f.n
  <2>1. Len(batches[c]) = g.n
    BY <1>1 DEF Holds
  <2>2. f.n = g.n
    BY DEF InPhase
  <2>3. Numbered(c, f)
    BY <1>3 DEF Holds, Posted
  <2> QED BY <2>1, <2>2, <2>3
<1> HIDE DEF f
<1>5. \E h : Submitted(c, f, h, kinds, runs, Rest(c, Waiting(c, kinds)))
  BY <1>2, <1>3, <1>4, Submits
<1> QED BY <1>3, <1>4, <1>5 DEF f

\* The only statement of the batch has not failed.
LEMMA NoneFails ==
  ASSUME NEW T, NEW stmts, NEW o, Len(stmts) = 1, AllFail(T, stmts, o),
         NEW j \in 1..Len(stmts), o[j][1] # "error"
  PROVE  T = {}
BY DEF AllFail, Fails

\* What is left unrecovered, when the last batch of a finalized transaction is
\* delivered.
LEMMA CleanAfterFinal ==
  ASSUME NEW c \in Contexts, NEW g, NEW b, NEW o, Before(c, g, b, o), finalized[c] = TRUE,
         NEW add, add = added[c], add \in Nat, LastEnds(g, add), NoRollback(g, add), c \notin Chunking,
         NEW told, (told # << >>) <=> HasIt(g, b, add), told # <<"error">>, TellsEnd(told, Batch(g, b), o),
         reports[c] # <<"error">>
  PROVE  unrecovered[c] = {}
<1> DEFINE stmts == Batch(g, b)
           T == unrecovered[c]
<1>1. b = g.n /\ AllFail(T, stmts, o)
  BY FailedBefore
<1>2. Numbered(c, g) /\ b \in 1..g.n /\ Alone(c, g, finalized[c], add)
  BY DEF Before, There
<1>3. g.kind[add] = "COMMIT"
  <2>1. add \in 1..add /\ g.kind[add] \in Ends
    BY DEF LastEnds
  <2>2. g.kind[add] # "ROLLBACK"
    BY <2>1 DEF NoRollback
  <2> QED BY <2>1, <2>2 DEF Ends
<1>4. g.first[g.n - 1] + 1 = g.first[g.n]
  BY <1>2, <1>3 DEF Alone
<1>5. g.first[b - 1] \in Nat /\ g.first[b] \in Nat /\ Len(stmts) = g.first[b] - g.first[b - 1]
  BY <1>2, BatchFacts
<1>6. g.first[b - 1] + 1 = g.first[b] /\ g.first[b] = add
  BY <1>1, <1>4 DEF LastEnds
<1>7. Len(stmts) = 1 /\ HasIt(g, b, add)
  <2> DEFINE k == g.first[b - 1]
             m == g.first[b]
  <2> HIDE DEF k, m
  <2>1. k \in Nat /\ k + 1 = m /\ m = add /\ Len(stmts) = m - k
    BY <1>5, <1>6 DEF k, m
  <2>2. k < add /\ add <= m
    BY <2>1
  <2>3. m - k = 1
    BY <2>1
  <2> QED BY <2>1, <2>2, <2>3 DEF HasIt, k, m
<1>8. PICK j \in 1..Len(stmts) : o[j][1] # "error"
  BY <1>7 DEF TellsEnd
<1> HIDE DEF stmts, T
<1>9. T = {}
  BY <1>1, <1>7, <1>8, NoneFails
<1> QED BY <1>9 DEF T

LEMMA AfterFinal ==
  ASSUME NEW c \in Contexts, NEW g, NEW b, NEW o, Before(c, g, b, o), Types, finalized[c] = TRUE,
         NEW calls, calls = CallsOf(o, Len(Batch(g, b))), NEW throws \in BOOLEAN, NEW n,
         Delivers(c, b, calls, throws, n)
  PROVE  /\ n = 0 /\ finalized' = finalized /\ \E kinds, runs : Submit(c, kinds, runs, b)
         /\ \E h : After(c, InPhase(g, b, "delivered"), h)
<1> DEFINE f == InPhase(g, b, "delivered")
           stmts == Batch(g, b)
<1>1. /\ Numbered(c, g) /\ b \in 1..g.n /\ g.phase[b] = "answered" /\ batches[c][b] = stmts
      /\ OneByOne(c, g) /\ Phased(g)
      /\ Holds(c, g, requests[c], aqcbmap[c], batches[c], added[c], executes[c])
      /\ Ended(g, TRUE, added[c], reports[c]) /\ Alone(c, g, TRUE, added[c])
      /\ Statuses(g, status[c], reports[c], TRUE, added[c]) /\ status[c] \in {"running", "done"}
  BY DEF Before, There, IsAnswer
<1>2. PICK add : add = added[c]
  OBVIOUS
<1>3. PICK reps : reps = reports[c]
  OBVIOUS
<1>4. PICK told : told = Told(c, b, calls)
  OBVIOUS
<1>5. add \in Nat /\ LastEnds(g, add) /\ g.kind \in [Nat -> Kinds]
  <2>1. add \in Nat /\ g.kind \in [Nat -> Kinds]
    BY <1>1, <1>2, HistoryTypes DEF Holds, Numbered
  <2> QED BY <1>1, <1>2, <2>1, EndedFacts
<1>6. n = 0 /\ Decide(c, b, calls, throws, 0)
  <2>1. n = 0
    BY DEF Delivers, MoreStatements
  <2> QED BY <2>1 DEF Delivers
<1>7. executes[c] = << >>
  <2>1. executes[c] = Piece(g.kind, g.first[g.n], add) /\ g.first[g.n] = add
    BY <1>1, <1>2, <1>5 DEF Holds, LastEnds
  <2> QED BY <1>5, <2>1, PieceEmpty
<1>8. /\ Submit(c, << >>, FALSE, b) /\ finalized' = finalized /\ Rest(c, Waiting(c, << >>)) = << >>
  BY <1>6, <1>7, DecidesNothing
<1>9. /\ SameBatches(g, f) /\ f.phase[b] = "delivered"
      /\ \A a \in 1..g.n : a # b => f.phase[a] = g.phase[a]
  <2>1. b \in Nat /\ "delivered" \in Phases /\ \A a \in 1..g.n : a \in Nat
    BY <1>1, HistoryTypes DEF Numbered, Phases
  <2> QED BY <1>1, <2>1, InPhaseFacts
<1>10. /\ Phased(f) /\ Numbered(c, f) /\ \E h : Submitted(c, f, h, << >>, FALSE, Rest(c, Waiting(c, << >>)))
  <2>1. << >> \in Seq(Kinds) /\ FALSE \in BOOLEAN /\ JsFunctions
    BY DEF Types
  <2> QED BY <1>8, <2>1, HandlersCalled
<1>11. PICK h : Submitted(c, f, h, << >>, FALSE, << >>)
  BY <1>8, <1>10
<1> HIDE DEF f
<1>12. f.n = g.n /\ f.kind = g.kind /\ f.first = g.first /\ LastEnds(f, add)
  BY <1>5, <1>9 DEF SameBatches, LastEnds
<1>13. /\ h.n = f.n /\ added'[c] = add /\ \A i \in 1..add : h.kind[i] = f.kind[i]
       /\ \A a \in 0..f.n : h.first[a] = f.first[a]
       /\ \A a \in 1..f.n : \A i : HasIt(h, a, i) <=> HasIt(f, a, i)
       /\ h.phase = f.phase /\ LastEnds(h, add)
  <2>1. LastEnds(f, added[c]) /\ added[c] \in Nat
    BY <1>2, <1>5, <1>12
  <2>2. /\ h.n = f.n /\ added'[c] = added[c] /\ \A i \in 1..added[c] : h.kind[i] = f.kind[i]
        /\ \A a \in 0..f.n : h.first[a] = f.first[a]
        /\ \A a \in 1..f.n : \A i : HasIt(h, a, i) <=> HasIt(f, a, i)
        /\ h.phase = f.phase /\ LastEnds(h, added[c])
    BY <1>10, <1>11, <2>1, SendsNothing
  <2> QED BY <1>2, <2>2
<1>14. \A a \in 1..g.n : \A i : HasIt(h, a, i) <=> HasIt(g, a, i)
  BY <1>12, <1>13 DEF HasIt
<1>15. /\ Phased(h) /\ Extends(f, h) /\ Numbered(c, h)
       /\ Holds(c, h, requests'[c], aqcbmap'[c], batches'[c], added'[c], executes'[c])
  BY <1>11 DEF Submitted, Holds, Posted
<1>16. TellsEnd(told, Batch(g, b), o)
  <2>1. stmts \in Seq(Sql)
    BY <1>1, BatchFacts
  <2> HIDE DEF stmts
  <2>2. calls = CallsOf(o, Len(stmts)) /\ batches[c][b] = stmts
    BY <1>1 DEF stmts
  <2>3. TellsEnd(Told(c, b, calls), stmts, o)
    BY <2>1, <2>2, ToldIs
  <2> QED BY <1>4, <2>3 DEF stmts
<1>17. /\ (told # << >>) <=> HasIt(g, b, add)
       /\ told = <<"success">> => g.kind[add] = "COMMIT"
  <2>1. /\ (\E j \in 1..Len(stmts) : stmts[j][2] \in Ends) <=> HasIt(g, b, add)
        /\ \A j \in 1..Len(stmts) : stmts[j][2] \in Ends => stmts[j][2] = g.kind[add]
    BY <1>1, <1>5, EndHasIt
  <2>2. "COMMIT" \in Ends
    BY DEF Ends
  <2>3. TellsEnd(told, stmts, o)
    BY <1>16
  <2> HIDE DEF stmts
  <2> QED BY <2>1, <2>2, <2>3 DEF TellsEnd
<1>18. reps \in {<< >>, <<"success">>, <<"error">>} /\ Ended(g, TRUE, add, reps)
       /\ ((reps # << >>) <=> status[c] = "done")
  BY <1>1, <1>2, <1>3 DEF Statuses
<1>19. /\ reps \o told \in {<< >>, <<"success">>, <<"error">>}
       /\ reps = << >> \/ told = << >>
       /\ told = << >> => reps \o told = reps
       /\ reps = << >> => reps \o told = told
       /\ Ended(h, TRUE, add, reps \o told)
       /\ reps \o told = << >> => \E a \in 1..h.n : h.phase[a] # "delivered"
  <2>1. g.phase[b] # "delivered" /\ told \in {<< >>, <<"success">>, <<"error">>}
    BY <1>1, <1>16 DEF TellsEnd
  <2>2. DeliveredIn(h, g, b, add)
    BY <1>1, <1>9, <1>12, <1>13, <1>14 DEF DeliveredIn
  <2>3. Ending(h, add, reps, told)
    BY <1>1, <1>5, <1>15, <1>17, <1>18, <2>1, <2>2, Finishes
  <2> QED BY <2>3 DEF Ending
<1>20. reports'[c] = reps \o told /\ status'[c] = IF told # << >> THEN "done" ELSE status[c]
  BY <1>3, <1>4 DEF Delivers, Types, OnContexts
<1>21. finalized'[c] = TRUE
  BY <1>8
<1>22. Statuses(h, status'[c], reports'[c], finalized'[c], added'[c])
  <2>1. (reps \o told # << >>) <=> status'[c] = "done"
    BY <1>18, <1>19, <1>20
  <2>2. status'[c] \in {"running", "done"}
    BY <1>1, <1>20
  <2> QED BY <1>19, <1>20, <2>1, <2>2 DEF Statuses
<1>23. OneByOne(c, h)
  BY <1>1, <1>9, <1>12, <1>13 DEF OneByOne
<1>24. Alone(c, h, finalized'[c], added'[c])
  <2>0. f.n = g.n /\ g.n \in Nat /\ b \in 1..g.n /\ add \in Nat \ {0}
    BY <1>1, <1>5, <1>12, HistoryTypes DEF Numbered, LastEnds
  <2>1. g.n \in 0..f.n /\ g.n - 1 \in 0..f.n /\ add \in 1..add
    BY <2>0
  <2> QED BY <1>1, <1>2, <1>12, <1>13, <1>21, <2>1 DEF Alone
<1>25. ASSUME c \notin Chunking, reports'[c] # <<"error">>, NoRollback(h, added'[c])
       PROVE  unrecovered'[c] = {}
  <2>1. NoRollback(g, add)
    BY <1>12, <1>13, <1>25 DEF NoRollback
  <2>2. told # <<"error">> /\ reports[c] # <<"error">>
    <3>1. <<"error">> # << >> /\ reps \o told # <<"error">>
      BY <1>20, <1>25
    <3> QED BY <1>3, <1>19, <3>1
  <2>3. unrecovered[c] = {}
    BY <1>2, <1>5, <1>16, <1>17, <1>25, <2>1, <2>2, CleanAfterFinal
  <2>4. unrecovered'[c] = IF throws THEN unrecovered[c] ELSE unrecovered[c] \ Sqls(c, b, calls, "error")
    BY DEF Delivers, Types, OnContexts
  <2> QED BY <2>3, <2>4
<1>26. After(c, f, h)
  BY <1>13, <1>15, <1>19, <1>20, <1>21, <1>22, <1>23, <1>24, <1>25 DEF After
<1> QED BY <1>6, <1>8, <1>26 DEF f

LEMMA AfterMore ==
  ASSUME NEW c \in Contexts, NEW g, NEW b, NEW o, Before(c, g, b, o), Types, finalized[c] = FALSE,
         NEW calls, calls = CallsOf(o, Len(Batch(g, b))), NEW throws \in BOOLEAN, NEW n,
         Delivers(c, b, calls, throws, n)
  PROVE  /\ users' \in 0..MaxStatements
         /\ OnContexts(finalized') /\ finalized'[c] \in BOOLEAN
         /\ \A d \in Contexts : d # c => finalized'[d] = finalized[d]
         /\ \E kinds, runs : Submit(c, kinds, runs, b)
         /\ \E h : After(c, InPhase(g, b, "delivered"), h)
<1> DEFINE f == InPhase(g, b, "delivered")
           stmts == Batch(g, b)
<1>1. /\ Numbered(c, g) /\ b \in 1..g.n /\ g.phase[b] = "answered" /\ batches[c][b] = stmts
      /\ OneByOne(c, g) /\ Phased(g)
      /\ Holds(c, g, requests[c], aqcbmap[c], batches[c], added[c], executes[c])
      /\ Ended(g, FALSE, added[c], reports[c])
      /\ Statuses(g, status[c], reports[c], FALSE, added[c]) /\ status[c] \in {"running", "done"}
  BY DEF Before, There, IsAnswer
<1>2. PICK add : add = added[c]
  OBVIOUS
<1>3. /\ add \in Nat /\ g.first[g.n] <= add /\ executes[c] = Piece(g.kind, g.first[g.n], add)
      /\ g.n \in Nat
  BY <1>1, <1>2, HistoryTypes DEF Holds, Numbered
<1>4. /\ \A i \in 1..add : g.kind[i] \notin Ends
      /\ \A a \in 1..g.n : g.first[a - 1] < g.first[a]
      /\ reports[c] = << >>
  BY <1>1, <1>2 DEF Ended
<1>5. status[c] = "running"
  BY <1>1, <1>4 DEF Statuses
<1>6. /\ stmts \in Seq(Sql) /\ Len(stmts) \in Nat \ {0}
      /\ \A j \in 1..Len(stmts) : stmts[j][2] \notin Ends
  <2> DEFINE m == g.first[b - 1]
             to == g.first[b]
             k == Len(stmts)
  <2>1. /\ stmts \in Seq(Sql) /\ m \in Nat /\ to \in Nat /\ to <= g.first[g.n] /\ k = to - m
        /\ g.first[g.n] \in Nat /\ \A j \in 1..k : stmts[j] = <<m + j, g.kind[m + j]>>
    <3>1. /\ stmts \in Seq(Sql) /\ m \in Nat /\ to \in Nat /\ to <= g.first[g.n] /\ k = to - m
          /\ \A j \in 1..k : stmts[j] = <<m + j, g.kind[m + j]>>
      BY <1>1, BatchFacts
    <3>2. g.first[g.n] \in Nat
      BY <1>1, <1>3, HistoryTypes DEF Numbered
    <3> QED BY <3>1, <3>2
  <2>2. m < to
    BY <1>1, <1>4
  <2> HIDE DEF m, to, k, stmts
  <2>3. k \in Nat \ {0}
    BY <2>1, <2>2
  <2>4. ASSUME NEW j \in 1..k PROVE stmts[j][2] \notin Ends
    <3> DEFINE i == m + j
    <3>1. i \in 1..add
      BY <1>3, <2>1
    <3> HIDE DEF i
    <3>2. g.kind[i] \notin Ends
      BY <1>4, <3>1
    <3> QED BY <2>1, <3>2 DEF i
  <2> QED BY <2>1, <2>3, <2>4 DEF k
<1>7. AllCalled(c, b, calls)
  <2> HIDE DEF stmts
  <2>1. calls = [i \in 1..Len(stmts) |-> <<i, o[i]>>]
    BY DEF CallsOf, stmts
  <2>2. Len(calls) = Len(stmts)
    <3> DEFINE k == Len(stmts)
               v(i) == <<i, o[i]>>
    <3>1. k \in Nat /\ calls = [i \in 1..k |-> v(i)]
      BY <1>6, <2>1
    <3> HIDE DEF k, v
    <3>2. Len(calls) = k
      BY <3>1
    <3> QED BY <3>2 DEF k
  <2>3. stmts # << >>
    BY <1>6
  <2>4. Len(calls) >= Len(stmts)
    BY <1>6, <2>2
  <2> QED BY <1>1, <2>3, <2>4 DEF AllCalled
<1>8. n \in Nat /\ users' \in 0..MaxStatements
  <2>1. users \in 0..MaxStatements /\ MaxStatements \in Nat
    BY StatementBatchAssumption DEF Types
  <2>2. n = 0 \/ n \in 0..MaxStatements - users
    BY DEF Delivers, MoreStatements
  <2>3. users' = users + n
    BY DEF Delivers
  <2> QED BY <2>1, <2>2, <2>3
<1>9. PICK left \in BOOLEAN : left <=> Rest(c, Waiting(c, Users(n))) # << >>
  OBVIOUS
<1>10. /\ OnContexts(finalized') /\ \A d \in Contexts : d # c => finalized'[d] = finalized[d]
       /\ \E kinds : \E fin \in BOOLEAN :
            GoesOn(kinds, fin, throws, n, left) /\ Submit(c, kinds, TRUE, b) /\ finalized'[c] = fin
  <2>1. ~finalized[c] /\ finalized[c] \in BOOLEAN /\ OnContexts(finalized) /\ Decide(c, b, calls, throws, n)
    BY DEF Types, Delivers
  <2>2. HasGoneOn(c, b, throws, n, left)
    BY <1>7, <1>9, <2>1, DecidesMore
  <2> QED BY <2>2 DEF HasGoneOn
<1>11. PICK kinds, fin : /\ fin \in BOOLEAN
                         /\ GoesOn(kinds, fin, throws, n, left) /\ Submit(c, kinds, TRUE, b) /\ finalized'[c] = fin
  BY <1>10
<1>12. kinds \in Seq(Kinds)
  <2>1. Goes(kinds, fin, throws, n, left)
    BY <1>8, <1>11, GoesOnFacts
  <2> QED BY <2>1 DEF Goes
<1>13. /\ SameBatches(g, f) /\ f.phase[b] = "delivered"
       /\ \A a \in 1..g.n : a # b => f.phase[a] = g.phase[a]
  <2>1. b \in Nat /\ "delivered" \in Phases /\ \A a \in 1..g.n : a \in Nat
    BY <1>1, <1>3 DEF Phases
  <2> QED BY <1>1, <2>1, InPhaseFacts, SMTT(20)
<1>14. /\ Phased(f) /\ Numbered(c, f)
       /\ \E h : Submitted(c, f, h, kinds, TRUE, Rest(c, Waiting(c, kinds)))
  <2>1. TRUE \in BOOLEAN /\ JsFunctions
    BY DEF Types
  <2> QED BY <1>11, <1>12, <2>1, HandlersCalled
<1>15. PICK h : Submitted(c, f, h, kinds, TRUE, Rest(c, Waiting(c, kinds)))
  BY <1>14
<1> HIDE DEF f
<1>16. f.n = g.n /\ f.kind = g.kind /\ f.first = g.first
  BY <1>13 DEF SameBatches
<1>17. /\ h.n \in Nat /\ f.n < h.n /\ h.phase[h.n] = "sent"
       /\ Ended(h, fin, added'[c], << >>) /\ Alone(c, h, fin, added'[c])
       /\ NoRollback(h, added'[c]) => ~throws
       /\ added[c] <= added'[c] /\ \A i \in 1..added[c] : h.kind[i] = f.kind[i]
  <2>1. /\ added[c] \in Nat /\ f.first[f.n] <= added[c]
        /\ executes[c] = Piece(f.kind, f.first[f.n], added[c])
    BY <1>2, <1>3, <1>16
  <2>2. NoneEnds(f, added[c])
    BY <1>2, <1>4, <1>16 DEF NoneEnds
  <2>3. Gone(c, f, h, fin, throws)
    BY <1>8, <1>9, <1>11, <1>14, <1>15, <2>1, <2>2, GrowsOn
  <2> QED BY <2>3 DEF Gone
<1>18. /\ Phased(h) /\ Extends(f, h) /\ Numbered(c, h) /\ added'[c] \in Nat
       /\ Holds(c, h, requests'[c], aqcbmap'[c], batches'[c], added'[c], executes'[c])
       /\ c \notin Chunking => h.n = f.n + 1
  BY <1>15 DEF Submitted, Holds, Posted
<1>19. reports'[c] = << >> /\ status'[c] = "running"
  <2>1. TellsEnd(Told(c, b, calls), stmts, o)
    <3> HIDE DEF stmts
    <3>1. calls = CallsOf(o, Len(stmts))
      BY DEF stmts
    <3> QED BY <1>1, <1>6, <3>1, ToldIs
  <2>2. Told(c, b, calls) = << >>
    <3> HIDE DEF stmts
    <3> QED BY <1>6, <2>1 DEF TellsEnd
  <2>3. reports'[c] = reports[c] \o << >> /\ status'[c] = status[c]
    BY <2>2 DEF Delivers, Types, OnContexts
  <2>4. << >> \o << >> = << >>
    OBVIOUS
  <2> QED BY <1>4, <1>5, <2>3, <2>4
<1>20. Statuses(h, status'[c], reports'[c], finalized'[c], added'[c])
  <2>1. h.n \in 1..h.n /\ h.phase[h.n] # "delivered"
    BY <1>3, <1>16, <1>17
  <2> QED BY <1>19, <2>1 DEF Statuses
<1>21. OneByOne(c, h)
  <2> SUFFICES ASSUME c \notin Chunking, NEW a \in 1..h.n, a # h.n PROVE h.phase[a] = "delivered"
    BY DEF OneByOne
  <2>1. a \in 1..g.n /\ h.phase[a] = f.phase[a]
    <3>1. a \in 1..g.n
      BY <1>3, <1>16, <1>18
    <3>2. h.phase = f.phase
      BY <1>18 DEF Extends
    <3> QED BY <3>1, <3>2
  <2>2. b = g.n
    BY <1>1 DEF OneByOne
  <2>3. a # g.n => g.phase[a] = "delivered"
    BY <1>1, <2>1 DEF OneByOne
  <2> QED BY <1>13, <2>1, <2>2, <2>3
<1>22. ASSUME c \notin Chunking, NoRollback(h, added'[c]) PROVE unrecovered'[c] = {}
  <2>1. ~throws
    BY <1>17, <1>22
  <2>2. NoRollback(g, added[c])
    <3>1. \A i \in 1..added[c] : i \in 1..added'[c]
      BY <1>2, <1>3, <1>17, <1>18
    <3> QED BY <1>16, <1>17, <1>22, <3>1 DEF NoRollback
  <2>3. reports[c] # <<"error">>
    BY <1>4
  <2>4. AllFail(unrecovered[c], stmts, o)
    BY <1>22, <2>2, <2>3, FailedBefore
  <2>5. \A s : s \in Sqls(c, b, calls, "error") <=> Fails(stmts, o, s)
    <3> HIDE DEF stmts
    <3>1. calls = CallsOf(o, Len(stmts))
      BY DEF stmts
    <3> QED BY <1>1, <1>6, <3>1, SqlsAre
  <2>6. unrecovered'[c] = IF throws THEN unrecovered[c] ELSE unrecovered[c] \ Sqls(c, b, calls, "error")
    BY DEF Delivers, Types, OnContexts
  <2> QED BY <2>1, <2>4, <2>5, <2>6 DEF AllFail
<1>23. After(c, f, h)
  BY <1>11, <1>17, <1>18, <1>19, <1>20, <1>21, <1>22 DEF After
<1> QED BY <1>8, <1>10, <1>11, <1>23 DEF f

LEMMA DeliverStep ==
  ASSUME IInv, NEW c \in Contexts, Deliver(c)
  PROVE  IInv'
<1>1. Types /\ \A d \in Contexts : \E g : Way(d, g)
  BY DEF IInv
<1>2. PICK g : Way(c, g)
  BY <1>1
<1>3. answers[c] # << >> /\ status[c] \in {"running", "done"}
  BY DEF Deliver
<1>4. (status[c] = "gone") = FALSE
  BY <1>3
<1>5. /\ Numbered(c, g) /\ Phased(g) /\ There(c, g) /\ OneByOne(c, g)
      /\ Statuses(g, status[c], reports[c], finalized[c], added[c])
      /\ Collected(c, g, batchmap) /\ Queued(c, g, platform, queue)
      /\ Executing(c, g, platform, executing) /\ Answered(g, platform, answers[c], FALSE)
      /\ Ordered(c, g, platform, executing, executed[c])
  BY <1>2, <1>4 DEF Way
<1>6. answers[c] \in Seq(Replies)
  BY <1>1 DEF Types
<1>7. PICK b \in 1..g.n : \E o : IsAnswer(c, g, b, o)
  BY <1>3, <1>5, <1>6, FindsBatch
<1>8. PICK o : IsAnswer(c, g, b, o)
  BY <1>7
<1>9. Before(c, g, b, o)
  <2>1. 1 \in 1..Len(answers[c])
    <3> DEFINE V == Replies
               ans == answers[c]
    <3>1. ans \in Seq(V) /\ ans # << >>
      BY <1>3, <1>6
    <3> HIDE DEF V, ans
    <3>2. 1 \in 1..Len(ans)
      BY <3>1
    <3> QED BY <3>2 DEF ans
  <2> QED BY <1>3, <1>5, <1>8, <2>1 DEF Before
<1>10. PICK calls : calls = CallsOf(o, Len(Batch(g, b)))
  OBVIOUS
<1>11. PICK throws \in BOOLEAN : \E n : Delivers(c, b, calls, throws, n)
  BY <1>8, <1>10, DeliversAnswer
<1>12. PICK n : Delivers(c, b, calls, throws, n)
  BY <1>11
<1> DEFINE f == InPhase(g, b, "delivered")
<1> HIDE DEF f
<1>13. /\ users' \in 0..MaxStatements
       /\ OnContexts(finalized') /\ finalized'[c] \in BOOLEAN
       /\ \A d \in Contexts : d # c => finalized'[d] = finalized[d]
       /\ \E kinds, runs : Submit(c, kinds, runs, b)
       /\ \E h : After(c, f, h)
  <2>1. finalized[c] \in BOOLEAN /\ users \in 0..MaxStatements /\ MaxStatements \in Nat
        /\ OnContexts(finalized)
    BY <1>1, StatementBatchAssumption DEF Types
  <2>2. CASE finalized[c] = TRUE
    <3>1. /\ n = 0 /\ finalized' = finalized /\ \E kinds, runs : Submit(c, kinds, runs, b)
          /\ \E h : After(c, f, h)
      BY <1>1, <1>9, <1>10, <1>12, <2>2, AfterFinal DEF f
    <3>2. users' = users + 0
      BY <1>12, <3>1 DEF Delivers
    <3> QED BY <2>1, <3>1, <3>2
  <2>3. CASE finalized[c] = FALSE
    BY <1>1, <1>9, <1>10, <1>12, <2>3, AfterMore DEF f
  <2> QED BY <2>1, <2>2, <2>3
<1>14. PICK h : After(c, f, h)
  BY <1>13
<1>15. /\ JsFunctions'
       /\ \A d \in Contexts : d # c =>
            /\ added'[d] = added[d] /\ executes'[d] = executes[d] /\ batches'[d] = batches[d]
            /\ requests'[d] = requests[d] /\ aqcbmap'[d] = aqcbmap[d]
  <2>1. JsFunctions
    BY <1>1 DEF Types
  <2>2. PICK kinds, runs : Submit(c, kinds, runs, b)
    BY <1>13
  <2> QED BY <2>1, <2>2, SubmitsAlone
<1>16. /\ OnContexts(status') /\ OnContexts(unrecovered') /\ OnContexts(reports') /\ OnContexts(answers')
       /\ answers'[c] = Tail(answers[c]) /\ status'[c] \in {"running", "done"}
       /\ \A d \in Contexts : d # c =>
            /\ status'[d] = status[d] /\ unrecovered'[d] = unrecovered[d]
            /\ reports'[d] = reports[d] /\ answers'[d] = answers[d]
  BY <1>1, <1>3, <1>12 DEF Delivers, Types, OnContexts
<1>17. /\ platform' = platform /\ batchmap' = batchmap /\ queue' = queue
       /\ executing' = executing /\ executed' = executed
  BY <1>12 DEF Delivers, nativeVars
<1>18. /\ SameBatches(g, f) /\ f.phase[b] = "delivered"
       /\ \A a \in 1..g.n : a # b => f.phase[a] = g.phase[a]
  <2>1. b \in Nat /\ "delivered" \in Phases /\ \A a \in 1..g.n : a \in Nat
    BY <1>5, HistoryTypes DEF Numbered, Phases
  <2> QED BY <1>5, <2>1, InPhaseFacts DEF f
<1>19. Answered(f, platform, answers'[c], FALSE) /\ answers'[c] \in Seq(Replies)
  <2>1. answers[c][1].cbid = g.at[b]
    BY <1>8 DEF IsAnswer
  <2>2. Answered(f, platform, Tail(answers[c]), FALSE) /\ Tail(answers[c]) \in Seq(Replies)
    BY <1>3, <1>5, <1>6, <1>18, <2>1, AnsweredTail
  <2> QED BY <1>16, <2>2
<1>20. Types'
  <2>1. \A d \in Contexts : answers'[d] \in Seq(Replies) /\ finalized'[d] \in BOOLEAN
    <3> TAKE d \in Contexts
    <3>1. CASE d = c
      BY <1>13, <1>19, <3>1
    <3>2. CASE d # c
      BY <1>1, <1>13, <1>16, <3>2 DEF Types
    <3> QED BY <3>1, <3>2
  <2> QED BY <1>1, <1>13, <1>15, <1>16, <1>17, <2>1 DEF Types, OnContexts
<1>21. ASSUME NEW d \in Contexts, d # c PROVE \E e : Way(d, e)'
  <2>1. PICK e : Way(d, e)
    BY <1>1
  <2>2. SameContext(d)
    BY <1>13, <1>15, <1>16, <1>21 DEF SameContext
  <2>3. /\ requests'[d] = requests[d] /\ answers'[d] = answers[d] /\ unrecovered'[d] = unrecovered[d]
        /\ platform' = platform /\ UNCHANGED nativeVars
    BY <1>15, <1>16, <1>17, <1>21 DEF nativeVars
  <2>4. Way(d, e)'
    BY <2>1, <2>2, <2>3, FrameNative
  <2> QED BY <2>4
<1>22. \E e : Way(c, e)'
  <2>1. /\ Extends(f, h) /\ Numbered(c, h) /\ Phased(h) /\ OneByOne(c, h)
        /\ Holds(c, h, requests'[c], aqcbmap'[c], batches'[c], added'[c], executes'[c])
        /\ Ended(h, finalized'[c], added'[c], reports'[c]) /\ Alone(c, h, finalized'[c], added'[c])
        /\ Statuses(h, status'[c], reports'[c], finalized'[c], added'[c])
        /\ c \notin Chunking /\ reports'[c] # <<"error">> /\ NoRollback(h, added'[c])
             => unrecovered'[c] = {}
    BY <1>14 DEF After
  <2>2. Sent(c, h, requests'[c])
    BY <2>1 DEF Holds, Posted
  <2>3. Phased(f) /\ Numbered(c, f)
    <3>1. b \in 0..g.n /\ (b # 0 => g.phase[b] # "sent")
          /\ Holds(c, g, requests[c], aqcbmap[c], batches[c], added[c], executes[c])
      BY <1>5, <1>8 DEF IsAnswer, There
    <3>2. Phased(f)
      BY <1>5, <3>1, Forgets DEF f
    <3>3. Numbered(c, f)
      BY <1>5, <1>18, SameBatchesFacts
    <3> QED BY <3>2, <3>3
  <2>4. /\ Collected(c, h, batchmap) /\ Queued(c, h, platform, queue)
        /\ Executing(c, h, platform, executing) /\ Ordered(c, h, platform, executing, executed[c])
    <3>1. b \in 0..g.n /\ (b # 0 => g.phase[b] = "answered")
      BY <1>8 DEF IsAnswer
    <3>2. Extends(InPhase(g, b, "delivered"), h) /\ Phased(InPhase(g, b, "delivered"))
      BY <2>1, <2>3 DEF f
    <3> QED BY <1>5, <2>1, <3>1, <3>2, NativeParts
  <2>5. Answered(h, platform, answers'[c], FALSE)
    <3>1. Agrees(f, h, "answered")
      BY <2>1, <2>3, ExtendsAgrees
    <3> QED BY <1>19, <3>1, AnsweredAgrees
  <2>6. Recovered(c, h, added'[c], reports'[c], unrecovered'[c], answers'[c], executing')
    BY <2>1 DEF Recovered, NoRollback
  <2>7. There(c, h)'
    BY <2>1, <2>6 DEF There
  <2>8. (status'[c] = "gone") = FALSE
    BY <1>16
  <2>9. Answered(h, platform', answers'[c], status'[c] = "gone")
    BY <1>17, <2>5, <2>8
  <2>10. /\ Collected(c, h, batchmap') /\ Queued(c, h, platform', queue')
         /\ Executing(c, h, platform', executing') /\ Ordered(c, h, platform', executing', executed'[c])
    BY <1>17, <2>4
  <2>11. Way(c, h)'
    BY <1>16, <2>1, <2>2, <2>7, <2>9, <2>10 DEF Way
  <2> QED BY <2>11
<1>23. \A d \in Contexts : \E e : Way(d, e)'
  BY <1>21, <1>22
<1> QED BY <1>20, <1>23 DEF IInv

-----------------------------------------------------------------------------
(* The invariant. *)

\* A context that has sent nothing.
Nothing == [n |-> 0, kind |-> [i \in Nat |-> "user"], first |-> [i \in Nat |-> 0],
            at |-> [i \in Nat |-> 0], taken |-> 0, phase |-> [i \in Nat |-> "sent"]]

LEMMA NothingFacts ==
  ASSUME NEW c \in Contexts
  PROVE  /\ Numbered(c, Nothing) /\ Phased(Nothing) /\ Nothing.n = 0 /\ Nothing.at[0] = 0
         /\ Nothing.first[0] = 0 /\ Nothing.taken = 0 /\ Nothing.kind \in [Nat -> Kinds]
         /\ \A b \in Nat : Nothing.phase[b] = "sent"
<1>1. /\ Nothing.n = 0 /\ Nothing.taken = 0 /\ Nothing.kind = [i \in Nat |-> "user"]
      /\ Nothing.first = [i \in Nat |-> 0] /\ Nothing.at = [i \in Nat |-> 0]
      /\ Nothing.phase = [i \in Nat |-> "sent"]
  BY DEF Nothing
<1>2. /\ [i \in Nat |-> "user"] \in [Nat -> Kinds] /\ [i \in Nat |-> 0] \in [Nat -> Nat]
      /\ [i \in Nat |-> "sent"] \in [Nat -> Phases]
  BY DEF Kinds, Phases
<1>3. Nothing \in Histories
  BY <1>2 DEF Nothing, Histories
<1>4. /\ Nothing.at[0] = 0 /\ Nothing.first[0] = 0 /\ \A b \in Nat : Nothing.phase[b] = "sent"
      /\ \A b \in 1..0 : FALSE
  BY <1>1
<1>5. Numbered(c, Nothing)
  BY <1>1, <1>3, <1>4 DEF Numbered
<1>6. Phased(Nothing)
  BY <1>1, <1>4 DEF Phased
<1> QED BY <1>1, <1>2, <1>4, <1>5, <1>6

LEMMA InitIInv ==
  ASSUME Init
  PROVE  IInv
<1>1. Types
  <2>1. users = 0 /\ MaxStatements \in Nat
    BY StatementBatchAssumption DEF Init
  <2>2. queue \in Seq(Jobs)
    BY DEF Init
  <2>3. \A c \in Contexts : answers[c] \in Seq(Replies) /\ finalized[c] \in BOOLEAN
    BY DEF Init
  <2>4. /\ OnContexts(added) /\ OnContexts(executes) /\ OnContexts(batches) /\ OnContexts(requests)
        /\ OnContexts(aqcbmap) /\ OnContexts(status) /\ OnContexts(finalized) /\ OnContexts(unrecovered)
        /\ OnContexts(reports) /\ OnContexts(answers) /\ OnContexts(executed)
    BY DEF Init, OnContexts
  <2>5. platform \in Platforms /\ executing = {}
    BY DEF Init
  <2> QED BY <2>1, <2>2, <2>3, <2>4, <2>5 DEF Types, JsFunctions
<1>2. ASSUME NEW c \in Contexts PROVE Way(c, Nothing)
  <2> DEFINE g == Nothing
  <2>1. /\ status[c] = "new" /\ added[c] = 0 /\ executes[c] = << >> /\ batches[c] = << >>
        /\ finalized[c] = FALSE /\ unrecovered[c] = {} /\ reports[c] = << >> /\ aqcbmap[c] = << >>
        /\ requests[c] = << >> /\ answers[c] = << >> /\ batchmap = << >> /\ queue = << >>
        /\ executing = {} /\ executed[c] = << >>
    BY DEF Init
  <2>2. /\ Numbered(c, g) /\ Phased(g) /\ g.n = 0 /\ g.at[0] = 0
        /\ g.first[0] = 0 /\ g.taken = 0 /\ g.kind \in [Nat -> Kinds]
    BY NothingFacts
  <2> HIDE DEF g
  <2>3. Len(<< >>) = 0 /\ (\A b \in 1..0 : FALSE) /\ 0 \in 0..0
    OBVIOUS
  <2>4. Sent(c, g, << >>)
    <3>1. << >> \in Seq(AnyMessage(c))
      OBVIOUS
    <3> QED BY <2>3, <3>1 DEF Sent
  <2>5. OneByOne(c, g) /\ Statuses(g, "new", << >>, FALSE, 0)
    BY <2>2, <2>3 DEF OneByOne, Statuses
  <2>6. Collected(c, g, << >>) /\ Queued(c, g, platform, << >>) /\ Executing(c, g, platform, {})
        /\ Answered(g, platform, << >>, FALSE)
    BY <2>2, <2>3 DEF Collected, Queued, Executing, Answered
  <2>7. Ordered(c, g, platform, {}, << >>)
    <3>1. << >> \in Seq(Sql)
      OBVIOUS
    <3>2. OrderedTo(c, g, {}, << >>, 0)
      BY <2>2, <2>3 DEF OrderedTo
    <3> QED BY <2>2, <2>3, <3>1, <3>2 DEF Ordered
  <2>8. Holds(c, g, << >>, << >>, << >>, 0, << >>)
    <3>1. << >> = Piece(g.kind, g.first[g.n], 0)
      BY <2>2, PieceEmpty
    <3>2. << >> \in Seq(0..0) /\ << >> \in Seq(Seq(Sql))
      OBVIOUS
    <3>3. Posted(c, g, << >>, << >>)
      BY <2>2, <2>3, <2>4, <3>2 DEF Posted
    <3> QED BY <2>2, <2>3, <3>1, <3>2, <3>3 DEF Holds
  <2>9. Ended(g, FALSE, 0, << >>) /\ Alone(c, g, FALSE, 0)
    BY <2>2, <2>3 DEF Ended, Alone
  <2>10. Recovered(c, g, 0, << >>, {}, << >>, {})
    BY DEF Recovered
  <2>11. There(c, g)
    BY <2>1, <2>8, <2>9, <2>10 DEF There
  <2>12. Way(c, g)
    <3>1. (status[c] = "gone") = FALSE
      BY <2>1
    <3> QED BY <2>1, <2>2, <2>4, <2>5, <2>6, <2>7, <2>11, <3>1 DEF Way
  <2> QED BY <2>12 DEF g
<1> QED BY <1>1, <1>2 DEF IInv

LEMMA NextIInv ==
  ASSUME IInv, [Next]_vars, NoLateFailures
  PROVE  IInv'
<1>1. ASSUME NEW c \in Contexts, Start(c) PROVE IInv'
  BY <1>1, StartStep
<1>2. ASSUME NEW c \in Contexts, Terminate(c) PROVE IInv'
  BY <1>2, TerminateStep
<1>3. ASSUME NEW c \in Contexts, TakeRequest(c) PROVE IInv'
  BY <1>3, TakeRequestStep
<1>4. ASSUME NEW c \in Contexts, Deliver(c) PROVE IInv'
  BY <1>4, DeliverStep
<1>5. CASE TakeFromQueue
  BY <1>5, TakeFromQueueStep
<1>6. CASE ExecuteStatement
  BY <1>6, ExecuteStatementStep
<1>7. CASE AnswerBatch
  BY <1>7, AnswerBatchStep
<1>8. CASE UNCHANGED vars
  BY <1>8 DEF vars, txVars, nativeVars, IInv, Types, JsFunctions, OnContexts, Way, There, Left
<1> QED BY <1>1, <1>2, <1>3, <1>4, <1>5, <1>6, <1>7, <1>8 DEF Next, Native

\* Where no statement fails behind its first row, all variables of a context agree
\* in every reachable state to one history of what run_batch() has sent.
THEOREM InvariantHolds ==
  ASSUME NoLateFailures
  PROVE  Spec => []IInv
<1>1. Init => IInv
  BY InitIInv
<1>2. IInv /\ [Next]_vars => IInv'
  BY NextIInv
<1> QED BY <1>1, <1>2, PTL DEF Spec

-----------------------------------------------------------------------------
(* The properties. *)

LEMMA WayTypes ==
  ASSUME NEW c \in Contexts, NEW g, Way(c, g)
  PROVE  /\ status[c] \in {"new", "running", "done", "gone"} /\ added[c] \in Nat
         /\ executes[c] \in Seq(Sql) /\ reports[c] \in Seq({"success", "error"})
         /\ aqcbmap[c] \in Seq(Nat) /\ Range(aqcbmap[c]) \subseteq 0..Len(batches[c])
<1>1. status[c] \in {"new", "running", "done", "gone"} /\ reports[c] \in {<< >>, <<"success">>, <<"error">>}
  BY DEF Way, Statuses
<1>2. reports[c] \in Seq({"success", "error"})
  <2> DEFINE V == {"success", "error"}
  <2>1. "success" \in V /\ "error" \in V
    OBVIOUS
  <2> HIDE DEF V
  <2>2. << >> \in Seq(V) /\ <<"success">> \in Seq(V) /\ <<"error">> \in Seq(V)
    BY <2>1
  <2>3. reports[c] \in Seq(V)
    BY <1>1, <2>2
  <2> QED BY <2>3 DEF V
<1>3. CASE status[c] = "gone"
  <2>1. executes[c] = << >> /\ aqcbmap[c] = << >> /\ added[c] \in Nat
    BY <1>3 DEF Way, Left
  <2>2. << >> \in Seq(Sql) /\ << >> \in Seq(Nat) /\ DOMAIN << >> = {}
    OBVIOUS
  <2> QED BY <1>1, <1>2, <2>1, <2>2 DEF Range
<1>4. CASE status[c] # "gone"
  <2>1. Holds(c, g, requests[c], aqcbmap[c], batches[c], added[c], executes[c])
    BY <1>4 DEF Way, There
  <2>2. /\ Numbered(c, g) /\ added[c] \in Nat /\ g.first[g.n] <= added[c]
        /\ executes[c] = Piece(g.kind, g.first[g.n], added[c])
        /\ aqcbmap[c] \in Seq(0..g.n) /\ Len(batches[c]) = g.n
    BY <2>1 DEF Holds, Posted
  <2>3. g \in Histories
    BY <2>2 DEF Numbered
  <2>4. /\ g.n \in Nat /\ g.kind \in [Nat -> Kinds] /\ g.first \in [Nat -> Nat]
    BY <2>3, HistoryTypes
  <2>5. executes[c] \in Seq(Sql)
    <3> DEFINE kind == g.kind m == g.first[g.n] n == added[c]
    <3>1. m \in Nat /\ n \in Nat /\ m <= n /\ kind \in [Nat -> Kinds]
      BY <2>2, <2>4
    <3> HIDE DEF kind, m, n
    <3>2. Piece(kind, m, n) \in Seq(Sql)
      BY <3>1, PieceFacts
    <3> QED BY <2>2, <3>2 DEF kind, m, n
  <2>6. aqcbmap[c] \in Seq(Nat) /\ Range(aqcbmap[c]) \subseteq 0..g.n
    <3> DEFINE ids == aqcbmap[c] n == g.n
    <3>1. ids \in Seq(0..n) /\ n \in Nat
      BY <2>2, <2>4
    <3> HIDE DEF ids, n
    <3>2. \A i \in DOMAIN ids : ids[i] \in 0..n
      BY <3>1
    <3>3. ids \in Seq(Nat)
      BY <3>1
    <3>4. Range(ids) \subseteq 0..n
      BY <3>2 DEF Range
    <3> QED BY <3>3, <3>4 DEF ids, n
  <2> QED BY <1>1, <1>2, <2>2, <2>5, <2>6
<1> QED BY <1>3, <1>4

LEMMA IInvTypeOK ==
  ASSUME IInv
  PROVE  TypeOK
<1>1. ASSUME NEW c \in Contexts
      PROVE  /\ status[c] \in {"new", "running", "done", "gone"} /\ added[c] \in Nat
             /\ executes[c] \in Seq(Sql) /\ reports[c] \in Seq({"success", "error"})
             /\ aqcbmap[c] \in Seq(Nat) /\ Range(aqcbmap[c]) \subseteq 0..Len(batches[c])
             /\ finalized[c] \in BOOLEAN
  <2>1. PICK g : Way(c, g)
    BY DEF IInv
  <2>2. finalized[c] \in BOOLEAN
    BY DEF IInv, Types
  <2> QED BY <2>1, <2>2, WayTypes
<1>2. /\ OnContexts(added) /\ OnContexts(executes) /\ OnContexts(aqcbmap) /\ OnContexts(status)
      /\ OnContexts(finalized) /\ OnContexts(reports) /\ platform \in Platforms
      /\ users \in 0..MaxStatements
  BY DEF IInv, Types, JsFunctions
<1>3. ASSUME NEW f, NEW V, OnContexts(f), \A c \in Contexts : f[c] \in V
      PROVE  f \in [Contexts -> V]
  <2>1. f = [c \in Contexts |-> f[c]]
    BY <1>3 DEF OnContexts
  <2>2. [c \in Contexts |-> f[c]] \in [Contexts -> V]
    BY <1>3
  <2> QED BY <2>1, <2>2
<1>4. status \in [Contexts -> {"new", "running", "done", "stuck", "gone"}]
  BY <1>1, <1>2, <1>3
<1>5. added \in [Contexts -> Nat]
  BY <1>1, <1>2, <1>3
<1>6. executes \in [Contexts -> Seq(Nat \X Kinds)]
  BY <1>1, <1>2, <1>3 DEF Sql
<1>7. finalized \in [Contexts -> BOOLEAN]
  BY <1>1, <1>2, <1>3
<1>8. reports \in [Contexts -> Seq({"success", "error"})]
  BY <1>1, <1>2, <1>3
<1>9. aqcbmap \in [Contexts -> Seq(Nat)]
  BY <1>1, <1>2, <1>3
<1> QED BY <1>1, <1>2, <1>4, <1>5, <1>6, <1>7, <1>8, <1>9 DEF TypeOK

LEMMA IInvOrdered ==
  ASSUME IInv
  PROVE  ExecutedInOrder
<1>1. ASSUME NEW c \in Contexts, InOrder(c) PROVE \A i \in DOMAIN executed[c] : executed[c][i][1] = i
  <2>1. PICK g : Way(c, g)
    BY DEF IInv
  <2>2. Ordered(c, g, platform, executing, executed[c])
    BY <2>1 DEF Way
  <2>3. c \notin Chunking \/ platform = "android"
    BY <1>1 DEF InOrder
  <2>4. executed[c] \in Seq(Sql) /\ \E k \in 0..g.n : OrderedTo(c, g, executing, executed[c], k)
    BY <2>2, <2>3 DEF Ordered
  <2>5. \A i \in 1..Len(executed[c]) : executed[c][i][1] = i
    BY <2>4 DEF OrderedTo
  <2> QED BY <2>4, <2>5
<1> QED BY <1>1 DEF ExecutedInOrder
\* A context that still has answers is there.
LEMMA AnswersAreThere ==
  ASSUME NEW c \in Contexts, NEW g, Way(c, g), NEW k \in DOMAIN answers[c]
  PROVE  status[c] # "gone" /\ There(c, g) /\ Answered(g, platform, answers[c], FALSE)
<1>1. status[c] # "gone"
  <2>1. answers[c] # << >>
    BY DOMAIN << >> = {}
  <2> QED BY <2>1 DEF Way, Left
<1>2. (status[c] = "gone") = FALSE
  BY <1>1
<1> QED BY <1>1, <1>2 DEF Way

LEMMA IInvOwnResults ==
  ASSUME IInv
  PROVE  HandlersGetOwnResults
<1>1. SUFFICES ASSUME NEW c \in Contexts, NEW k \in DOMAIN answers[c]
               PROVE  Walk(answers[c][k].results, Len(batches[c][aqcbmap[c][answers[c][k].cbid]])) =
                        [calls |-> [i \in DOMAIN batches[c][aqcbmap[c][answers[c][k].cbid]] |->
                                      <<i, answers[c][k].outcomes[i]>>], end |-> "returns"]
  BY DEF HandlersGetOwnResults
<1>2. PICK g : Way(c, g)
  BY DEF IInv
<1>3. There(c, g) /\ Answered(g, platform, answers[c], FALSE)
  BY <1>2, AnswersAreThere
<1>4. k \in 1..Len(answers[c])
  <2> DEFINE V == Replies ans == answers[c]
  <2>1. ans \in Seq(V) /\ k \in DOMAIN ans
    BY DEF IInv, Types
  <2> HIDE DEF V, ans
  <2>2. k \in 1..Len(ans)
    BY <2>1
  <2> QED BY <2>2 DEF ans
<1>5. PICK a : a = answers[c][k]
  OBVIOUS
<1>6. PICK b \in 1..g.n : Answers(c, g, b, a)
  BY <1>3, <1>4, <1>5, AnswerOf
<1>7. DOMAIN Batch(g, b) = 1..Len(Batch(g, b))
  BY <1>2, BatchFacts DEF Way
<1>8. batches[c][aqcbmap[c][a.cbid]] = Batch(g, b)
  BY <1>6 DEF Answers
<1> QED BY <1>5, <1>6, <1>7, <1>8 DEF CallsOf, Answers

\* The end has been told: the last of add statements is the end, and the batch
\* that has it is delivered.
HasEnded(c, g, add) ==
  /\ status[c] = "done" /\ There(c, g) /\ add = added[c] /\ add \in Nat
  /\ g.first[g.n] = add /\ finalized[c] /\ Finished(g, add)
  /\ \A i \in 1..add : g.kind[i] \in Ends => i = add
  /\ reports[c] = <<"success">> => g.kind[add] = "COMMIT"

LEMMA EndTold ==
  ASSUME NEW c \in Contexts, NEW g, Way(c, g), reports[c] # << >>
  PROVE  \E add : HasEnded(c, g, add)
<1>1. status[c] = "done"
  BY DEF Way, Statuses
<1>2. (status[c] = "gone") = FALSE
  BY <1>1
<1>3. There(c, g)
  BY <1>2 DEF Way
<1>4. Ended(g, finalized[c], added[c], reports[c]) /\ added[c] \in Nat
  BY <1>3 DEF There, Holds
<1>5. finalized[c] /\ Finished(g, added[c])
  BY <1>4 DEF Ended, Finished, HasIt
<1>6. HasEnded(c, g, added[c])
  BY <1>1, <1>3, <1>4, <1>5 DEF Ended, HasEnded
<1> QED BY <1>6

LEMMA EndExecuted ==
  ASSUME NEW c \in Contexts, NEW g, Way(c, g), reports[c] # << >>, InOrder(c)
  PROVE  executes[c] = << >> /\ Len(executed[c]) = added[c]
<1>1. PICK add : HasEnded(c, g, add)
  BY EndTold
<1>2. /\ Numbered(c, g) /\ There(c, g) /\ g.first[g.n] = add /\ add = added[c] /\ add \in Nat
  BY <1>1 DEF Way, HasEnded
<1>3. PICK b \in 1..g.n : HasIt(g, b, add) /\ g.phase[b] = "delivered"
  <2>1. Finished(g, add)
    BY <1>1 DEF HasEnded
  <2> QED BY <2>1 DEF Finished
<1>4. executes[c] = << >>
  <2>1. executes[c] = Piece(g.kind, g.first[g.n], add)
    BY <1>2 DEF There, Holds
  <2> QED BY <1>2, <2>1, PieceEmpty
<1>5. PICK k \in 0..g.n : OrderedTo(c, g, executing, executed[c], k)
  <2>1. Ordered(c, g, platform, executing, executed[c]) /\ (c \notin Chunking \/ platform = "android")
    BY DEF Way, InOrder
  <2> QED BY <2>1 DEF Ordered
<1>6. g.first[k] = add
  <2>1. b <= k
    BY <1>3, <1>5 DEF OrderedTo
  <2>2. g.n \in Nat /\ \A i \in 0..g.n : g.first[i] \in Nat
    BY <1>2, Order, HistoryTypes DEF Numbered
  <2> DEFINE n == g.n f == g.first
  <2>3. /\ n \in Nat /\ k \in 0..n /\ b \in 0..n /\ n \in 0..n /\ f[k] \in Nat /\ f[b] \in Nat
        /\ k <= n
    BY <1>3, <2>2
  <2>4. f[b] <= f[k] /\ f[k] <= f[n]
    BY <1>2, <2>1, <2>3, Order
  <2>5. add <= f[b] /\ f[n] = add
    BY <1>2, <1>3 DEF HasIt
  <2> HIDE DEF n, f
  <2>6. f[k] = add
    BY <1>2, <2>3, <2>4, <2>5
  <2> QED BY <2>6 DEF f
<1>7. CASE \E x \in executing : x.to = c
  <2>1. PICK x \in executing : x.to = c
    BY <1>7
  <2>2. PICK a \in 1..g.n : IsBatch(c, g, platform, x, a) /\ g.phase[a] = "executing"
    <3>1. Executing(c, g, platform, executing)
      BY DEF Way
    <3> QED BY <2>1, <3>1 DEF Executing
  <2>3. a = k + 1 /\ Len(executed[c]) = g.first[k] + Len(x.outcomes)
    BY <1>5, <2>1, <2>2 DEF OrderedTo
  <2>4. x.outcomes \in Seq(Endings) /\ Len(x.outcomes) <= Len(Batch(g, a))
    BY <2>2 DEF IsBatch, HasResults
  <2>5. /\ Len(Batch(g, a)) = g.first[a] - g.first[a - 1] /\ g.first[a] <= add
        /\ g.first[a] \in Nat
    <3>1. /\ g.first[a] \in Nat /\ g.first[a] <= g.first[g.n]
          /\ Len(Batch(g, a)) = g.first[a] - g.first[a - 1]
      BY <1>2, BatchFacts
    <3> HIDE DEF Batch
    <3> QED BY <1>2, <3>1
  <2>6. a - 1 = k
    BY <1>5, <2>3
  <2> DEFINE m == g.first[a] l == Len(x.outcomes)
  <2>7. l \in Nat /\ m \in Nat /\ m <= add /\ l <= m - add
    BY <1>2, <1>6, <2>4, <2>5, <2>6
  <2> HIDE DEF l, m
  <2>8. l = 0
    BY <1>2, <2>7
  <2> QED BY <1>2, <1>4, <1>6, <2>3, <2>8 DEF l
<1>8. CASE ~\E x \in executing : x.to = c
  <2>1. Len(executed[c]) = g.first[k]
    BY <1>5, <1>8 DEF OrderedTo
  <2> QED BY <1>2, <1>4, <1>6, <2>1
<1> QED BY <1>7, <1>8

LEMMA IInvEndIsLast ==
  ASSUME IInv
  PROVE  EndIsLast
<1>1. ASSUME NEW c \in Contexts
      PROVE  /\ Len(reports[c]) <= 1
             /\ reports[c] # << >> /\ InOrder(c) => executes[c] = << >> /\ Len(executed[c]) = added[c]
  <2>1. PICK g : Way(c, g)
    BY DEF IInv
  <2>2. reports[c] \in {<< >>, <<"success">>, <<"error">>}
    BY <2>1 DEF Way, Statuses
  <2>3. Len(reports[c]) <= 1
    <3>1. Len(<< >>) = 0 /\ Len(<<"success">>) = 1 /\ Len(<<"error">>) = 1
      OBVIOUS
    <3>2. Len(reports[c]) = 0 \/ Len(reports[c]) = 1
      BY <2>2, <3>1
    <3> DEFINE l == Len(reports[c])
    <3>3. l \in {0, 1}
      BY <3>2
    <3> HIDE DEF l
    <3>4. l <= 1
      BY <3>3
    <3> QED BY <3>4 DEF l
  <2>4. ASSUME reports[c] # << >>, InOrder(c)
        PROVE  executes[c] = << >> /\ Len(executed[c]) = added[c]
    BY <2>1, <2>4, EndExecuted
  <2> QED BY <2>3, <2>4
<1> QED BY <1>1 DEF EndIsLast

\* When success is told, the batch of COMMIT, the last one, is delivered.
LEMMA AllDelivered ==
  ASSUME NEW c \in Contexts, c \notin Chunking, NEW g, Way(c, g), reports[c] = <<"success">>
  PROVE  \A a \in 1..g.n : g.phase[a] = "delivered"
<1>1. PICK add : HasEnded(c, g, add)
  BY EndTold, <<"success">> # << >>
<1>2. /\ Numbered(c, g) /\ There(c, g) /\ g.first[g.n] = add /\ finalized[c] /\ g.kind[add] = "COMMIT"
      /\ Finished(g, add) /\ add = added[c] /\ add \in Nat
  BY <1>1 DEF Way, HasEnded
<1>3. PICK b \in 1..g.n : HasIt(g, b, add) /\ g.phase[b] = "delivered"
  BY <1>2 DEF Finished
<1>4. g.first[g.n - 1] + 1 = add
  BY <1>2 DEF There, Alone
<1>5. b = g.n
  <2> DEFINE n == g.n f == g.first
  <2>1. n \in Nat /\ \A i \in 0..n : f[i] \in Nat
    BY <1>2, Order, HistoryTypes DEF Numbered
  <2>2. b \in 1..n /\ f[n - 1] + 1 = add /\ add <= f[b]
    BY <1>3, <1>4 DEF HasIt
  <2>3. \A i, j \in 0..n : i <= j => f[i] <= f[j]
    BY <1>2, Order
  <2> HIDE DEF n, f
  <2>4. ASSUME b # n PROVE FALSE
    <3>1. b \in 0..n /\ n - 1 \in 0..n /\ b <= n - 1
      BY <2>1, <2>2, <2>4
    <3>2. f[b] <= f[n - 1] /\ f[b] \in Nat /\ f[n - 1] \in Nat
      BY <2>1, <2>3, <3>1
    <3> QED BY <1>2, <2>2, <3>2
  <2> QED BY <2>4 DEF n
<1>6. \A a \in 1..g.n : a # g.n => g.phase[a] = "delivered"
  BY DEF Way, OneByOne
<1> QED BY <1>3, <1>5, <1>6

LEMMA IInvSuccess ==
  ASSUME IInv
  PROVE  SuccessIsComplete
<1>1. ASSUME NEW c \in Contexts \ Chunking, "success" \in Range(reports[c])
      PROVE  Len(executed[c]) = added[c] /\ unrecovered[c] = {}
  <2>1. PICK g : Way(c, g)
    BY DEF IInv
  <2>2. reports[c] = <<"success">>
    <3>1. reports[c] \in {<< >>, <<"success">>, <<"error">>}
      BY <2>1 DEF Way, Statuses
    <3>2. Range(<< >>) = {} /\ Range(<<"error">>) = {"error"}
      BY DEF Range
    <3> QED BY <1>1, <3>1, <3>2
  <2>3. reports[c] # << >> /\ reports[c] # <<"error">>
    BY <2>2
  <2>4. Len(executed[c]) = added[c]
    BY <1>1, <2>1, <2>3, EndExecuted DEF InOrder
  <2>5. /\ There(c, g) /\ g.kind[added[c]] = "COMMIT"
        /\ \A i \in 1..added[c] : g.kind[i] \in Ends => i = added[c]
    <3>1. \E add : HasEnded(c, g, add)
      BY <2>1, <2>3, EndTold
    <3> QED BY <2>2, <3>1 DEF HasEnded
  <2>6. \A i \in 1..added[c] : g.kind[i] # "ROLLBACK"
    BY <2>5 DEF Ends
  <2>7. \A a \in 1..g.n : g.phase[a] = "delivered"
    BY <1>1, <2>1, <2>2, AllDelivered
  <2>8. ASSUME NEW s \in unrecovered[c] PROVE FALSE
    <3>1. Recovered(c, g, added[c], reports[c], unrecovered[c], answers[c], executing)
      BY <2>5 DEF There
    <3>2. \/ \E k \in 1..Len(answers[c]) : FailedIn(g, answers[c][k], s)
          \/ \E x \in executing : x.to = c /\ FailedIn(g, x, s)
      BY <1>1, <2>3, <2>6, <2>8, <3>1 DEF Recovered
    <3>3. \A k \in 1..Len(answers[c]) : FALSE
      <4>1. Answered(g, platform, answers[c], status[c] = "gone")
        BY <2>1 DEF Way
      <4> QED BY <2>7, <4>1 DEF Answered
    <3>4. \A x \in executing : x.to # c
      <4>1. Executing(c, g, platform, executing)
        BY <2>1 DEF Way
      <4> QED BY <2>7, <4>1 DEF Executing
    <3> QED BY <3>2, <3>3, <3>4
  <2> QED BY <2>4, <2>8
<1> QED BY <1>1 DEF SuccessIsComplete

LEMMA IInvOnItsWay ==
  ASSUME IInv
  PROVE  RunningIsOnItsWay
<1>1. ASSUME NEW c \in Contexts, status[c] \in {"running", "stuck"}
      PROVE  \/ requests[c] # << >> \/ answers[c] # << >>
             \/ \E b \in Range(queue) \cup executing : b.to = c
  <2>1. PICK g : Way(c, g)
    BY DEF IInv
  <2>2. status[c] = "running"
    BY <1>1, <2>1 DEF Way, Statuses
  <2>3. (status[c] = "gone") = FALSE
    BY <2>2
  <2>4. Numbered(c, g) /\ Phased(g) /\ There(c, g)
    BY <2>1, <2>3 DEF Way
  <2>5. PICK b \in 1..g.n : g.phase[b] # "delivered"
    BY <2>1, <2>2 DEF Way, Statuses
  <2>6. g.phase[b] \in Phases
    <3>1. g.phase \in [Nat -> Phases]
      BY <2>4, HistoryTypes DEF Numbered
    <3>2. b \in Nat
      BY <2>5
    <3> QED BY <3>1, <3>2
  <2>7. CASE g.phase[b] = "sent"
    <3>1. g.taken < g.at[b] /\ g.taken + Len(requests[c]) = g.at[g.n]
      BY <2>4, <2>7 DEF Phased, There, Holds, Posted
    <3>2. g.at[b] <= g.at[g.n] /\ g.at[b] \in Nat /\ g.taken \in Nat
      BY <2>4, BatchFacts, HistoryTypes DEF Numbered
    <3> DEFINE t == g.taken x == g.at[b] y == g.at[g.n]
    <3>3. t \in Nat /\ x \in Nat /\ t < x /\ x <= y /\ t + Len(requests[c]) = y
      BY <3>1, <3>2
    <3> HIDE DEF t, x, y
    <3>4. Len(requests[c]) # 0
      BY <3>3
    <3> QED BY <3>4
  <2>8. CASE g.phase[b] = "queued"
    <3>1. PICK k \in 1..Len(queue) : queue[k].to = c
      <4>1. Queued(c, g, platform, queue)
        BY <2>1 DEF Way
      <4> QED BY <2>8, <4>1 DEF Queued
    <3>2. queue[k] \in Range(queue)
      <4> DEFINE V == Jobs
      <4>1. queue \in Seq(V)
        BY DEF IInv, Types
      <4> HIDE DEF V
      <4>2. k \in DOMAIN queue
        BY <3>1, <4>1
      <4> QED BY <4>2 DEF Range
    <3> QED BY <3>1, <3>2
  <2>9. CASE g.phase[b] = "executing"
    <3>1. Executing(c, g, platform, executing)
      BY <2>1 DEF Way
    <3>2. \E x \in executing : x.to = c
      BY <2>9, <3>1 DEF Executing
    <3> QED BY <3>2
  <2>10. CASE g.phase[b] = "answered"
    <3>1. Answered(g, platform, answers[c], FALSE)
      BY <2>1, <2>3 DEF Way
    <3>2. \E k \in 1..Len(answers[c]) : TRUE
      BY <2>10, <3>1 DEF Answered
    <3>3. Len(<< >>) = 0 /\ \A k \in 1..0 : FALSE
      OBVIOUS
    <3> QED BY <3>2, <3>3
  <2> QED BY <2>5, <2>6, <2>7, <2>8, <2>9, <2>10 DEF Phases
<1> QED BY <1>1 DEF RunningIsOnItsWay

-----------------------------------------------------------------------------
(* The theorems, where no statement fails behind its first row. *)

\* Every variable of a transaction has its type, and every callback id belongs
\* to a batch that run_batch() has sent.
THEOREM BatchTypeCorrect ==
  ASSUME NoLateFailures
  PROVE  Spec => []TypeOK
<1>1. IInv => TypeOK
  BY IInvTypeOK
<1> QED BY <1>1, InvariantHolds, PTL

\* mycb calls every handler of a batch once, with the outcome of its own
\* statement, however many batches of whatever contexts are on their way.
THEOREM OwnResults ==
  ASSUME NoLateFailures
  PROVE  Spec => []HandlersGetOwnResults
<1>1. IInv => HandlersGetOwnResults
  BY IInvOwnResults
<1> QED BY <1>1, InvariantHolds, PTL

\* The native side executes the statements of a transaction in the order of its
\* addStatement() calls, in whatever batches and parts they are sent: with one
\* batch at a time, as shipped, or with the queue that Android has.
THEOREM InTheOrderAdded ==
  ASSUME NoLateFailures
  PROVE  Spec => []ExecutedInOrder
<1>1. IInv => ExecutedInOrder
  BY IInvOrdered
<1> QED BY <1>1, InvariantHolds, PTL

\* $finish tells the application success only when every statement has been
\* executed and those that failed were recovered from by an error handler, in
\* contexts without MAX_SQL_CHUNK.
THEOREM CompleteSuccess ==
  ASSUME NoLateFailures
  PROVE  Spec => []SuccessIsComplete
<1>1. IInv => SuccessIsComplete
  BY IInvSuccess
<1> QED BY <1>1, InvariantHolds, PTL

\* $finish or $abort tells the application the end once, and nothing waits in
\* tx.executes or is on its way then.
THEOREM EndToldOnce ==
  ASSUME NoLateFailures
  PROVE  Spec => []EndIsLast
<1>1. IInv => EndIsLast
  BY IInvEndIsLast
<1> QED BY <1>1, InvariantHolds, PTL

\* A transaction that has not ended has a message, a batch or an answer on its
\* way, and no answer keeps mycb in an endless loop.
THEOREM AlwaysOnItsWay ==
  ASSUME NoLateFailures
  PROVE  Spec => []RunningIsOnItsWay
<1>1. IInv => RunningIsOnItsWay
  BY IInvOnItsWay
<1> QED BY <1>1, InvariantHolds, PTL

=============================================================================
