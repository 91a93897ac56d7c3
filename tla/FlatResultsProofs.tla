-------------------------- MODULE FlatResultsProofs --------------------------
(***************************************************************************)
(* What the operators of FlatResults compute, for lists of any length: the *)
(* parts of a list make the list, the statements read from a flat list are *)
(* those it was made of, and mycb gives each handler its own result.       *)
(*                                                                         *)
(* Induction is by the smallest number that is not in a set, since the     *)
(* induction theorems of the library take an operator.                     *)
(***************************************************************************)
EXTENDS FlatResults, SequenceTheorems, WellFoundedInduction, TLAPS

-----------------------------------------------------------------------------
(* Induction and recursion over 0..n. *)

LEMMA SmallestNumber ==
  ASSUME NEW T, T \subseteq Nat, T # {}
  PROVE  \E x \in T : \A y \in T : x <= y
<1>1. PICK x \in T : \A y \in T : ~ (<<y, x>> \in OpToRel(<,Nat))
  BY NatLessThanWellFounded, WFMin
<1>2. \A y \in T : ~(y < x)
  BY <1>1 DEF OpToRel
<1> QED BY <1>2

LEMMA UpTo ==
  ASSUME NEW n \in Nat, NEW S, 0 \in S, \A k \in 1..n : k - 1 \in S => k \in S
  PROVE  0..n \subseteq S
<1> DEFINE T == (0..n) \ S
<1>1. SUFFICES ASSUME T # {} PROVE FALSE
  OBVIOUS
<1>0. T \subseteq Nat
  OBVIOUS
<1>2. PICK m \in T : \A y \in T : m <= y
  <2> HIDE DEF T
  <2> QED BY <1>1, <1>0, SmallestNumber
<1>3. m \in 1..n /\ m - 1 \in 0..n
  <2>1. m \in 0..n /\ m # 0
    BY <1>2
  <2> QED BY <2>1
<1>4. m - 1 \in S
  BY <1>2, <1>3
<1> QED BY <1>2, <1>3, <1>4

\* f[0] is base, and f[k] is made of f[k - 1] by Op[k].
Recurs(f, n, V, base, Op) ==
  /\ f[0] = base
  /\ \A k \in 0..n : f[k] \in V
  /\ \A k \in 1..n : f[k] = Op[k][f[k - 1]]

Recursive(n, V, base, Op) ==
  n \in Nat /\ base \in V /\ \A k \in 1..n : \A v \in V : Op[k][v] \in V

\* What is defined from the value before exists.
LEMMA Recursion ==
  ASSUME NEW n, NEW V, NEW base, NEW Op, Recursive(n, V, base, Op)
  PROVE  \E f : Recurs(f, n, V, base, Op)
<1>0. n \in Nat /\ base \in V /\ \A k \in 1..n : \A v \in V : Op[k][v] \in V
  BY DEF Recursive
<1> DEFINE Good(m, f) == /\ f[0] = base
                         /\ \A k \in 0..m : f[k] \in V
                         /\ \A k \in 1..m : f[k] = Op[k][f[k - 1]]
           S == {m \in 0..n : \E f : Good(m, f)}
<1> USE <1>0
<1>1. 0 \in S
  <2> DEFINE f == [k \in 0..0 |-> base]
  <2>1. DOMAIN f = 0..0 /\ \A k \in 0..0 : f[k] = base
    OBVIOUS
  <2>2. Good(0, f)
    <3> HIDE DEF f
    <3> QED BY <2>1
  <2> HIDE DEF f, Good
  <2> QED BY <2>2
<1>2. ASSUME NEW m \in 1..n, m - 1 \in S PROVE m \in S
  <2>1. PICK f : Good(m - 1, f)
    BY <1>2
  <2> DEFINE g == [k \in 0..m |-> IF k = m THEN Op[m][f[m - 1]] ELSE f[k]]
  <2>2. f[m - 1] \in V
    BY <2>1
  <2>4. g[0] = base /\ g[m] = Op[m][f[m - 1]] /\ \A k \in 0..(m - 1) : g[k] = f[k]
    BY <2>1
  <2>5. \A k \in 1..m : g[k] = Op[k][g[k - 1]]
    <3> TAKE k \in 1..m
    <3>1. k - 1 \in 0..(m - 1) /\ (k = m \/ k \in 1..(m - 1))
      OBVIOUS
    <3>2. m - 1 \in 0..(m - 1)
      OBVIOUS
    <3> HIDE DEF g
    <3>3. CASE k = m
      BY <2>4, <3>2, <3>3
    <3>4. CASE k \in 1..(m - 1)
      <4>1. k \in 0..(m - 1) /\ f[k] = Op[k][f[k - 1]]
        BY <2>1, <3>4
      <4> QED BY <2>4, <3>1, <4>1
    <3> QED BY <3>1, <3>3, <3>4
  <2>6. \A k \in 0..m : g[k] \in V
    <3> TAKE k \in 0..m
    <3>1. k = m \/ k \in 0..(m - 1)
      OBVIOUS
    <3>2. Op[m][f[m - 1]] \in V
      BY <2>2
    <3> HIDE DEF g
    <3> QED BY <2>1, <2>4, <3>1, <3>2
  <2>7. Good(m, g)
    <3> HIDE DEF g
    <3> QED BY <2>4, <2>5, <2>6
  <2> HIDE DEF g, Good
  <2> QED BY <2>7
<1>3. n \in S
  <2> HIDE DEF S
  <2> QED BY <1>1, <1>2, UpTo
<1> QED BY <1>3 DEF Recurs

-----------------------------------------------------------------------------
(* Lists made of pieces. *)

\* The list is the pieces, one behind the other; at[i] is the position behind
\* the first i of them.
LaidAt(list, pieces, at) ==
  /\ at \in [0..Len(pieces) -> Nat \ {0}]
  /\ at[0] = 1 /\ at[Len(pieces)] = Len(list) + 1
  /\ \A i \in 1..Len(pieces) :
       /\ at[i] = at[i - 1] + Len(pieces[i])
       /\ \A j \in 1..Len(pieces[i]) : list[at[i - 1] + j - 1] = pieces[i][j]

Laid(list, pieces) == \E at : LaidAt(list, pieces, at)

LEMMA LaidEmpty == Laid(<< >>, << >>)
<1>1. LaidAt(<< >>, << >>, [i \in 0..0 |-> 1])
  BY DEF LaidAt
<1> QED BY <1>1 DEF Laid

\* Every piece begins and ends inside the list.
LEMMA LaidInside ==
  ASSUME NEW V, NEW list \in Seq(V), NEW pieces \in Seq(Seq(V)), NEW at, LaidAt(list, pieces, at)
  PROVE  \A i \in 0..Len(pieces) : at[i] <= Len(list) + 1
<1> DEFINE n == Len(pieces)
           S == {k \in 0..n : at[n - k] <= Len(list) + 1}
<1>1. n \in Nat /\ at \in [0..n -> Nat \ {0}]
  BY DEF LaidAt
<1>2. 0 \in S
  BY <1>1 DEF LaidAt
<1>3. ASSUME NEW k \in 1..n, k - 1 \in S PROVE k \in S
  <2>1. n - (k - 1) \in 1..n /\ n - k \in 0..n /\ n - k = (n - (k - 1)) - 1
    BY <1>1
  <2>2. at[n - (k - 1)] = at[n - k] + Len(pieces[n - (k - 1)])
    BY <2>1 DEF LaidAt
  <2>3. Len(pieces[n - (k - 1)]) \in Nat
    BY <2>1
  <2>4. at[n - (k - 1)] \in Nat /\ at[n - k] \in Nat /\ Len(list) \in Nat
    <3>1. n - (k - 1) \in 0..n
      BY <1>1, <2>1
    <3> HIDE DEF n
    <3> QED BY <1>1, <2>1, <3>1
  <2>5. at[n - (k - 1)] <= Len(list) + 1
    BY <1>3
  <2> QED BY <2>1, <2>2, <2>3, <2>4, <2>5
<1>4. 0..n \subseteq S
  <2> HIDE DEF S, n
  <2> QED BY <1>1, <1>2, <1>3, UpTo
<1> SUFFICES ASSUME NEW i \in 0..n PROVE at[i] <= Len(list) + 1
  OBVIOUS
<1>5. n - i \in 0..n /\ n - (n - i) = i
  BY <1>1
<1>6. n - i \in S
  BY <1>4, <1>5
<1> QED BY <1>5, <1>6

\* One more piece at the end.
LEMMA LaidAppend ==
  ASSUME NEW V, NEW list \in Seq(V), NEW pieces \in Seq(Seq(V)), Laid(list, pieces),
         NEW piece \in Seq(V)
  PROVE  Laid(list \o piece, Append(pieces, piece))
<1>1. PICK at : LaidAt(list, pieces, at)
  BY DEF Laid
<1> DEFINE n == Len(pieces)
           new == Append(pieces, piece)
           to == [i \in 0..(n + 1) |-> IF i = n + 1 THEN at[n] + Len(piece) ELSE at[i]]
<1>2. /\ n \in Nat /\ Len(new) = n + 1 /\ new[n + 1] = piece
      /\ \A i \in 1..n : new[i] = pieces[i]
  OBVIOUS
<1>3. /\ Len(list) \in Nat /\ Len(piece) \in Nat /\ Len(list \o piece) = Len(list) + Len(piece)
      /\ \A j \in 1..Len(list) : (list \o piece)[j] = list[j]
      /\ \A j \in 1..Len(piece) : (list \o piece)[Len(list) + j] = piece[j]
  OBVIOUS
<1>4. at \in [0..n -> Nat \ {0}] /\ at[0] = 1 /\ at[n] = Len(list) + 1
  BY <1>1 DEF LaidAt
<1>5. /\ to \in [0..(n + 1) -> Nat \ {0}] /\ to[n + 1] = at[n] + Len(piece)
      /\ \A i \in 0..n : to[i] = at[i]
  BY <1>2, <1>3, <1>4
<1>6. \A i \in 0..n : at[i] <= Len(list) + 1
  BY <1>1, LaidInside
<1> HIDE DEF n, new, to
<1>7. ASSUME NEW i \in 1..(n + 1)
      PROVE  /\ to[i] = to[i - 1] + Len(new[i])
             /\ \A j \in 1..Len(new[i]) : (list \o piece)[to[i - 1] + j - 1] = new[i][j]
  <2>1. CASE i = n + 1
    <3>1. to[i - 1] = Len(list) + 1
      BY <1>2, <1>4, <1>5, <2>1
    <3>2. \A j \in 1..Len(piece) : to[i - 1] + j - 1 = Len(list) + j
      BY <1>3, <3>1
    <3> QED BY <1>2, <1>3, <1>4, <1>5, <2>1, <3>1, <3>2
  <2>2. CASE i \in 1..n
    <3>1. i - 1 \in 0..n /\ i \in 0..n
      BY <1>2, <2>2
    <3>2. /\ at[i] = at[i - 1] + Len(pieces[i]) /\ at[i] <= Len(list) + 1
          /\ \A j \in 1..Len(pieces[i]) : list[at[i - 1] + j - 1] = pieces[i][j]
      BY <1>1, <1>6, <2>2, <3>1 DEF LaidAt, n
    <3>3. to[i] = at[i] /\ to[i - 1] = at[i - 1] /\ new[i] = pieces[i]
      BY <1>2, <1>5, <2>2, <3>1
    <3>4. at[i] \in Nat \ {0} /\ at[i - 1] \in Nat \ {0} /\ Len(pieces[i]) \in Nat
      <4>1. Len(pieces[i]) \in Nat
        BY <2>2 DEF n
      <4> QED BY <1>4, <3>1, <4>1
    <3>5. \A j \in 1..Len(pieces[i]) : at[i - 1] + j - 1 \in 1..Len(list)
      BY <1>3, <3>2, <3>4
    <3>6. \A j \in 1..Len(pieces[i]) :
            (list \o piece)[at[i - 1] + j - 1] = list[at[i - 1] + j - 1]
      <4> HIDE DEF LaidAt
      <4> QED BY <1>3, <3>5
    <3> QED BY <3>2, <3>3, <3>6
  <2>3. i = n + 1 \/ i \in 1..n
    BY <1>2
  <2> QED BY <2>1, <2>2, <2>3
<1>8. to[0] = 1 /\ to[n + 1] = Len(list \o piece) + 1
  BY <1>2, <1>3, <1>4, <1>5
<1>9. LaidAt(list \o piece, new, to)
  BY <1>2, <1>5, <1>7, <1>8 DEF LaidAt
<1> QED BY <1>9 DEF Laid, new

LEMMA PrefixAppend ==
  ASSUME NEW V, NEW s \in Seq(V), NEW i \in 1..Len(s)
  PROVE  /\ SubSeq(s, 1, i - 1) \in Seq(V) /\ s[i] \in V
         /\ SubSeq(s, 1, i) = Append(SubSeq(s, 1, i - 1), s[i])
<1>1. Len(s) \in Nat /\ i \in Nat /\ s[i] \in V
  OBVIOUS
<1>2. SubSeq(s, 1, i - 1) \in Seq(V) /\ SubSeq(s, 1, i) \in Seq(V)
  BY <1>1
<1> DEFINE a == SubSeq(s, 1, i)
           b == Append(SubSeq(s, 1, i - 1), s[i])
<1>3. Len(a) = i /\ \A j \in 1..i : a[j] = s[j]
  BY <1>1
<1>4. Len(SubSeq(s, 1, i - 1)) = i - 1 /\ \A j \in 1..(i - 1) : SubSeq(s, 1, i - 1)[j] = s[j]
  BY <1>1
<1>5. b \in Seq(V) /\ Len(b) = i /\ b[i] = s[i] /\ \A j \in 1..(i - 1) : b[j] = s[j]
  BY <1>1, <1>2, <1>4, AppendProperties
<1>6. \A j \in 1..i : a[j] = b[j]
  <2> HIDE DEF a, b
  <2> QED BY <1>1, <1>3, <1>5
<1> HIDE DEF a, b
<1>7. a = b
  BY <1>2, <1>3, <1>5, <1>6, SeqEqual DEF a
<1> QED BY <1>1, <1>2, <1>7 DEF a, b

LEMMA FlattenLaid ==
  ASSUME NEW V, NEW pieces \in Seq(Seq(V))
  PROVE  FlattenSeq(pieces) \in Seq(V) /\ Laid(FlattenSeq(pieces), pieces)
<1> DEFINE n == Len(pieces)
           Flattens(g) ==
             g = [i \in 1..n |-> IF i = 1 THEN pieces[i] ELSE g[i - 1] \o pieces[i]]
           F == CHOOSE g : Flattens(g)
           Op == [k \in 1..n |-> [v \in Seq(V) |-> v \o pieces[k]]]
<1>1. n \in Nat
  OBVIOUS
<1>2. CASE n = 0
  <2>1. pieces = << >>
    BY <1>2
  <2>2. FlattenSeq(pieces) = << >>
    BY <1>2, <2>1 DEF FlattenSeq
  <2>3. << >> \in Seq(V)
    OBVIOUS
  <2> QED BY <2>1, <2>2, <2>3, LaidEmpty
<1>3. CASE n # 0
  <2>1. \E g : Flattens(g)
    <3>1. \A k \in 1..n : pieces[k] \in Seq(V)
      OBVIOUS
    <3>2. \A k \in 1..n : \A v \in Seq(V) :
            Op[k][v] = v \o pieces[k] /\ Op[k][v] \in Seq(V)
      <4> HIDE DEF n
      <4> QED BY <3>1
    <3>3. << >> \in Seq(V)
      OBVIOUS
    <3>4. PICK f : Recurs(f, n, Seq(V), << >>, Op)
      <4>1. Recursive(n, Seq(V), << >>, Op)
        <5> HIDE DEF n, Op
        <5> QED BY <1>1, <3>2, <3>3 DEF Recursive
      <4> HIDE DEF n, Op
      <4> QED BY <4>1, Recursion
    <3> DEFINE g == [i \in 1..n |-> f[i]]
    <3>5. ASSUME NEW i \in 1..n PROVE f[i] = f[i - 1] \o pieces[i] /\ f[i - 1] \in Seq(V)
      <4>1. i \in 0..n /\ i # 0 /\ i - 1 \in 0..n
        BY <1>1
      <4>2. f[i] = Op[i][f[i - 1]] /\ f[i - 1] \in Seq(V)
        <5> HIDE DEF n, Op
        <5> QED BY <3>4, <4>1 DEF Recurs
      <4> HIDE DEF n, Op
      <4> QED BY <3>2, <4>2
    <3>6. f[1] = pieces[1]
      <4>1. 1 \in 1..n /\ 0 \in 0..n
        BY <1>1, <1>3
      <4>2. f[0] = << >>
        <5> HIDE DEF n, Op
        <5> QED BY <3>4, <4>1 DEF Recurs
      <4>3. f[1 - 1] = << >>
        BY <4>2
      <4> HIDE DEF n
      <4>4. f[1] = << >> \o pieces[1]
        BY <3>5, <4>1, <4>3
      <4> QED BY <3>1, <4>1, <4>4, ConcatEmptySeq
    <3>7. ASSUME NEW i \in 1..n
          PROVE  g[i] = IF i = 1 THEN pieces[i] ELSE g[i - 1] \o pieces[i]
      <4>1. i = 1 \/ i - 1 \in 1..n
        BY <1>1
      <4> HIDE DEF n
      <4> QED BY <3>5, <3>6, <4>1
    <3>8. Flattens(g)
      <4> HIDE DEF n
      <4> QED BY <3>7
    <3> HIDE DEF Flattens, g
    <3> QED BY <3>8
  <2>2. Flattens(F)
    <3> HIDE DEF Flattens
    <3> QED BY <2>1
  <2>3. FlattenSeq(pieces) = F[n]
    BY <1>3 DEF FlattenSeq
  <2> HIDE DEF F
  <2>4. ASSUME NEW i \in 1..n
        PROVE  F[i] = IF i = 1 THEN pieces[i] ELSE F[i - 1] \o pieces[i]
    <3> HIDE DEF n
    <3> QED BY <2>2
  <2> DEFINE S == {i \in 0..n : i # 0 => /\ F[i] \in Seq(V)
                                         /\ Laid(F[i], SubSeq(pieces, 1, i))}
  <2>5. 0 \in S
    BY <1>1
  <2>6. ASSUME NEW i \in 1..n, i - 1 \in S PROVE i \in S
    <3>1. /\ SubSeq(pieces, 1, i - 1) \in Seq(Seq(V)) /\ pieces[i] \in Seq(V)
          /\ SubSeq(pieces, 1, i) = Append(SubSeq(pieces, 1, i - 1), pieces[i])
      BY PrefixAppend
    <3>2. CASE i = 1
      <4>1. F[i] = << >> \o pieces[i]
        BY <2>4, <3>1, <3>2, ConcatEmptySeq
      <4>2. SubSeq(pieces, 1, i - 1) = << >>
        BY <3>2, SubSeqEmpty
      <4>3. << >> \in Seq(V) /\ << >> \in Seq(Seq(V))
        OBVIOUS
      <4>4. Laid(<< >> \o pieces[i], Append(<< >>, pieces[i]))
        BY <3>1, <4>3, LaidEmpty, LaidAppend
      <4>5. << >> \o pieces[i] \in Seq(V)
        BY <3>1, <4>3
      <4> HIDE DEF n
      <4>6. i \in 0..n
        BY <1>1
      <4> QED BY <3>1, <4>1, <4>2, <4>4, <4>5, <4>6
    <3>3. CASE i # 1
      <4> HIDE DEF n
      <4>1. F[i] = F[i - 1] \o pieces[i]
        BY <2>4, <3>3
      <4>2. F[i - 1] \in Seq(V) /\ Laid(F[i - 1], SubSeq(pieces, 1, i - 1))
        BY <1>1, <2>6, <3>3
      <4>3. Laid(F[i - 1] \o pieces[i], Append(SubSeq(pieces, 1, i - 1), pieces[i]))
        BY <3>1, <4>2, LaidAppend
      <4>4. F[i - 1] \o pieces[i] \in Seq(V)
        BY <3>1, <4>2
      <4>5. i \in 0..n
        BY <1>1
      <4> QED BY <3>1, <4>1, <4>3, <4>4, <4>5
    <3> QED BY <3>2, <3>3
  <2>7. n \in S
    <3> HIDE DEF S, n
    <3>1. 0..n \subseteq S
      BY <1>1, <2>5, <2>6, UpTo
    <3> QED BY <1>1, <3>1
  <2>8. SubSeq(pieces, 1, n) = pieces
    BY SubSeqFull
  <2> HIDE DEF n
  <2> QED BY <1>3, <2>3, <2>7, <2>8
<1> QED BY <1>2, <1>3

-----------------------------------------------------------------------------
(* Requests. *)

Tokens(D) == ({"sql", "param"} \X D) \cup ({"count"} \X Nat)

LEMMA FlatStatementFacts ==
  ASSUME NEW D, NEW s \in D, NEW params \in Nat
  PROVE  /\ FlatStatement(s, params) \in Seq(Tokens(D))
         /\ Len(FlatStatement(s, params)) = params + 2
         /\ FlatStatement(s, params)[1] = <<"sql", s>>
         /\ FlatStatement(s, params)[2] = <<"count", params>>
<1> DEFINE head == <<<<"sql", s>>, <<"count", params>>>>
           tail == [i \in 1..params |-> <<"param", s>>]
<1>1. <<"sql", s>> \in Tokens(D) /\ <<"count", params>> \in Tokens(D)
      /\ <<"param", s>> \in Tokens(D)
  BY DEF Tokens
<1>2. head \in Seq(Tokens(D)) /\ Len(head) = 2
      /\ head[1] = <<"sql", s>> /\ head[2] = <<"count", params>>
  <2> DEFINE a == <<"sql", s>>  b == <<"count", params>>
  <2>1. a \in Tokens(D) /\ b \in Tokens(D)
    BY <1>1
  <2> HIDE DEF a, b
  <2>2. <<a, b>> \in Seq(Tokens(D)) /\ Len(<<a, b>>) = 2
        /\ <<a, b>>[1] = a /\ <<a, b>>[2] = b
    BY <2>1
  <2> QED BY <2>2 DEF a, b
<1>3. tail \in Seq(Tokens(D)) /\ Len(tail) = params
  <2> DEFINE p == <<"param", s>>
             t == [i \in 1..params |-> p]
  <2>1. p \in Tokens(D)
    BY <1>1
  <2> HIDE DEF p
  <2>2. t \in Seq(Tokens(D)) /\ Len(t) = params
    BY <2>1
  <2> QED BY <2>2 DEF p
<1>4. FlatStatement(s, params) = head \o tail
  BY DEF FlatStatement
<1> HIDE DEF head, tail
<1>5. /\ head \o tail \in Seq(Tokens(D)) /\ Len(head \o tail) = 2 + params
      /\ \A i \in 1..(2 + params) :
           (head \o tail)[i] = IF i <= 2 THEN head[i] ELSE tail[i - 2]
  <2>1. /\ head \o tail \in Seq(Tokens(D)) /\ Len(head \o tail) = Len(head) + Len(tail)
        /\ \A i \in 1..(Len(head) + Len(tail)) :
             (head \o tail)[i] = IF i <= Len(head) THEN head[i] ELSE tail[i - Len(head)]
    BY <1>2, <1>3, ConcatProperties
  <2> QED BY <1>2, <1>3, <2>1
<1>6. 1 \in 1..(2 + params) /\ 2 \in 1..(2 + params)
  OBVIOUS
<1> QED BY <1>2, <1>4, <1>5, <1>6

\* The list that run_batch makes has the statements one behind the other.
LEMMA FlatListLaid ==
  ASSUME NEW D, NEW stmts \in Seq(D), NEW params \in [DOMAIN stmts -> Nat]
  PROVE  /\ FlatList(stmts, params) \in Seq(Tokens(D))
         /\ Laid(FlatList(stmts, params),
                 [i \in DOMAIN stmts |-> FlatStatement(stmts[i], params[i])])
<1> DEFINE pieces == [i \in DOMAIN stmts |-> FlatStatement(stmts[i], params[i])]
           n == Len(stmts)
           piece(i) == FlatStatement(stmts[i], params[i])
<1>1. n \in Nat /\ DOMAIN stmts = 1..n
  OBVIOUS
<1>2. ASSUME NEW i \in 1..n PROVE piece(i) \in Seq(Tokens(D))
  <2>1. stmts[i] \in D /\ params[i] \in Nat
    BY <1>1
  <2> QED BY <2>1, FlatStatementFacts
<1>3. pieces = [i \in 1..n |-> piece(i)]
  BY <1>1
<1>4. pieces \in Seq(Seq(Tokens(D)))
  <2> HIDE DEF piece, n
  <2>1. [i \in 1..n |-> piece(i)] \in Seq(Seq(Tokens(D)))
    BY <1>1, <1>2
  <2> QED BY <1>3, <2>1
<1> HIDE DEF pieces
<1> QED BY <1>4, FlattenLaid DEF FlatList, pieces

\* What the native side reads from a list with these statements, one behind the
\* other, is these statements.
LEMMA LaidStatements ==
  ASSUME NEW D, NEW stmts \in Seq(D), NEW params \in [DOMAIN stmts -> Nat],
         NEW list \in Seq(Tokens(D)),
         Laid(list, [i \in DOMAIN stmts |-> FlatStatement(stmts[i], params[i])])
  PROVE  Statements(list, Len(stmts)) = stmts
<1> DEFINE n == Len(stmts)
           pieces == [i \in DOMAIN stmts |-> FlatStatement(stmts[i], params[i])]
           next(ai) == IF Fits(list, ai) THEN ai + 2 + list[ai + 1][2] ELSE Len(list) + 1
           Reads(at) == at = [i \in 0..n |-> IF i = 0 THEN 1 ELSE next(at[i - 1])]
           A == CHOOSE at : Reads(at)
           Op == [k \in 1..n |-> [ai \in Nat |-> next(ai)]]
<1>1. n \in Nat /\ DOMAIN stmts = 1..n /\ Len(list) \in Nat
  OBVIOUS
<1>2. ASSUME NEW ai \in Nat PROVE next(ai) \in Nat
  <2>1. CASE Fits(list, ai)
    <3>1. ai + 1 \in 1..Len(list) /\ list[ai + 1][1] = "count"
      BY <1>1, <2>1 DEF Fits
    <3>2. list[ai + 1] \in Tokens(D)
      BY <3>1
    <3>3. list[ai + 1][2] \in Nat
      BY <3>1, <3>2 DEF Tokens
    <3> QED BY <2>1, <3>3
  <2> QED BY <1>1, <2>1
<1> HIDE DEF next
<1>3. \E at : Reads(at)
  <2>1. Recursive(n, Nat, 1, Op)
    BY <1>1, <1>2 DEF Recursive
  <2>2. PICK f : Recurs(f, n, Nat, 1, Op)
    <3> HIDE DEF n, Op
    <3> QED BY <2>1, Recursion
  <2> DEFINE g == [i \in 0..n |-> f[i]]
  <2>3. ASSUME NEW i \in 1..n PROVE f[i] = next(f[i - 1])
    <3> HIDE DEF n
    <3>1. f[i] = Op[i][f[i - 1]] /\ f[i - 1] \in Nat
      <4> HIDE DEF Op
      <4>1. i - 1 \in 0..n
        BY <1>1
      <4> QED BY <2>2, <4>1 DEF Recurs
    <3> QED BY <3>1
  <2>4. f[0] = 1
    BY <2>2 DEF Recurs
  <2>5. ASSUME NEW i \in 0..n PROVE g[i] = IF i = 0 THEN 1 ELSE next(g[i - 1])
    <3> HIDE DEF n
    <3>1. i = 0 \/ (i \in 1..n /\ i - 1 \in 0..n)
      BY <1>1
    <3> QED BY <2>3, <2>4, <3>1
  <2>6. Reads(g)
    <3> HIDE DEF n
    <3> QED BY <2>5
  <2> HIDE DEF Reads, g
  <2> QED BY <2>6
<1>4. Reads(A)
  <2> HIDE DEF Reads
  <2> QED BY <1>3
<1>5. Statements(list, n) = IF \A i \in 1..n : Fits(list, A[i - 1])
                            THEN [i \in 1..n |-> list[A[i - 1]][2]] ELSE << >>
  BY DEF Statements, next
<1> HIDE DEF A
<1>6. A[0] = 1 /\ \A i \in 1..n : A[i] = next(A[i - 1])
  <2>1. 0 \in 0..n /\ \A i \in 1..n : i \in 0..n /\ i # 0
    BY <1>1
  <2> HIDE DEF n
  <2> QED BY <1>4, <2>1
<1>7. PICK at : LaidAt(list, pieces, at)
  BY DEF Laid
<1>8. Len(pieces) = n
  BY <1>1
<1>9. ASSUME NEW i \in 1..n
      PROVE  /\ pieces[i] \in Seq(Tokens(D)) /\ Len(pieces[i]) = params[i] + 2
             /\ pieces[i][1] = <<"sql", stmts[i]>> /\ pieces[i][2] = <<"count", params[i]>>
             /\ params[i] \in Nat
  <2>1. stmts[i] \in D /\ params[i] \in Nat /\ pieces[i] = FlatStatement(stmts[i], params[i])
    BY <1>1
  <2> DEFINE f == FlatStatement(stmts[i], params[i])
  <2>2. /\ f \in Seq(Tokens(D)) /\ Len(f) = params[i] + 2
        /\ f[1] = <<"sql", stmts[i]>> /\ f[2] = <<"count", params[i]>>
    <3> HIDE DEF pieces
    <3> QED BY <2>1, FlatStatementFacts
  <2> HIDE DEF f, pieces
  <2>3. pieces[i] = f
    BY <2>1 DEF f
  <2> QED BY <2>1, <2>2, <2>3
<1>10. pieces \in Seq(Seq(Tokens(D)))
  <2>1. pieces = [i \in 1..n |-> pieces[i]]
    BY <1>1
  <2> HIDE DEF pieces, n
  <2>2. [i \in 1..n |-> pieces[i]] \in Seq(Seq(Tokens(D)))
    BY <1>1, <1>9
  <2> QED BY <2>1, <2>2
<1> HIDE DEF pieces
<1>11. \A i \in 0..n : at[i] \in Nat \ {0} /\ at[i] <= Len(list) + 1
  <2> HIDE DEF n
  <2> QED BY <1>7, <1>8, <1>10, LaidInside DEF LaidAt
<1>12. ASSUME NEW i \in 1..n
       PROVE  /\ Fits(list, at[i - 1]) /\ list[at[i - 1]][2] = stmts[i]
              /\ next(at[i - 1]) = at[i]
  <2>1. i - 1 \in 0..n /\ i \in 0..n
    BY <1>1
  <2>2. at[i] = at[i - 1] + (params[i] + 2) /\ at[i] <= Len(list) + 1
        /\ at[i - 1] \in Nat \ {0} /\ params[i] \in Nat
    <3> HIDE DEF n
    <3> QED BY <1>7, <1>8, <1>9, <1>11, <2>1 DEF LaidAt
  <2>3. 1 \in 1..Len(pieces[i]) /\ 2 \in 1..Len(pieces[i])
    <3> HIDE DEF n
    <3>1. Len(pieces[i]) = params[i] + 2
      BY <1>9
    <3> QED BY <2>2, <3>1
  <2>4. list[at[i - 1] + 1 - 1] = pieces[i][1] /\ list[at[i - 1] + 2 - 1] = pieces[i][2]
    <3> HIDE DEF n
    <3> QED BY <1>7, <1>8, <2>3 DEF LaidAt
  <2>5. list[at[i - 1]] = <<"sql", stmts[i]>> /\ list[at[i - 1] + 1] = <<"count", params[i]>>
    <3>1. at[i - 1] + 1 - 1 = at[i - 1] /\ at[i - 1] + 2 - 1 = at[i - 1] + 1
      BY <2>2
    <3> HIDE DEF n
    <3> QED BY <1>9, <2>4, <3>1
  <2>6. Fits(list, at[i - 1])
    BY <1>1, <2>2, <2>5 DEF Fits
  <2>7. list[at[i - 1] + 1][2] = params[i] /\ list[at[i - 1]][2] = stmts[i]
    BY <2>5
  <2>8. next(at[i - 1]) = at[i - 1] + 2 + params[i]
    BY <2>6, <2>7 DEF next
  <2>9. next(at[i - 1]) = at[i]
    <3>1. ASSUME NEW a \in Nat, NEW p \in Nat PROVE a + 2 + p = a + (p + 2)
      OBVIOUS
    <3> HIDE DEF n
    <3> QED BY <2>2, <2>8, <3>1
  <2> QED BY <2>6, <2>7, <2>9
<1> DEFINE S == {i \in 0..n : A[i] = at[i]}
<1>13. 0..n \subseteq S
  <2>1. 0 \in S
    BY <1>1, <1>6, <1>7 DEF LaidAt
  <2>2. ASSUME NEW i \in 1..n, i - 1 \in S PROVE i \in S
    <3>1. i \in 0..n
      BY <1>1
    <3> HIDE DEF n
    <3> QED BY <1>6, <1>12, <2>2, <3>1
  <2> HIDE DEF S, n
  <2> QED BY <1>1, <2>1, <2>2, UpTo
<1>14. \A i \in 1..n : Fits(list, A[i - 1]) /\ list[A[i - 1]][2] = stmts[i]
  <2> TAKE i \in 1..n
  <2>1. i - 1 \in 0..n
    BY <1>1
  <2> HIDE DEF n
  <2> QED BY <1>12, <1>13, <2>1
<1>15. Statements(list, n) = [i \in 1..n |-> stmts[i]]
  <2> HIDE DEF n
  <2> QED BY <1>5, <1>14
<1>16. stmts = [i \in 1..n |-> stmts[i]]
  BY <1>1
<1> QED BY <1>15, <1>16

\* For any statements with any numbers of parameters: what the native side reads
\* from the flat list run_batch made of them is these statements.
THEOREM StatementsAreRead ==
  ASSUME NEW D, NEW stmts \in Seq(D), NEW params \in [DOMAIN stmts -> Nat]
  PROVE  Statements(FlatList(stmts, params), Len(stmts)) = stmts
<1> DEFINE list == FlatList(stmts, params)
           pieces == [i \in DOMAIN stmts |-> FlatStatement(stmts[i], params[i])]
<1>1. list \in Seq(Tokens(D)) /\ Laid(list, pieces)
  BY FlatListLaid
<1> HIDE DEF list
<1>2. Statements(list, Len(stmts)) = stmts
  BY <1>1, LaidStatements
<1> QED BY <1>2 DEF list

\* What the first k parts hold.
FirstParts(list, size, k) ==
  SubSeq(list, 1, IF k * size < Len(list) THEN k * size ELSE Len(list))

LEMMA Division ==
  ASSUME NEW a \in Nat, NEW b \in Nat \ {0}
  PROVE  a \div b \in Nat /\ (a \div b) * b <= a /\ a < (a \div b) * b + b
OBVIOUS

LEMMA ProductOrder ==
  ASSUME NEW a \in Nat, NEW b \in Nat, NEW s \in Nat, a <= b
  PROVE  a * s \in Nat /\ a * s <= b * s /\ (a + 1) * s = a * s + s
OBVIOUS

LEMMA PartsExtend ==
  ASSUME NEW V, NEW list \in Seq(V), NEW size \in Nat \ {0}, NEW i \in 1..PartCount(list, size)
  PROVE  /\ FirstParts(list, size, i - 1) \in Seq(V) /\ Part(list, size, i) \in Seq(V)
         /\ FirstParts(list, size, i) = FirstParts(list, size, i - 1) \o Part(list, size, i)
<1> DEFINE n == Len(list)
           q == (n + size - 1) \div size
           lo == (i - 1) * size
           hi == IF i * size < n THEN i * size ELSE n
<1>1. n \in Nat
  OBVIOUS
<1>2. q \in Nat /\ q * size <= n + size - 1
  <2>1. n + size - 1 \in Nat
    BY <1>1
  <2> HIDE DEF n
  <2> QED BY <2>1, Division
<1>3. i \in 1..q
  BY DEF PartCount
<1> HIDE DEF n, q
<1>4. i \in Nat /\ i - 1 \in Nat /\ i <= q /\ i - 1 <= i /\ i - 1 + 1 = i
  BY <1>2, <1>3
<1>5. lo \in Nat /\ i * size \in Nat /\ i * size = lo + size /\ i * size <= q * size
      /\ q * size \in Nat
  BY <1>2, <1>4, ProductOrder
<1>6. lo < n /\ hi \in Nat /\ lo <= hi /\ hi <= n
  BY <1>1, <1>2, <1>5
<1>7. FirstParts(list, size, i - 1) = SubSeq(list, 1, lo)
  BY <1>6 DEF FirstParts, n
<1>8. FirstParts(list, size, i) = SubSeq(list, 1, hi)
  BY DEF FirstParts, n
<1>9. Part(list, size, i) = SubSeq(list, lo + 1, hi)
  BY DEF Part, n
<1> HIDE DEF lo, hi
<1>10. \A j \in 1..n : list[j] \in V
  BY DEF n
<1> DEFINE a == SubSeq(list, 1, lo)
           b == SubSeq(list, lo + 1, hi)
           c == SubSeq(list, 1, hi)
<1>11. a \in Seq(V) /\ Len(a) = lo /\ \A j \in 1..lo : a[j] = list[j]
  <2>1. \A j \in 1..lo : list[j] \in V
    BY <1>1, <1>5, <1>6, <1>10
  <2>2. /\ a \in Seq(V) /\ Len(a) = IF 1 <= lo THEN lo - 1 + 1 ELSE 0
        /\ \A j \in 1..(lo - 1 + 1) : a[j] = list[1 + j - 1]
    BY <1>5, <2>1, SubSeqProperties
  <2> HIDE DEF a
  <2> QED BY <1>5, <2>2
<1>12. c \in Seq(V) /\ Len(c) = hi /\ \A j \in 1..hi : c[j] = list[j]
  <2>1. \A j \in 1..hi : list[j] \in V
    BY <1>1, <1>6, <1>10
  <2>2. /\ c \in Seq(V) /\ Len(c) = IF 1 <= hi THEN hi - 1 + 1 ELSE 0
        /\ \A j \in 1..(hi - 1 + 1) : c[j] = list[1 + j - 1]
    BY <1>6, <2>1, SubSeqProperties
  <2> HIDE DEF c
  <2> QED BY <1>6, <2>2
<1>13. b \in Seq(V) /\ Len(b) = hi - lo /\ \A j \in 1..(hi - lo) : b[j] = list[lo + j]
  <2>1. \A j \in (lo + 1)..hi : list[j] \in V
    BY <1>1, <1>5, <1>6, <1>10
  <2>2. /\ b \in Seq(V) /\ Len(b) = IF lo + 1 <= hi THEN hi - (lo + 1) + 1 ELSE 0
        /\ \A j \in 1..(hi - (lo + 1) + 1) : b[j] = list[lo + 1 + j - 1]
    BY <1>5, <1>6, <2>1, SubSeqProperties
  <2>3. hi - (lo + 1) + 1 = hi - lo /\ \A j \in Nat : lo + 1 + j - 1 = lo + j
    BY <1>5, <1>6
  <2> HIDE DEF b
  <2> QED BY <1>5, <1>6, <2>2, <2>3
<1> HIDE DEF a, b, c
<1>14. a \o b \in Seq(V) /\ Len(a \o b) = hi
       /\ \A j \in 1..hi : (a \o b)[j] = IF j <= lo THEN a[j] ELSE b[j - lo]
  <2>1. /\ a \o b \in Seq(V) /\ Len(a \o b) = Len(a) + Len(b)
        /\ \A j \in 1..(Len(a) + Len(b)) :
             (a \o b)[j] = IF j <= Len(a) THEN a[j] ELSE b[j - Len(a)]
    BY <1>11, <1>13, ConcatProperties
  <2> QED BY <1>5, <1>6, <1>11, <1>13, <2>1
<1>15. \A j \in 1..hi : (a \o b)[j] = c[j]
  <2> TAKE j \in 1..hi
  <2>1. CASE j <= lo
    <3>1. j \in 1..lo
      BY <1>5, <1>6, <2>1
    <3> QED BY <1>11, <1>12, <1>14, <2>1, <3>1
  <2>2. CASE ~(j <= lo)
    <3>1. j - lo \in 1..(hi - lo) /\ lo + (j - lo) = j
      BY <1>5, <1>6, <2>2
    <3> QED BY <1>12, <1>13, <1>14, <2>2, <3>1
  <2> QED BY <2>1, <2>2
<1>16. a \o b = c
  BY <1>12, <1>14, <1>15, SeqEqual
<1> QED BY <1>7, <1>8, <1>9, <1>11, <1>13, <1>16 DEF a, b, c

\* A list that is sent in parts: none of it is left when the last one is sent.
LEMMA AllParts ==
  ASSUME NEW V, NEW list \in Seq(V), NEW size \in Nat \ {0}
  PROVE  /\ PartCount(list, size) \in Nat
         /\ FirstParts(list, size, 0) = << >>
         /\ FirstParts(list, size, PartCount(list, size)) = list
<1> DEFINE n == Len(list)
           q == (n + size - 1) \div size
<1>1. n \in Nat
  OBVIOUS
<1>2. q \in Nat /\ n + size - 1 < q * size + size
  <2>1. n + size - 1 \in Nat
    BY <1>1
  <2> HIDE DEF n
  <2> QED BY <2>1, Division
<1>3. q * size \in Nat /\ 0 * size = 0
  <2> HIDE DEF q
  <2> QED BY <1>2, ProductOrder
<1>4. ~(q * size < n)
  <2> HIDE DEF q, n
  <2> QED BY <1>1, <1>2, <1>3
<1>5. FirstParts(list, size, q) = SubSeq(list, 1, n)
  <2> HIDE DEF q
  <2> QED BY <1>4 DEF FirstParts
<1>6. SubSeq(list, 1, n) = list
  BY SubSeqFull
<1>7. FirstParts(list, size, 0) = SubSeq(list, 1, 0)
  BY <1>1, <1>3 DEF FirstParts
<1>8. SubSeq(list, 1, 0) = << >>
  BY SubSeqEmpty
<1> QED BY <1>2, <1>5, <1>6, <1>7, <1>8 DEF PartCount

\* For any list and any size of a part: the native side, which begins with an
\* empty list and puts every part it takes behind it, has the list when it has
\* taken the last part.
THEOREM PartsMakeTheList ==
  ASSUME NEW V, NEW list \in Seq(V), NEW size \in Nat \ {0}, NEW taken, taken[0] = << >>,
         \A i \in 1..PartCount(list, size) : taken[i] = taken[i - 1] \o Part(list, size, i)
  PROVE  taken[PartCount(list, size)] = list
<1> DEFINE q == PartCount(list, size)
           S == {i \in 0..q : taken[i] = FirstParts(list, size, i)}
<1>1. q \in Nat /\ FirstParts(list, size, 0) = << >> /\ FirstParts(list, size, q) = list
  BY AllParts
<1>2. 0 \in S
  BY <1>1
<1>3. ASSUME NEW i \in 1..q, i - 1 \in S PROVE i \in S
  <2>1. FirstParts(list, size, i) = FirstParts(list, size, i - 1) \o Part(list, size, i)
    BY PartsExtend
  <2> HIDE DEF q
  <2>2. i \in 0..q
    BY <1>1
  <2>3. taken[i] = taken[i - 1] \o Part(list, size, i)
    BY DEF q
  <2> QED BY <1>3, <2>1, <2>2, <2>3
<1>4. 0..q \subseteq S
  <2> HIDE DEF S, q
  <2> QED BY <1>1, <1>2, <1>3, UpTo
<1>5. q \in S
  <2> HIDE DEF S, q
  <2> QED BY <1>1, <1>4
<1> QED BY <1>1, <1>5

-----------------------------------------------------------------------------
(* Results. *)

\* The tokens of results.
Words == {"ok", "ch2", "okrows", "endrows", "error", "0", "1", "v"}

\* What becomes of a statement that does not fail behind a row.
Endings == {<<"changes", 0>>, <<"changes", 1>>, <<"error", 0>>} \cup ({"rows"} \X Nat)

LEMMA RowFacts == Row \in Seq(Words) /\ Len(Row) = 3 /\ Row[1] = "1"
<1> DEFINE a == "1"  b == "v"
<1>1. a \in Words /\ b \in Words
  BY DEF Words
<1> HIDE DEF a, b
<1>2. <<a, b, b>> \in Seq(Words)
  BY <1>1
<1>3. Len(<<a, b, b>>) = 3 /\ <<a, b, b>>[1] = a
  OBVIOUS
<1> QED BY <1>2, <1>3 DEF Row, a, b

LEMMA RowsFacts ==
  ASSUME NEW n \in Nat
  PROVE  /\ Rows(n) \in Seq(Words) /\ Len(Rows(n)) = 3 * n
         /\ \A k \in 1..n : Rows(n)[3 * (k - 1) + 1] = "1"
<1> DEFINE pieces == [i \in 1..n |-> Row]
<1>1. pieces \in Seq(Seq(Words)) /\ Len(pieces) = n /\ \A i \in 1..n : pieces[i] = Row
  BY RowFacts
<1> HIDE DEF pieces
<1>2. Rows(n) \in Seq(Words) /\ Laid(Rows(n), pieces)
  BY <1>1, FlattenLaid DEF Rows, pieces
<1> DEFINE list == Rows(n)
<1> HIDE DEF list
<1>3. PICK at : LaidAt(list, pieces, at)
  BY <1>2 DEF Laid, list
<1> DEFINE S == {i \in 0..n : at[i] = 3 * i + 1}
<1>4. 0 \in S
  BY <1>1, <1>3 DEF LaidAt
<1>5. ASSUME NEW i \in 1..n, i - 1 \in S PROVE i \in S
  <2>1. at[i] = at[i - 1] + 3
    BY <1>1, <1>3, RowFacts DEF LaidAt
  <2> QED BY <1>5, <2>1
<1>6. 0..n \subseteq S
  <2> HIDE DEF S
  <2> QED BY <1>4, <1>5, UpTo
<1>7. Len(list) = 3 * n
  <2>1. at[n] = 3 * n + 1 /\ at[n] = Len(list) + 1
    BY <1>1, <1>3, <1>6 DEF LaidAt
  <2> QED BY <1>2, <2>1 DEF list
<1>8. ASSUME NEW k \in 1..n PROVE list[3 * (k - 1) + 1] = "1"
  <2>1. k - 1 \in 0..n /\ 1 \in 1..3
    OBVIOUS
  <2>2. at[k - 1] = 3 * (k - 1) + 1
    BY <1>6, <2>1
  <2>3. list[at[k - 1] + 1 - 1] = Row[1]
    <3>1. Len(pieces[k]) = 3 /\ pieces[k] = Row
      BY <1>1, RowFacts
    <3>2. \A j \in 1..Len(pieces[k]) : list[at[k - 1] + j - 1] = pieces[k][j]
      BY <1>1, <1>3 DEF LaidAt
    <3> QED BY <2>1, <3>1, <3>2
  <2>4. 3 * (k - 1) + 1 + 1 - 1 = 3 * (k - 1) + 1
    OBVIOUS
  <2> QED BY <2>2, <2>3, <2>4, RowFacts
<1> QED BY <1>2, <1>7, <1>8 DEF list

\* The tokens that one statement's result is written with.
LEMMA EncodeFacts ==
  ASSUME NEW o \in Endings, NEW platform
  PROVE  /\ Encode(o, platform) \in Seq(Words) /\ Len(Encode(o, platform)) \in Nat \ {0}
         /\ \/ /\ o = <<"changes", 0>> /\ Len(Encode(o, platform)) = 1
               /\ Encode(o, platform)[1] = "ok"
            \/ /\ o = <<"changes", 0>> /\ Len(Encode(o, platform)) = 3
               /\ Encode(o, platform)[1] = "ch2" /\ Encode(o, platform)[2] = "0"
            \/ /\ o = <<"changes", 1>> /\ Len(Encode(o, platform)) = 3
               /\ Encode(o, platform)[1] = "ch2" /\ Encode(o, platform)[2] = "1"
            \/ /\ o = <<"error", 0>> /\ Len(Encode(o, platform)) = 4
               /\ Encode(o, platform)[1] = "error"
            \/ \E n \in Nat :
                 /\ o = <<"rows", n>> /\ Len(Encode(o, platform)) = 3 * n + 2
                 /\ Encode(o, platform)[1] = "okrows"
                 /\ Encode(o, platform)[3 * n + 2] = "endrows"
                 /\ \A k \in 1..n : Encode(o, platform)[3 * (k - 1) + 2] = "1"
<1> DEFINE e == Encode(o, platform)
<1>0. \A a, b, c, d \in Words :
        /\ <<a>> \in Seq(Words) /\ <<a, b, c>> \in Seq(Words) /\ <<a, b, c, d>> \in Seq(Words)
        /\ Len(<<a>>) = 1 /\ Len(<<a, b, c>>) = 3 /\ Len(<<a, b, c, d>>) = 4
        /\ <<a>>[1] = a /\ <<a, b, c>>[1] = a /\ <<a, b, c>>[2] = b /\ <<a, b, c, d>>[1] = a
  OBVIOUS
<1>w. "ok" \in Words /\ "ch2" \in Words /\ "okrows" \in Words /\ "endrows" \in Words
      /\ "error" \in Words /\ "0" \in Words /\ "1" \in Words /\ "v" \in Words
  BY DEF Words
<1>1. CASE o = <<"changes", 0>>
  <2>1. e = IF platform = "ios" THEN <<"ch2", "0", "v">> ELSE <<"ok">>
    BY <1>1 DEF Encode
  <2>2. /\ <<"ch2", "0", "v">> \in Seq(Words) /\ Len(<<"ch2", "0", "v">>) = 3
        /\ <<"ch2", "0", "v">>[1] = "ch2" /\ <<"ch2", "0", "v">>[2] = "0"
    BY <1>0, <1>w
  <2>3. <<"ok">> \in Seq(Words) /\ Len(<<"ok">>) = 1 /\ <<"ok">>[1] = "ok"
    BY <1>0, <1>w
  <2> HIDE DEF e
  <2> DEFINE x == <<"ch2", "0", "v">>  y == <<"ok">>
  <2> HIDE DEF x, y
  <2>4. e = x \/ e = y
    BY <2>1 DEF x, y
  <2>5. x \in Seq(Words) /\ Len(x) = 3 /\ x[1] = "ch2" /\ x[2] = "0"
    BY <2>2 DEF x
  <2>6. y \in Seq(Words) /\ Len(y) = 1 /\ y[1] = "ok"
    BY <2>3 DEF y
  <2>7. \/ e \in Seq(Words) /\ Len(e) = 3 /\ e[1] = "ch2" /\ e[2] = "0"
        \/ e \in Seq(Words) /\ Len(e) = 1 /\ e[1] = "ok"
    BY <2>4, <2>5, <2>6
  <2> QED BY <1>1, <2>7 DEF e
<1>2. CASE o = <<"changes", 1>>
  <2>1. e = <<"ch2", "1", "v">>
    BY <1>2 DEF Encode
  <2>2. /\ <<"ch2", "1", "v">> \in Seq(Words) /\ Len(<<"ch2", "1", "v">>) = 3
        /\ <<"ch2", "1", "v">>[1] = "ch2" /\ <<"ch2", "1", "v">>[2] = "1"
    BY <1>0, <1>w
  <2> HIDE DEF e
  <2> DEFINE x == <<"ch2", "1", "v">>
  <2> HIDE DEF x
  <2>3. e = x
    BY <2>1 DEF x
  <2>4. x \in Seq(Words) /\ Len(x) = 3 /\ x[1] = "ch2" /\ x[2] = "1"
    BY <2>2 DEF x
  <2>5. e \in Seq(Words) /\ Len(e) = 3 /\ e[1] = "ch2" /\ e[2] = "1"
    BY <2>3, <2>4
  <2> QED BY <1>2, <2>5 DEF e
<1>3. CASE o = <<"error", 0>>
  <2>1. e = Error
    BY <1>3 DEF Encode
  <2>2. /\ Error \in Seq(Words) /\ Len(Error) = 4 /\ Error[1] = "error"
    BY <1>0, <1>w DEF Error
  <2> HIDE DEF e
  <2>5. e \in Seq(Words) /\ Len(e) = 4 /\ e[1] = "error"
    BY <2>1, <2>2
  <2> QED BY <1>3, <2>5 DEF e
<1>4. CASE o \in {"rows"} \X Nat
  <2>0. PICK n \in Nat : o = <<"rows", n>>
    BY <1>4
  <2>1. e = <<"okrows">> \o Rows(n) \o <<"endrows">>
    BY <2>0 DEF Encode
  <2> DEFINE x == <<"okrows">>  y == Rows(n)  z == <<"endrows">>
  <2>2. x \in Seq(Words) /\ Len(x) = 1 /\ x[1] = "okrows"
    BY <1>0, <1>w
  <2>3. z \in Seq(Words) /\ Len(z) = 1 /\ z[1] = "endrows"
    BY <1>0, <1>w
  <2>4. /\ y \in Seq(Words) /\ Len(y) = 3 * n /\ \A k \in 1..n : y[3 * (k - 1) + 1] = "1"
    BY RowsFacts
  <2>5. e = x \o y \o z
    BY <2>1
  <2> HIDE DEF e, x, y, z
  <2>6. /\ x \o y \in Seq(Words) /\ Len(x \o y) = 3 * n + 1
        /\ \A i \in 1..(3 * n + 1) : (x \o y)[i] = IF i <= 1 THEN x[i] ELSE y[i - 1]
    <3>1. /\ x \o y \in Seq(Words) /\ Len(x \o y) = Len(x) + Len(y)
          /\ \A i \in 1..(Len(x) + Len(y)) :
               (x \o y)[i] = IF i <= Len(x) THEN x[i] ELSE y[i - Len(x)]
      <4>1. x \in Seq(Words) /\ y \in Seq(Words)
        BY <2>2, <2>4
      <4> QED BY <4>1, ConcatProperties
    <3>2. Len(x) + Len(y) = 3 * n + 1
      BY <2>2, <2>4
    <3> QED BY <2>2, <3>1, <3>2
  <2> DEFINE xy == x \o y
  <2> HIDE DEF xy
  <2>7. /\ e \in Seq(Words) /\ Len(e) = 3 * n + 2
        /\ \A i \in 1..(3 * n + 2) : e[i] = IF i <= 3 * n + 1 THEN xy[i] ELSE z[i - (3 * n + 1)]
    <3>0. xy \in Seq(Words) /\ Len(xy) = 3 * n + 1
      BY <2>6 DEF xy
    <3>1. /\ xy \o z \in Seq(Words) /\ Len(xy \o z) = Len(xy) + Len(z)
          /\ \A i \in 1..(Len(xy) + Len(z)) :
               (xy \o z)[i] = IF i <= Len(xy) THEN xy[i] ELSE z[i - Len(xy)]
      BY <2>3, <3>0, ConcatProperties
    <3>2. Len(xy) + Len(z) = 3 * n + 2
      BY <2>3, <3>0
    <3>3. e = xy \o z
      BY <2>5 DEF xy
    <3> QED BY <3>0, <3>1, <3>2, <3>3
  <2>8. e[1] = "okrows"
    <3>1. 1 \in 1..(3 * n + 2) /\ 1 \in 1..(3 * n + 1) /\ 1 <= 3 * n + 1
      OBVIOUS
    <3>2. e[1] = xy[1] /\ xy[1] = x[1]
      BY <2>6, <2>7, <3>1 DEF xy
    <3> QED BY <2>2, <3>2
  <2>9. e[3 * n + 2] = "endrows"
    <3>1. 3 * n + 2 \in 1..(3 * n + 2) /\ ~(3 * n + 2 <= 3 * n + 1)
          /\ 3 * n + 2 - (3 * n + 1) = 1
      OBVIOUS
    <3> QED BY <2>3, <2>7, <3>1
  <2>10. \A k \in 1..n : e[3 * (k - 1) + 2] = "1"
    <3> TAKE k \in 1..n
    <3>1. /\ 3 * (k - 1) + 2 \in 1..(3 * n + 2) /\ 3 * (k - 1) + 2 <= 3 * n + 1
          /\ 3 * (k - 1) + 2 \in 1..(3 * n + 1)
          /\ ~(3 * (k - 1) + 2 <= 1) /\ 3 * (k - 1) + 2 - 1 = 3 * (k - 1) + 1
      OBVIOUS
    <3>2. e[3 * (k - 1) + 2] = xy[3 * (k - 1) + 2]
      BY <2>7, <3>1
    <3>3. xy[3 * (k - 1) + 2] = y[3 * (k - 1) + 1]
      BY <2>6, <3>1 DEF xy
    <3> QED BY <2>4, <3>2, <3>3
  <2>11. Len(e) \in Nat \ {0}
    BY <2>7
  <2> QED BY <2>0, <2>7, <2>8, <2>9, <2>10, <2>11 DEF e
<1> QED BY <1>1, <1>2, <1>3, <1>4 DEF Endings

\* Where rows begin at ri, mycb reads as many as there are before endrows.
LEMMA RowsAreRead ==
  ASSUME NEW list \in Seq(Words), NEW ri \in Nat \ {0}, NEW n \in Nat, ri + 3 * n <= Len(list),
         list[ri + 3 * n] = "endrows", \A k \in 1..n : list[ri + 3 * (k - 1)] = "1"
  PROVE  ReadRows(list, ri) = [at |-> ri + 3 * n, n |-> n]
<1> DEFINE m == Len(list)
           next(r) == IF r.at > m \/ list[r.at] = "endrows" THEN r
                      ELSE [at |-> r.at + 1 + 2 * Number(list[r.at]), n |-> r.n + 1]
           Reads(f) == f = [k \in 0..m |-> IF k = 0 THEN [at |-> ri, n |-> 0] ELSE next(f[k - 1])]
           F == CHOOSE f : Reads(f)
           some(k) == IF k <= n THEN k ELSE n
           seen(k) == [at |-> ri + 3 * some(k), n |-> some(k)]
           g == [k \in 0..m |-> seen(k)]
<1>1. m \in Nat /\ n <= m
  OBVIOUS
<1>2. seen(0) = [at |-> ri, n |-> 0] /\ seen(m) = [at |-> ri + 3 * n, n |-> n]
  BY <1>1
<1>3. ASSUME NEW k \in 1..m PROVE next(seen(k - 1)) = seen(k)
  <2> DEFINE r == seen(k - 1)
  <2>0. k \in Nat /\ k # 0 /\ r.at = ri + 3 * some(k - 1) /\ r.n = some(k - 1)
    BY <1>1
  <2>1. CASE k <= n
    <3>1. some(k - 1) = k - 1 /\ some(k) = k
      BY <2>0, <2>1
    <3>2. r.at = ri + 3 * (k - 1) /\ r.n = k - 1
      BY <2>0, <3>1
    <3>3. k \in 1..n /\ ri + 3 * (k - 1) <= m
      BY <2>0, <2>1
    <3>4. list[r.at] = "1" /\ ~(r.at > m)
      BY <1>1, <3>2, <3>3
    <3>5. Number(list[r.at]) = 1 /\ list[r.at] # "endrows"
      BY <3>4 DEF Number
    <3>6. ri + 3 * (k - 1) + 1 + 2 * 1 = ri + 3 * k /\ k - 1 + 1 = k
      BY <2>0
    <3> HIDE DEF r, some, m
    <3>7. next(r) = [at |-> r.at + 1 + 2 * 1, n |-> r.n + 1]
      BY <3>4, <3>5
    <3>8. next(r) = [at |-> ri + 3 * k, n |-> k]
      BY <3>2, <3>6, <3>7
    <3>9. seen(k) = [at |-> ri + 3 * k, n |-> k]
      BY <3>1
    <3> HIDE DEF next, seen
    <3> QED BY <3>8, <3>9 DEF r
  <2>2. CASE ~(k <= n)
    <3>1. some(k - 1) = n /\ some(k) = n
      BY <2>0, <2>2
    <3>2. r.at = ri + 3 * n
      BY <2>0, <3>1
    <3>3. seen(k) = seen(k - 1)
      BY <3>1
    <3> HIDE DEF some, m, seen
    <3>4. next(r) = r
      <4>1. list[r.at] = "endrows"
        BY <3>2
      <4> HIDE DEF r
      <4> QED BY <4>1
    <3> QED BY <3>3, <3>4
  <2> QED BY <2>1, <2>2
<1>4. Reads(g)
  <2>1. ASSUME NEW k \in 0..m
        PROVE  seen(k) = IF k = 0 THEN [at |-> ri, n |-> 0] ELSE next(g[k - 1])
    <3>1. k = 0 \/ (k \in 1..m /\ k - 1 \in 0..m)
      BY <1>1
    <3> HIDE DEF next, seen, m
    <3> QED BY <1>2, <1>3, <3>1
  <2> HIDE DEF next, seen, m
  <2> QED BY <2>1
<1>5. Reads(F)
  <2> HIDE DEF Reads, g
  <2> QED BY <1>4
<1>6. ReadRows(list, ri) = F[m]
  BY DEF ReadRows
<1> DEFINE S == {k \in 0..m : F[k] = seen(k)}
<1> HIDE DEF F, g, next, seen, m
<1>7. F[0] = [at |-> ri, n |-> 0] /\ \A k \in 1..m : F[k] = next(F[k - 1])
  <2>1. 0 \in 0..m /\ \A k \in 1..m : k \in 0..m /\ k # 0
    BY <1>1
  <2> QED BY <1>5, <2>1
<1>8. 0 \in S
  BY <1>1, <1>2, <1>7
<1>9. ASSUME NEW k \in 1..m, k - 1 \in S PROVE k \in S
  <2>1. k \in 0..m
    BY <1>1
  <2> QED BY <1>3, <1>7, <1>9, <2>1
<1>10. m \in S
  <2> HIDE DEF S
  <2>1. 0..m \subseteq S
    BY <1>1, <1>8, <1>9, UpTo
  <2> QED BY <1>1, <2>1
<1> QED BY <1>2, <1>6, <1>10

\* In the list, from position a on, there is a result; b is the position behind it.
ResultAt(list, a, o, platform, b) ==
  LET e == Encode(o, platform) IN
  /\ list \in Seq(Words) /\ o \in Endings /\ a \in Nat \ {0}
  /\ b = a + Len(e) /\ b <= Len(list) + 1
  /\ \A j \in 1..Len(e) : list[a + j - 1] = e[j]

\* In the i-th iteration mycb calls the handler that is next with this result.
Served(list, handlers, w, i, o, b) ==
  Iterate(list, handlers, w, i) =
    [ri |-> b, calls |-> Append(w.calls, <<i, o>>), end |-> "returns"]

LEMMA OneResult ==
  ASSUME NEW list, NEW o, NEW platform, NEW w, NEW b, ResultAt(list, w.ri, o, platform, b),
         NEW handlers \in Nat, NEW i \in 1..handlers
  PROVE  Served(list, handlers, w, i, o, b)
<1> DEFINE a == w.ri
           calls == w.calls
           e == Encode(o, platform)
           next(to) == [ri |-> to, calls |-> Append(calls, <<i, o>>), end |-> "returns"]
<1>0. list \in Seq(Words) /\ o \in Endings
  BY DEF ResultAt
<1>1. w.ri = a /\ w.calls = calls
  OBVIOUS
<1>2. ~(i > handlers) /\ Len(list) \in Nat
  BY <1>0
<1>3. \A j \in 1..Len(e) : list[a + j - 1] = e[j]
  BY DEF ResultAt
<1>4. a \in Nat \ {0} /\ b = a + Len(e) /\ b <= Len(list) + 1
  BY DEF ResultAt
<1>6. CASE o = <<"changes", 0>> /\ Len(e) = 1 /\ e[1] = "ok"
  <2>1. list[a] = "ok"
    <3>1. 1 \in 1..Len(e) /\ a + 1 - 1 = a
      BY <1>4, <1>6
    <3> HIDE DEF e
    <3> QED BY <1>3, <1>6, <3>1
  <2>2. Iterate(list, handlers, w, i) = next(b)
    <3> HIDE DEF e
    <3> QED BY <1>1, <1>2, <1>4, <1>6, <2>1 DEF Iterate
  <2> QED BY <2>2 DEF Served
<1>7. CASE /\ Len(e) = 3 /\ e[1] = "ch2"
           /\ \/ o = <<"changes", 0>> /\ e[2] = "0"
              \/ o = <<"changes", 1>> /\ e[2] = "1"
  <2>1. list[a] = "ch2" /\ list[a + 1] = e[2]
    <3>1. 1 \in 1..Len(e) /\ a + 1 - 1 = a /\ 2 \in 1..Len(e) /\ a + 2 - 1 = a + 1
      BY <1>4, <1>7
    <3> HIDE DEF e
    <3> QED BY <1>3, <1>7, <3>1
  <2>2. o = <<"changes", Number(list[a + 1])>>
    <3> HIDE DEF e
    <3> QED BY <1>7, <2>1 DEF Number
  <2>3. Iterate(list, handlers, w, i) = next(b)
    <3> HIDE DEF e
    <3> QED BY <1>1, <1>2, <1>4, <1>7, <2>1, <2>2 DEF Iterate
  <2> QED BY <2>3 DEF Served
<1>8. CASE o = <<"error", 0>> /\ Len(e) = 4 /\ e[1] = "error"
  <2>1. list[a] = "error"
    <3>1. 1 \in 1..Len(e) /\ a + 1 - 1 = a
      BY <1>4, <1>8
    <3> HIDE DEF e
    <3> QED BY <1>3, <1>8, <3>1
  <2>2. Iterate(list, handlers, w, i) = next(b)
    <3> HIDE DEF e
    <3> QED BY <1>1, <1>2, <1>4, <1>8, <2>1 DEF Iterate
  <2> QED BY <2>2 DEF Served
<1>9. CASE \E n \in Nat : /\ o = <<"rows", n>> /\ Len(e) = 3 * n + 2 /\ e[1] = "okrows"
                          /\ e[3 * n + 2] = "endrows"
                          /\ \A k \in 1..n : e[3 * (k - 1) + 2] = "1"
  <2>0. PICK n \in Nat : /\ o = <<"rows", n>> /\ Len(e) = 3 * n + 2 /\ e[1] = "okrows"
                         /\ e[3 * n + 2] = "endrows"
                         /\ \A k \in 1..n : e[3 * (k - 1) + 2] = "1"
    BY <1>9
  <2> HIDE DEF e
  <2>1. list[a] = "okrows"
    <3>1. 1 \in 1..Len(e) /\ a + 1 - 1 = a
      BY <1>4, <2>0
    <3> QED BY <1>3, <2>0, <3>1
  <2>2. list[a + 1 + 3 * n] = "endrows" /\ a + 1 + 3 * n <= Len(list)
    <3>1. 3 * n + 2 \in 1..Len(e) /\ a + (3 * n + 2) - 1 = a + 1 + 3 * n
      BY <1>4, <2>0
    <3> QED BY <1>2, <1>3, <1>4, <2>0, <3>1
  <2>3. \A k \in 1..n : list[a + 1 + 3 * (k - 1)] = "1"
    <3> TAKE k \in 1..n
    <3>1. 3 * (k - 1) + 2 \in 1..Len(e) /\ a + (3 * (k - 1) + 2) - 1 = a + 1 + 3 * (k - 1)
      BY <1>4, <2>0
    <3>2. list[a + (3 * (k - 1) + 2) - 1] = e[3 * (k - 1) + 2]
      BY <1>3, <3>1
    <3> QED BY <2>0, <3>1, <3>2
  <2>4. ReadRows(list, a + 1) = [at |-> a + 1 + 3 * n, n |-> n]
    <3>1. a + 1 \in Nat \ {0}
      BY <1>4
    <3> QED BY <1>0, <2>2, <2>3, <3>1, RowsAreRead
  <2> DEFINE r == ReadRows(list, a + 1)
  <2>5. r.at = a + 1 + 3 * n /\ r.n = n
    BY <2>4
  <2>6. ~(r.at > Len(list)) /\ r.at + 1 = b /\ o = <<"rows", r.n>>
    <3> HIDE DEF r
    <3> QED BY <1>2, <1>4, <2>0, <2>2, <2>5
  <2>7. Iterate(list, handlers, w, i) = next(b)
    <3> DEFINE op == Iterate(list, handlers, w, i)
    <3>1. op = [ri |-> r.at + 1, calls |-> Append(calls, <<i, <<"rows", r.n>>>>),
                end |-> "returns"]
      <4>1. ~(ReadRows(list, w.ri + 1).at > Len(list))
        BY <1>1, <2>6
      <4> QED BY <1>1, <1>2, <2>1, <4>1 DEF Iterate
    <3>2. op = next(b)
      <4> HIDE DEF op, r
      <4> QED BY <2>6, <3>1
    <3> QED BY <3>2
  <2> QED BY <2>7 DEF Served
<1>10. \/ o = <<"changes", 0>> /\ Len(e) = 1 /\ e[1] = "ok"
       \/ /\ Len(e) = 3 /\ e[1] = "ch2"
          /\ \/ o = <<"changes", 0>> /\ e[2] = "0"
             \/ o = <<"changes", 1>> /\ e[2] = "1"
       \/ o = <<"error", 0>> /\ Len(e) = 4 /\ e[1] = "error"
       \/ \E n \in Nat : /\ o = <<"rows", n>> /\ Len(e) = 3 * n + 2 /\ e[1] = "okrows"
                         /\ e[3 * n + 2] = "endrows"
                         /\ \A k \in 1..n : e[3 * (k - 1) + 2] = "1"
  <2> QED BY <1>0, EncodeFacts
<1> QED BY <1>6, <1>7, <1>8, <1>9, <1>10

\* mycb on a list that is made of the results of so many statements, one behind
\* the other.
LEMMA LaidWalk ==
  ASSUME NEW platform, NEW outcomes \in Seq(Endings), NEW list \in Seq(Words),
         Laid(list, [i \in 1..Len(outcomes) |-> Encode(outcomes[i], platform)])
  PROVE  Walk(list, Len(outcomes)) =
           [calls |-> [i \in 1..Len(outcomes) |-> <<i, outcomes[i]>>], end |-> "returns"]
<1> DEFINE n == Len(outcomes)
           piece(i) == Encode(outcomes[i], platform)
           pieces == [i \in 1..n |-> piece(i)]
           m == Len(list)
           all == [i \in 1..n |-> <<i, outcomes[i]>>]
           next(w, i) == IF w.end # "returns" \/ w.ri > m THEN w ELSE Iterate(list, n, w, i)
           base == [ri |-> 1, calls |-> << >>, end |-> "returns"]
           Walks(f) == f = [i \in 0..m |-> IF i = 0 THEN base ELSE next(f[i - 1], i)]
           F == CHOOSE f : Walks(f)
<1>1. n \in Nat /\ \A i \in 1..n : outcomes[i] \in Endings
  OBVIOUS
<1>2. ASSUME NEW i \in 1..n PROVE piece(i) \in Seq(Words) /\ Len(piece(i)) \in Nat \ {0}
  <2> DEFINE o == outcomes[i]
  <2>1. o \in Endings
    BY <1>1
  <2> HIDE DEF o
  <2>2. Encode(o, platform) \in Seq(Words) /\ Len(Encode(o, platform)) \in Nat \ {0}
    BY <2>1, EncodeFacts
  <2> QED BY <2>2 DEF o
<1>3. pieces \in Seq(Seq(Words)) /\ Len(pieces) = n /\ \A i \in 1..n : pieces[i] = piece(i)
  <2> HIDE DEF piece, n
  <2> QED BY <1>1, <1>2
<1>4. list \in Seq(Words) /\ Laid(list, pieces)
  OBVIOUS
<1>5. Walk(list, n) = [calls |-> F[m].calls, end |-> F[m].end]
  BY DEF Walk
<1> HIDE DEF pieces, m, F
<1>6. PICK at : LaidAt(list, pieces, at)
  BY <1>4 DEF Laid
<1>7. m \in Nat
  BY <1>4 DEF m
<1>8. \A i \in 0..n : at[i] \in Nat \ {0} /\ at[i] <= m + 1
  <2>1. \A i \in 0..n : at[i] <= Len(list) + 1
    <3> HIDE DEF n
    <3> QED BY <1>3, <1>4, <1>6, LaidInside
  <2> HIDE DEF n
  <2> QED BY <1>3, <1>6, <2>1 DEF LaidAt, m
<1>9. at[0] = 1 /\ at[n] = m + 1
  BY <1>3, <1>6 DEF LaidAt, m
<1>10. ASSUME NEW i \in 1..n
       PROVE  /\ at[i] = at[i - 1] + Len(piece(i))
              /\ \A j \in 1..Len(piece(i)) : list[at[i - 1] + j - 1] = piece(i)[j]
  <2> HIDE DEF piece, n
  <2> QED BY <1>3, <1>6 DEF LaidAt
<1> HIDE DEF n
<1>11. \A i \in 0..n : i < at[i]
  <2> DEFINE S == {i \in 0..n : i < at[i]}
  <2>1. 0 \in S
    BY <1>1, <1>9
  <2>2. ASSUME NEW i \in 1..n, i - 1 \in S PROVE i \in S
    <3>1. Len(piece(i)) \in Nat \ {0} /\ at[i] = at[i - 1] + Len(piece(i))
      BY <1>2, <1>10
    <3>2. i - 1 \in 0..n /\ i \in 0..n /\ at[i - 1] \in Nat /\ i - 1 < at[i - 1] /\ i \in Nat
      BY <1>1, <1>8, <2>2
    <3> HIDE DEF piece
    <3> QED BY <3>1, <3>2
  <2>3. 0..n \subseteq S
    <3> HIDE DEF S
    <3> QED BY <1>1, <2>1, <2>2, UpTo
  <2> QED BY <2>3
<1>12. n <= m
  <2>1. n \in 0..n
    BY <1>1
  <2>2. n < m + 1
    BY <1>9, <1>11, <2>1
  <2> QED BY <1>1, <1>7, <2>2
\* Where mycb is after i iterations.
<1> DEFINE some(i) == IF i <= n THEN i ELSE n
           after(i) == [ri |-> at[some(i)], calls |-> SubSeq(all, 1, some(i)), end |-> "returns"]
<1>13. ASSUME NEW i \in 0..m PROVE some(i) \in 0..n
  BY <1>1, <1>7
<1>14. /\ all \in Seq(Nat \X Endings) /\ Len(all) = n
       /\ \A i \in 1..n : all[i] = <<i, outcomes[i]>>
  <2> DEFINE call(i) == <<i, outcomes[i]>>
  <2>1. \A i \in 1..n : call(i) \in Nat \X Endings
    BY <1>1
  <2> HIDE DEF call
  <2>2. [i \in 1..n |-> call(i)] \in Seq(Nat \X Endings)
        /\ Len([i \in 1..n |-> call(i)]) = n
        /\ \A i \in 1..n : [k \in 1..n |-> call(k)][i] = call(i)
    BY <1>1, <2>1
  <2> QED BY <2>2 DEF call
<1> HIDE DEF all
<1>15. after(0) = base
  <2>1. some(0) = 0
    BY <1>1
  <2>2. SubSeq(all, 1, 0) = << >>
    BY <1>14, SubSeqEmpty
  <2> HIDE DEF some
  <2> QED BY <1>9, <2>1, <2>2
<1>16. ASSUME NEW i \in 1..m PROVE next(after(i - 1), i) = after(i)
  <2>0. i \in Nat /\ i - 1 \in Nat
    BY <1>7
  <2>1. CASE i <= n
    <3>1. i \in 1..n /\ i - 1 \in 0..n /\ some(i) = i /\ some(i - 1) = i - 1
      BY <1>1, <2>0, <2>1
    <3> DEFINE a == at[i - 1]
               o == outcomes[i]
               calls == SubSeq(all, 1, i - 1)
    <3>2. after(i - 1) = [ri |-> a, calls |-> calls, end |-> "returns"]
      BY <3>1
    <3>3. SubSeq(all, 1, i) = Append(calls, <<i, o>>)
      <4>1. i \in 1..Len(all) /\ all[i] = <<i, o>>
        BY <1>14, <3>1
      <4>2. SubSeq(all, 1, i) = Append(SubSeq(all, 1, i - 1), all[i])
        BY <1>14, <4>1, PrefixAppend
      <4> QED BY <4>1, <4>2, Zenon
    <3>4. /\ at[i] = a + Len(Encode(o, platform)) /\ Len(Encode(o, platform)) \in Nat \ {0}
          /\ \A j \in 1..Len(Encode(o, platform)) : list[a + j - 1] = Encode(o, platform)[j]
          /\ o \in Endings
      BY <1>1, <1>2, <1>10, <3>1
    <3>5. a \in Nat \ {0} /\ at[i] \in Nat /\ at[i] <= m + 1
      <4>1. i \in 0..n
        BY <1>1, <3>1
      <4> QED BY <1>8, <3>1, <4>1
    <3>6. after(i) = [ri |-> at[i], calls |-> SubSeq(all, 1, i), end |-> "returns"]
      BY <3>1
    <3> HIDE DEF some, after, a, o, calls, next
    <3>7. Iterate(list, n, after(i - 1), i) =
            [ri |-> at[i], calls |-> Append(calls, <<i, o>>), end |-> "returns"]
      <4> DEFINE w == after(i - 1)
                 b == at[i]
      <4>1. ResultAt(list, a, o, platform, b)
        BY <1>4, <3>4, <3>5 DEF m, ResultAt
      <4>2. w.ri = a /\ w.calls = calls
        BY <3>2
      <4>3. n \in Nat /\ i \in 1..n
        BY <1>1, <3>1
      <4> HIDE DEF w, b
      <4>4. ResultAt(list, w.ri, o, platform, b)
        BY <4>1, <4>2
      <4>5. Served(list, n, w, i, o, b)
        BY <4>3, <4>4, OneResult
      <4>6. Iterate(list, n, w, i) =
              [ri |-> b, calls |-> Append(calls, <<i, o>>), end |-> "returns"]
        BY <4>2, <4>5 DEF Served
      <4> QED BY <4>6 DEF w, b
    <3>8. Iterate(list, n, after(i - 1), i) = after(i)
      BY <3>3, <3>6, <3>7
    <3>9. after(i - 1).end = "returns" /\ ~(after(i - 1).ri > m)
      <4>1. after(i - 1).end = "returns" /\ after(i - 1).ri = a
        BY <3>2
      <4>2. a <= m
        BY <1>7, <3>4, <3>5
      <4> QED BY <1>7, <3>5, <4>1, <4>2
    <3> QED BY <3>8, <3>9 DEF next
  <2>2. CASE ~(i <= n)
    <3>1. some(i) = n /\ some(i - 1) = n
      BY <1>1, <2>0, <2>2
    <3>2. after(i - 1) = [ri |-> at[n], calls |-> SubSeq(all, 1, n), end |-> "returns"]
          /\ after(i) = after(i - 1)
      <4> HIDE DEF some
      <4> QED BY <3>1
    <3>3. after(i - 1).ri = at[n]
      BY <3>2
    <3>4. after(i - 1).ri > m
      BY <1>7, <1>9, <3>3
    <3> HIDE DEF after
    <3> QED BY <3>2, <3>4
  <2> QED BY <2>1, <2>2
<1> HIDE DEF after, next, base
<1>17. Walks([i \in 0..m |-> after(i)])
  <2> DEFINE g == [i \in 0..m |-> after(i)]
  <2>1. ASSUME NEW i \in 0..m PROVE after(i) = IF i = 0 THEN base ELSE next(g[i - 1], i)
    <3>1. i = 0 \/ (i \in 1..m /\ i - 1 \in 0..m)
      BY <1>7
    <3> QED BY <1>15, <1>16, <3>1
  <2> QED BY <2>1
<1>18. Walks(F)
  <2> HIDE DEF Walks
  <2> QED BY <1>17 DEF F
<1>19. F[0] = base /\ \A i \in 1..m : F[i] = next(F[i - 1], i)
  <2>1. 0 \in 0..m /\ \A i \in 1..m : i \in 0..m /\ i # 0
    BY <1>7
  <2> QED BY <1>18, <2>1
<1> DEFINE S == {i \in 0..m : F[i] = after(i)}
<1>20. 0 \in S
  BY <1>7, <1>15, <1>19
<1>21. ASSUME NEW i \in 1..m, i - 1 \in S PROVE i \in S
  <2>1. i \in 0..m
    BY <1>7
  <2> QED BY <1>16, <1>19, <1>21, <2>1
<1>22. F[m] = after(m)
  <2>1. 0..m \subseteq S
    <3> HIDE DEF S
    <3> QED BY <1>7, <1>20, <1>21, UpTo
  <2>2. m \in 0..m
    BY <1>7
  <2> QED BY <2>1, <2>2
<1>23. after(m).calls = all /\ after(m).end = "returns"
  <2>1. some(m) = n
    BY <1>1, <1>7, <1>12
  <2>2. SubSeq(all, 1, n) = all
    <3>1. SubSeq(all, 1, Len(all)) = all
      BY <1>14, SubSeqFull
    <3> QED BY <1>14, <3>1
  <2> HIDE DEF some
  <2> QED BY <2>1, <2>2 DEF after
<1>24. Walk(list, n) = [calls |-> all, end |-> "returns"]
  BY <1>5, <1>22, <1>23
<1> QED BY <1>24 DEF all, n

\* For any number of statements, each with any number of rows, that end on
\* either platform without failing behind a row: mycb returns, and has called
\* every handler once, in order, with what became of its own statement.
THEOREM HandlersAreServed ==
  ASSUME NEW platform, NEW outcomes \in Seq(Endings)
  PROVE  Walk(FlattenSeq([i \in 1..Len(outcomes) |-> Encode(outcomes[i], platform)]),
              Len(outcomes)) =
           [calls |-> [i \in 1..Len(outcomes) |-> <<i, outcomes[i]>>], end |-> "returns"]
<1> DEFINE n == Len(outcomes)
           piece(i) == Encode(outcomes[i], platform)
           pieces == [i \in 1..n |-> piece(i)]
<1>1. n \in Nat /\ \A i \in 1..n : outcomes[i] \in Endings
  OBVIOUS
<1>2. ASSUME NEW i \in 1..n PROVE piece(i) \in Seq(Words)
  <2> DEFINE o == outcomes[i]
  <2>1. o \in Endings
    BY <1>1
  <2> HIDE DEF o
  <2>2. Encode(o, platform) \in Seq(Words)
    BY <2>1, EncodeFacts
  <2> QED BY <2>2 DEF o
<1>3. pieces \in Seq(Seq(Words))
  <2> HIDE DEF piece, n
  <2> QED BY <1>1, <1>2
<1>4. FlattenSeq(pieces) \in Seq(Words) /\ Laid(FlattenSeq(pieces), pieces)
  <2> HIDE DEF pieces
  <2> QED BY <1>3, FlattenLaid
<1> QED BY <1>4, LaidWalk

=============================================================================
