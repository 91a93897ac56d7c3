----------------------------- MODULE FlatResults -----------------------------
(***************************************************************************)
(* The flat lists a batch and its results travel in.  run_batch of         *)
(* www/SQLitePlugin.js flattens the statements of a batch and, in a worker,*)
(* cuts the list into parts; the native side takes the list apart again,   *)
(* and lays the results of the statements end to end in one list, which    *)
(* mycb walks to find the handler of each result.                          *)
(*                                                                         *)
(* A token of a result list is a word.  A value that is compared with a    *)
(* keyword or used as a count is that word; any other is "v".              *)
(***************************************************************************)
EXTENDS Integers, Sequences, SequencesExt

-----------------------------------------------------------------------------
(* Requests: for each statement its SQL, the number of its parameters, and *)
(* the parameters.                                                         *)

FlatStatement(s, params) ==
  <<<<"sql", s>>, <<"count", params>>>> \o [i \in 1..params |-> <<"param", s>>]

\* run_batch: the statements of a batch, params[i] the parameters of the i-th.
FlatList(stmts, params) ==
  FlattenSeq([i \in DOMAIN stmts |-> FlatStatement(stmts[i], params[i])])

\* How many parts of at most size tokens a list is sent in.
PartCount(list, size) == (Len(list) + size - 1) \div size

\* Mutant of Part: the last token of a full part is left for no part.
PartShort(list, size, i) ==
  SubSeq(list, (i - 1) * size + 1,
         IF i * size < Len(list) THEN i * size - 1 ELSE Len(list))

\* The i-th of them.
Part(list, size, i) ==
  SubSeq(list, (i - 1) * size + 1, IF i * size < Len(list) THEN i * size ELSE Len(list))

\* A statement can be read at position ai.
Fits(list, ai) ==
  ai + 1 <= Len(list) /\ list[ai][1] = "sql" /\ list[ai + 1][1] = "count"

\* The native side: the statements of a list of flen statements.  at[i] is the
\* position behind the first i, advanced by the counts found in the list.  A list
\* that does not fit is << >>: an exception is thrown before anything is executed.
Statements(list, flen) ==
  LET at[i \in 0..flen] ==
        IF i = 0 THEN 1
        ELSE LET ai == at[i - 1] IN
             IF Fits(list, ai) THEN ai + 2 + list[ai + 1][2] ELSE Len(list) + 1
  IN IF \A i \in 1..flen : Fits(list, at[i - 1])
     THEN [i \in 1..flen |-> list[at[i - 1]][2]] ELSE << >>

-----------------------------------------------------------------------------
(* Results.  What became of a statement: it has ended without rows and     *)
(* with n changes, or with n rows, it has failed, or it has failed behind  *)
(* its n-th row ("late").                                                  *)

Row == <<"1", "v", "v">>
Rows(n) == FlattenSeq([i \in 1..n |-> Row])
Error == <<"error", "0", "1", "v">>

\* executeSqlStatement (Android) and executeSql (iOS).  On Android a step that
\* fails behind a row throws out of the function, which has written the rows;
\* on iOS the error is written behind them.  Neither writes endrows.
Encode(outcome, platform) ==
  CASE outcome = <<"changes", 0>> -> IF platform = "ios" THEN <<"ch2", "0", "v">> ELSE <<"ok">>
    [] outcome = <<"changes", 1>> -> <<"ch2", "1", "v">>
    [] outcome[1] = "rows"  -> <<"okrows">> \o Rows(outcome[2]) \o <<"endrows">>
    [] outcome[1] = "error" -> Error
    [] outcome[1] = "late"  -> <<"okrows">> \o Rows(outcome[2])
                                 \o IF platform = "ios" THEN Error ELSE << >>

\* The number a token is; j < c is false for a c that is not a number.
Number(token) == IF token = "1" THEN 1 ELSE 0

\* The loop of mycb that reads rows, from position ri: where it is, and the number
\* of rows, when it is at endrows or behind the end of the list.  There it finds
\* no endrows, and never ends.
ReadRows(list, ri) ==
  LET rows[k \in 0..Len(list)] ==
        IF k = 0 THEN [at |-> ri, n |-> 0]
        ELSE LET r == rows[k - 1] IN
             IF r.at > Len(list) \/ list[r.at] = "endrows" THEN r
             ELSE [at |-> r.at + 1 + 2 * Number(list[r.at]), n |-> r.n + 1]
  IN rows[Len(list)]

\* The i-th iteration of the loop of mycb, w being what the ones before have made.
Iterate(list, handlers, w, i) ==
  LET Call(told, next) ==
        IF i > handlers THEN [w EXCEPT !.end = "throws"]
        ELSE [ri |-> next, calls |-> Append(w.calls, <<i, told>>), end |-> "returns"]
      token == list[w.ri]
      rows  == ReadRows(list, w.ri + 1)
  IN CASE token = "ok"     -> Call(<<"changes", 0>>, w.ri + 1)
       [] token = "ch2"    -> Call(<<"changes", Number(list[w.ri + 1])>>, w.ri + 3)
       [] token = "error"  -> Call(<<"error", 0>>, w.ri + 4)
       [] token = "okrows" -> IF rows.at > Len(list) THEN [w EXCEPT !.end = "loops"]
                              ELSE Call(<<"rows", rows.n>>, rows.at + 1)
       [] OTHER            -> [w EXCEPT !.ri = @ + 1]

\* mycb: the calls it makes, each of a handler (its position in the batch) with
\* what it was told, and how it ends: it "returns", "throws" because there is
\* no handler at that position, or "loops" for ever.  (No platform here sends
\* the optional changes and insert_id of okrows.)
Walk(list, handlers) ==
  LET walk[i \in 0..Len(list)] ==
        IF i = 0 THEN [ri |-> 1, calls |-> << >>, end |-> "returns"]
        ELSE LET w == walk[i - 1] IN
             IF w.end # "returns" \/ w.ri > Len(list) THEN w
             ELSE Iterate(list, handlers, w, i)
      last == walk[Len(list)]
  IN [calls |-> last.calls, end |-> last.end]

=============================================================================
