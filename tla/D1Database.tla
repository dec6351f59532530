------------------------------- MODULE D1Database -------------------------------
(***************************************************************************)
(* D1 databases: the splitting of SQL into statements                      *)
(* (packages/d1/src/splitter.ts), the API in front of SQLite               *)
(* (packages/d1/src/api.ts) and the binding a worker uses                  *)
(* (packages/d1/src/d1js.ts).                                              *)
(*                                                                         *)
(* SQL is a sequence of tokens: the characters that the splitter looks at, *)
(* the compound markers " BEGIN " and " END ", and words.  A statement is  *)
(* also a record of what SQLite makes of it: it inserts a row, selects all *)
(* rows, or fails, and it takes a number of parameters.                    *)
(***************************************************************************)
EXTENDS Integers, Sequences, FiniteSets, SequencesExt

CONSTANT None

Quotes == {"'", "\""}   \* and the backquote
Begin == " BEGIN "
End == " END "
Blank == {" ", "\n"}

------------------------------------------------------------------------------
\* splitSqlIntoStatements: what a token does to the statement under way (str),
\* the statements before it, the depth of compound statements, and the marker up
\* to which everything is taken over, or how a marker has begun.  A "$" takes
\* the word that follows and one more character: a second "$" makes it a quote,
\* anything else, a ";" too, becomes part of the statement.
Plain(acc, t) ==
  LET depth == IF t = End /\ acc.depth > 0 THEN acc.depth - 1 ELSE acc.depth
      str == Append(acc.str, t)
  IN  CASE t \in Quotes -> [acc EXCEPT !.str = str, !.until = <<t>>]
        [] t = "$" -> [acc EXCEPT !.str = str, !.mode = "dollar"]
        [] t = "-" -> [acc EXCEPT !.str = str, !.mode = "dash"]
        [] t = "/" -> [acc EXCEPT !.str = str, !.mode = "slash"]
        [] t = ";" /\ depth = 0 -> [acc EXCEPT !.statements = Append(@, acc.str), !.str = << >>]
        [] OTHER -> [acc EXCEPT !.str = str, !.depth = IF t = Begin THEN depth + 1 ELSE depth]

Enter(acc, t, until) == [acc EXCEPT !.str = Append(@, t), !.mode = "plain", !.until = until, !.taken = << >>]

Consume(acc, t) ==
  IF acc.until # None
  THEN LET taken == Append(acc.taken, t)
           ended == IsSuffix(acc.until, taken)
       IN  [acc EXCEPT !.str = Append(@, t), !.taken = IF ended THEN << >> ELSE taken,
                       !.until = IF ended THEN None ELSE @]
  ELSE CASE acc.mode = "dollar" ->
              IF t = "$" THEN Enter(acc, t, Append(<<"$">> \o acc.taken, "$"))
              ELSE IF t = "w" THEN [acc EXCEPT !.str = Append(@, t), !.taken = Append(@, t)]
              ELSE Enter(acc, t, None)
         [] acc.mode = "dash" /\ t = "-" -> Enter(acc, t, <<"\n">>)
         [] acc.mode = "slash" /\ t = "*" -> Enter(acc, t, <<"*", "/">>)
         [] OTHER -> Plain([acc EXCEPT !.mode = "plain"], t)

IsBlank(str) == \A i \in DOMAIN str : str[i] \in Blank
SplitSqlIntoStatements(sql) ==
  LET all == FoldLeft(Consume, [statements |-> << >>, str |-> << >>, depth |-> 0, until |-> None,
                                mode |-> "plain", taken |-> << >>], sql)
  IN  SelectSeq(Append(all.statements, all.str), LAMBDA str : ~IsBlank(str))

\* A ";" that is not the last thing in the SQL.
MayContainMultipleStatements(sql) ==
  LET I == {i \in DOMAIN sql : sql[i] = ";"}
  IN  I # {} /\ \E j \in DOMAIN sql : sql[j] \notin Blank /\ \E i \in I : i < j

SplitSqlQuery(sql) ==
  IF ~MayContainMultipleStatements(sql) \/ SplitSqlIntoStatements(sql) = << >> THEN <<sql>>
  ELSE SplitSqlIntoStatements(sql)

------------------------------------------------------------------------------
\* SQLite: the answer to the first statement of the SQL with its parameters.
Failed == [error |-> TRUE, results |-> << >>]
Bound(query) == query.first.params = Len(query.params)
Reads(query) == query.first.kind = "select"
Run(db, query) ==
  IF ~Bound(query) \/ query.first.kind = "fail" THEN [db |-> db, answer |-> Failed]
  ELSE IF Reads(query) THEN [db |-> db, answer |-> [error |-> FALSE, results |-> db, changes |-> 0]]
  ELSE [db |-> Append(db, query.first.row), answer |-> [error |-> FALSE, results |-> << >>, changes |-> 1]]

\* #query and #execute: the latter refuses what returns rows, before it runs.
Query(db, query) == Run(db, query)
Execute(db, query) == IF Reads(query) THEN [db |-> db, answer |-> Failed] ELSE Run(db, query)
Runner(db, path, query) == IF path = "/query" THEN Query(db, query) ELSE Execute(db, query)

\* #handleQueryExecute of an array: in a savepoint, up to the first failure,
\* after which the savepoint is rolled back.
Batch(db, path, queries) ==
  LET all == FoldLeft(LAMBDA acc, query :
                        IF acc.failed THEN acc
                        ELSE LET ran == Runner(acc.db, path, query)
                             IN  [db |-> ran.db, answers |-> Append(acc.answers, ran.answer), failed |-> ran.answer.error],
                      [db |-> db, answers |-> << >>, failed |-> FALSE], queries)
  IN  IF all.failed THEN [db |-> db, answer |-> Failed]
      ELSE [db |-> all.db, answer |-> [error |-> FALSE, results |-> all.answers]]

\* fetch(): every error of the three routes is an answer of status 200.
Fetch(db, method, path, body) ==
  LET ran == IF body.array THEN Batch(db, path, body.queries)
             ELSE LET one == Runner(db, path, body.queries[1])
                  IN  [db |-> one.db, answer |-> IF one.answer.error THEN Failed
                                                 ELSE [error |-> FALSE, results |-> <<one.answer>>]]
  IN  IF method # "POST" THEN [db |-> db, status |-> 405]
      ELSE IF path = "/dump" THEN [db |-> db, status |-> 200, answer |-> IF body.broken THEN Failed
                                                                         ELSE [error |-> FALSE, results |-> db]]
      ELSE IF path \in {"/query", "/execute"} THEN [db |-> ran.db, status |-> 200, answer |-> ran.answer]
      ELSE [db |-> db, status |-> 404]

------------------------------------------------------------------------------
\* D1Database._send: one result or, of an array, one each.  An error is thrown
\* or, for exec(), made into the only result.
Send(db, path, array, queries, throws) ==
  LET got == Fetch(db, "POST", path, [array |-> array, queries |-> queries])
  IN  [db |-> got.db,
       thrown |-> got.answer.error /\ throws,
       results |-> IF got.answer.error THEN <<Failed>> ELSE got.answer.results]

BatchOf(db, queries) == Send(db, "/query", TRUE, queries, TRUE)
RunOf(db, query) == Send(db, "/execute", FALSE, <<query>>, TRUE)
AllOf(db, query) == Send(db, "/query", FALSE, <<query>>, TRUE)

\* first(): the first row, null where there is none.
First(db, query) ==
  LET sent == AllOf(db, query)
  IN  IF sent.thrown THEN [thrown |-> TRUE]
      ELSE [thrown |-> FALSE, row |-> IF sent.results[1].results = << >> THEN None ELSE sent.results[1].results[1]]

\* exec(): a batch of lines; an error names the line of the first result that
\* is one.
Exec(db, lines) ==
  LET sent == Send(db, "/query", TRUE, lines, FALSE)
      errors == {i \in DOMAIN sent.results : sent.results[i].error}
  IN  [db |-> sent.db,
       count |-> IF errors = {} THEN Len(sent.results) ELSE None,
       line |-> IF errors = {} THEN None ELSE CHOOSE i \in errors : \A j \in errors : i <= j]

\* dump(): what an answer of status 200 holds, an error too.
Dump(db, broken) ==
  LET got == Fetch(db, "POST", "/dump", [broken |-> broken])
  IN  IF got.status # 200 THEN [thrown |-> TRUE] ELSE [thrown |-> FALSE, bytes |-> got.answer]

\* D1PreparedStatement.bind: null, numbers and strings, arrays of bytes, and
\* buffers, which become arrays.
BindParams(values) ==
  IF \A i \in DOMAIN values : values[i].type \in {"null", "number", "string", "bytes", "buffer"}
  THEN [thrown |-> FALSE,
        params |-> [i \in DOMAIN values |->
                      IF values[i].type = "buffer" THEN [values[i] EXCEPT !.type = "bytes"] ELSE values[i]]]
  ELSE [thrown |-> TRUE]
================================================================================
