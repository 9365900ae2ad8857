------------------------------- MODULE Engine -------------------------------
(***************************************************************************)
(* What one statement does to a schema: run_select of rust-port/src/       *)
(* where_compiler/mod.rs with the WHERE evaluation of expr/mod.rs, and     *)
(* the dispatch between it and the register machine that sqlite3_step and  *)
(* sqlite3_exec share.                                                     *)
(*                                                                         *)
(* The parser builds a WHERE clause from left to right as an OR of ANDs of *)
(* comparisons, so a clause is a sequence of sequences of [op, column,     *)
(* value], and the empty sequence when the statement has none.  Literals   *)
(* are integers, Null, or a bare Identifier.                               *)
(***************************************************************************)
EXTENDS Vdbe, FiniteSets

CONSTANT Names  \* of tables and columns

\* what the parser makes of a statement
Comparisons == [op : {"=", "<>", "<", "<=", ">", ">="}, column : Names,
                value : Values \cup {Identifier}]

IsStatement(s) ==
  /\ s.kind \in {"select", "insert", "create", "drop"}
  /\ s.kind = "select" => /\ DOMAIN s = {"kind", "all", "columns", "from", "where"}
                          /\ s.all \in BOOLEAN
                          /\ s.columns \in Seq(Names)
                          /\ s.where \in Seq(Seq(Comparisons) \ {<<>>})
  /\ s.kind = "insert" => s.values \in Seq(Values \cup {Identifier})
  /\ s.kind = "create" => s.columns \in Seq(Names)

IsSchema(s) ==
  \A t \in DOMAIN s : /\ DOMAIN s[t] = {"columns", "rows"}
                      /\ s[t].columns \in Seq(Names)
                      /\ s[t].rows \in Seq(Seq(Values))

\* SqliteValue::Integer(1) and (0) for the outcome of a comparison
Bit(b) == IF b THEN 1 ELSE 0

Holds(op, l, r) ==
  CASE op = "=" -> l = r
    [] op = "<>" -> l # r
    [] op = "<" -> l < r
    [] op = "<=" -> l <= r
    [] op = ">" -> l > r
    [] op = ">=" -> l >= r

eval_cmp(op, l, r) == IF Null \in {l, r} THEN Null ELSE Bit(Holds(op, l, r))

eval_and(l, r) ==
  CASE Null \notin {l, r} -> Bit(l # 0 /\ r # 0)
    [] Null \in {l, r} /\ 0 \in {l, r} -> 0
    [] OTHER -> Null

\* NULL OR anything is NULL
eval_or_Strict(l, r) == IF Null \in {l, r} THEN Null ELSE Bit(l # 0 \/ r # 0)

eval_or(l, r) ==
  CASE Null \notin {l, r} -> Bit(l # 0 \/ r # 0)
    [] Null \in {l, r} /\ {l, r} \subseteq {0, Null} -> Null
    [] OTHER -> 1

eval_binary(op, l, r) == IF op = "AND" THEN eval_and(l, r) ELSE eval_or(l, r)

\* a chain of one operator, which associates to the left
Chain(op, value) ==
  LET upto[i \in DOMAIN value] ==
        IF i = 1 THEN value[1] ELSE eval_binary(op, upto[i - 1], value[i])
  IN upto[Len(value)]

\* EvalEnv::lookup in a row of the whole table
lookup(columns, row, name) ==
  IF HasColumn(columns, name) THEN row[Position(columns, name)] ELSE Null

EvalCmp(cmp, columns, row) == eval_cmp(cmp.op, lookup(columns, row, cmp.column), cmp.value)

EvalAnds(cmps, columns, row) ==
  Chain("AND", [i \in DOMAIN cmps |-> EvalCmp(cmps[i], columns, row)])

eval(where, columns, row) ==
  Chain("OR", [i \in DOMAIN where |-> EvalAnds(where[i], columns, row)])

validate_where_tree(where, columns) ==
  \A i \in DOMAIN where : \A j \in DOMAIN where[i] :
    HasColumn(columns, where[i][j].column) /\ where[i][j].value # Identifier

-----------------------------------------------------------------------------
IsSelect(stmt) == stmt.kind = "select"

Filtered(stmt) == IsSelect(stmt) /\ stmt.where # <<>>

\* otherwise it ends with an error, before it has changed anything
Valid(stmt, schema) ==
  /\ Compiles(stmt, schema)
  /\ Filtered(stmt) => validate_where_tree(stmt.where, schema[stmt.from].columns)

\* under a WHERE clause the machine fetches whole rows, to be filtered after
Fetching(stmt) ==
  IF Filtered(stmt) THEN [stmt EXCEPT !.all = TRUE, !.columns = <<>>, !.where = <<>>]
                    ELSE stmt

Program(stmt, schema) == compile_stmt(Fetching(stmt), schema)

Projected(stmt, columns, row) ==
  [i \in DOMAIN Emitted(stmt, columns) |-> row[Emitted(stmt, columns)[i]]]

\* the loop of run_select over the raw rows
Kept(stmt, columns, raw) ==
  LET out[i \in 0 .. Len(raw)] ==
        IF i = 0 THEN <<>>
        ELSE IF eval(stmt.where, columns, raw[i]) = 1
             THEN Append(out[i - 1], Projected(stmt, columns, raw[i]))
             ELSE out[i - 1]
  IN out[Len(raw)]

ResultRows(stmt, schema, raw) ==
  IF Filtered(stmt) THEN Kept(stmt, schema[stmt.from].columns, raw) ELSE raw

\* a program takes no more turns: a pass for each row of its table and one more
Turns(stmt, schema) ==
  Len(Program(stmt, schema))
    * (IF IsSelect(stmt) THEN Len(schema[stmt.from].rows) + 1 ELSE 1)

\* what a valid statement leaves: the schema, and the rows it returns
Run(stmt, schema) ==
  LET m == exec(Program(stmt, schema), schema, Turns(stmt, schema))
  IN [schema |-> m.schema,
      rows |-> IF IsSelect(stmt) THEN ResultRows(stmt, schema, m.rows) ELSE <<>>]

-----------------------------------------------------------------------------
(* The meaning of a statement, written without a machine.                  *)

\* a row satisfies a clause iff all comparisons of one of its ANDs are true
Satisfies(where, columns, row) ==
  \E i \in DOMAIN where : \A j \in DOMAIN where[i] :
    LET cmp == where[i][j]
        v == row[Position(columns, cmp.column)]
    IN v # Null /\ cmp.value # Null /\ Holds(cmp.op, v, cmp.value)

\* the places of the rows that a SELECT is about
Matching(stmt, schema) ==
  {i \in DOMAIN schema[stmt.from].rows :
     stmt.where = <<>>
       \/ Satisfies(stmt.where, schema[stmt.from].columns, schema[stmt.from].rows[i])}

\* the place in a set of numbers that has k - 1 before it
Nth(S, k) == CHOOSE i \in S : Cardinality({j \in S : j <= i}) = k

\* the rows at those places, in the table's order
Denoted(stmt, schema) ==
  LET table == schema[stmt.from]
      S == Matching(stmt, schema)
  IN [k \in 1 .. Cardinality(S) |-> Projected(stmt, table.columns, table.rows[Nth(S, k)])]

\* a SELECT without a WHERE clause over a table without rows
OverNothing(stmt, schema) == stmt.where = <<>> /\ schema[stmt.from].rows = <<>>

\* every row of every table has a value for each of its columns
Rectangular(schema) ==
  \A t \in DOMAIN schema : \A i \in DOMAIN schema[t].rows :
    Len(schema[t].rows[i]) = Len(schema[t].columns)

\* the schemas that may follow when the statement succeeds
Effect(stmt, old, new) ==
  CASE IsSelect(stmt) -> new = old
    [] stmt.kind = "insert" ->
         /\ DOMAIN new = DOMAIN old
         /\ new = [old EXCEPT ![stmt.table].rows = Append(@, stmt.values)]
    [] stmt.kind = "create" ->
         /\ DOMAIN new = DOMAIN old \cup {stmt.table}
         /\ new[stmt.table] = [columns |-> stmt.columns, rows |-> <<>>]
         /\ \A t \in DOMAIN old \ {stmt.table} : new[t] = old[t]
    [] stmt.kind = "drop" ->
         /\ DOMAIN new = DOMAIN old \ {stmt.table}
         /\ \A t \in DOMAIN new : new[t] = old[t]
=============================================================================
