-------------------------------- MODULE Vdbe --------------------------------
(***************************************************************************)
(* The register machine of rust-port/src/vdbe/mod.rs and the compiler of   *)
(* rust-port/src/where_compiler/mod.rs that writes its programs, as        *)
(* operators.  A schema is a function from the names of the tables that    *)
(* exist to [columns, rows].  Columns, registers, cursor positions and     *)
(* addresses of a program count from 1 where the code counts from 0.       *)
(*                                                                         *)
(* Values are integers and Null; reals, texts and blobs are loaded, stored *)
(* and emitted the same way.  The compiler gives every program cursor 0    *)
(* and opens it first, so a machine has one cursor; it writes no Copy, If  *)
(* and IfNot, which are left out.                                          *)
(*                                                                         *)
(* A definition named X_Variant is X with a plausible mistake in it.  The  *)
(* specifications do not use it: it takes the place of X to show that a    *)
(* property does notice the mistake.                                       *)
(***************************************************************************)
EXTENDS Integers, Sequences

CONSTANTS
  Null,        \* Mem::Null and Value::Null
  Identifier   \* Value::Identifier: a bare name in the place of a literal

ASSUME MarkersAssumption == Null \notin Int /\ Identifier \notin Int \cup {Null}

Values == Int \cup {Null}

HasColumn(columns, name) == \E i \in DOMAIN columns : columns[i] = name

\* the first of the columns that has the name
Position(columns, name) ==
  CHOOSE i \in DOMAIN columns :
    columns[i] = name /\ \A j \in 1 .. i - 1 : columns[j] # name

-----------------------------------------------------------------------------
(* The compiler.  A statement is one of                                    *)
(*   [kind |-> "select", all, columns, from, where]                        *)
(*   [kind |-> "insert", table, values]                                    *)
(*   [kind |-> "create", table, columns]                                   *)
(*   [kind |-> "drop", table]                                              *)

\* the columns of the table that SELECT emits, by position
Emitted(stmt, columns) ==
  IF stmt.all THEN [i \in DOMAIN columns |-> i]
              ELSE [i \in DOMAIN stmt.columns |-> Position(columns, stmt.columns[i])]

SelectCompiles(stmt, schema) ==
  /\ stmt.from \in DOMAIN schema
  /\ \/ stmt.all
     \/ \A i \in DOMAIN stmt.columns :
          HasColumn(schema[stmt.from].columns, stmt.columns[i])

\* the loop over the cursor's rows; the WHERE clause plays no part in it
compile_select(stmt, schema) ==
  LET emit == Emitted(stmt, schema[stmt.from].columns)
      count == Len(emit)
  IN <<[op |-> "OpenRead", table |-> stmt.from]>>
     \o [i \in 1 .. count |-> [op |-> "Column", column |-> emit[i], dest |-> i]]
     \o <<[op |-> "ResultRow", count |-> count],
          [op |-> "Next", target |-> count + 5],
          [op |-> "Goto", target |-> 2],
          [op |-> "Halt"]>>

InsertCompiles(stmt, schema) ==
  /\ stmt.table \in DOMAIN schema
  /\ Len(stmt.values) = Len(schema[stmt.table].columns)
  /\ \A i \in DOMAIN stmt.values : stmt.values[i] # Identifier

compile_insert(stmt) ==
  LET count == Len(stmt.values)
  IN <<[op |-> "OpenWrite", table |-> stmt.table]>>
     \o [i \in 1 .. count |-> [op |-> "Load", value |-> stmt.values[i], dest |-> i]]
     \o <<[op |-> "Insert", count |-> count], [op |-> "Halt"]>>

compile_create(stmt) ==
  <<[op |-> "CreateTable", table |-> stmt.table, columns |-> stmt.columns],
    [op |-> "Halt"]>>

compile_drop(stmt) == <<[op |-> "DropTable", table |-> stmt.table], [op |-> "Halt"]>>

Compiles(stmt, schema) ==
  /\ stmt.kind = "select" => SelectCompiles(stmt, schema)
  /\ stmt.kind = "insert" => InsertCompiles(stmt, schema)

compile_stmt(stmt, schema) ==
  CASE stmt.kind = "select" -> compile_select(stmt, schema)
    [] stmt.kind = "insert" -> compile_insert(stmt)
    [] stmt.kind = "create" -> compile_create(stmt)
    [] stmt.kind = "drop"   -> compile_drop(stmt)

-----------------------------------------------------------------------------
(* The machine: program counter, registers, the cursor (table, and row or  *)
(* 0 before it is opened), the rows emitted, the schema it works on.       *)

Registers(prog) ==
  {prog[i].dest : i \in {j \in DOMAIN prog : prog[j].op \in {"Column", "Load"}}}

Started(prog, schema) ==
  [pc |-> 1, regs |-> [r \in Registers(prog) |-> Null], table |-> Null, pos |-> 0,
   rows |-> <<>>, schema |-> schema, status |-> "running"]

CursorRows(m) == m.schema[m.table].rows

DoOpen(m, op) ==
  IF op.table \in DOMAIN m.schema
  THEN [m EXCEPT !.table = op.table, !.pos = 1, !.pc = @ + 1]
  ELSE [m EXCEPT !.status = "error"]

\* past the last row, and past the end of a short row, a column is NULL
DoColumn(m, op) ==
  LET inRow == m.pos <= Len(CursorRows(m)) /\ op.column <= Len(CursorRows(m)[m.pos])
  IN [m EXCEPT !.regs[op.dest] = IF inRow THEN CursorRows(m)[m.pos][op.column] ELSE Null,
               !.pc = @ + 1]

RowOf(m, count) == [i \in 1 .. count |-> m.regs[i]]

DoResultRow(m, op) ==
  [m EXCEPT !.rows = Append(@, RowOf(m, op.count)), !.pc = @ + 1]

\* looks at the row before the one it moves to
DoNext_Late(m, op) ==
  [m EXCEPT !.pos = @ + 1,
            !.pc = IF m.pos > Len(CursorRows(m)) THEN op.target ELSE @ + 1]

DoNext(m, op) ==
  [m EXCEPT !.pos = @ + 1,
            !.pc = IF m.pos + 1 > Len(CursorRows(m)) THEN op.target ELSE @ + 1]

DoGoto(m, op) == [m EXCEPT !.pc = op.target]

\* forgets to advance
DoLoad_Stays(m, op) == [m EXCEPT !.regs[op.dest] = op.value]

DoLoad(m, op) == [m EXCEPT !.regs[op.dest] = op.value, !.pc = @ + 1]

DoInsert(m, op) ==
  [m EXCEPT !.schema[m.table].rows = Append(@, RowOf(m, op.count)), !.pc = @ + 1]

DoCreateTable(m, op) ==
  [m EXCEPT !.schema = [t \in DOMAIN @ \cup {op.table} |->
                          IF t = op.table THEN [columns |-> op.columns, rows |-> <<>>]
                                          ELSE @[t]],
            !.pc = @ + 1]

DoDropTable(m, op) ==
  [m EXCEPT !.schema = [t \in DOMAIN @ \ {op.table} |-> @[t]], !.pc = @ + 1]

DoHalt(m) == [m EXCEPT !.status = "done"]

\* one turn of the loop; running off the end of the program is a halt
Turn(prog, m) ==
  IF m.pc \notin DOMAIN prog THEN DoHalt(m) ELSE
  LET op == prog[m.pc]
  IN CASE op.op \in {"OpenRead", "OpenWrite"} -> DoOpen(m, op)
       [] op.op = "Column"      -> DoColumn(m, op)
       [] op.op = "ResultRow"   -> DoResultRow(m, op)
       [] op.op = "Next"        -> DoNext(m, op)
       [] op.op = "Goto"        -> DoGoto(m, op)
       [] op.op = "Load"        -> DoLoad(m, op)
       [] op.op = "Insert"      -> DoInsert(m, op)
       [] op.op = "CreateTable" -> DoCreateTable(m, op)
       [] op.op = "DropTable"   -> DoDropTable(m, op)
       [] op.op = "Halt"        -> DoHalt(m)

\* the machine as exec leaves it, or still running after fuel turns
exec(prog, schema, fuel) ==
  LET after[n \in 0 .. fuel] ==
        IF n = 0 THEN Started(prog, schema)
        ELSE LET m == after[n - 1]
             IN IF m.status = "running" THEN Turn(prog, m) ELSE m
  IN after[fuel]
=============================================================================
