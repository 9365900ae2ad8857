-------------------------------- MODULE Query --------------------------------
(***************************************************************************)
(* One statement run to its end, as sqlite3_step and sqlite3_exec of       *)
(* rust-port/src/api.rs run it while they hold the schema's mutex: compile *)
(* and validate, one turn of the machine after the other, filter the rows. *)
(***************************************************************************)
EXTENDS Engine

CONSTANTS
  Statements,  \* the statements that may be run
  Schemas      \* the schemas that they may meet

ASSUME QueryAssumption ==
  /\ \A s \in Schemas : IsSchema(s) /\ Rectangular(s)
  /\ \A s \in Statements : IsStatement(s)

VARIABLES
  stmt, before,  \* the statement, and the schema it is given
  phase,         \* "given", "running", then "done" or "failed"
  program, m,    \* the program and its machine
  out            \* the rows for the caller

vars == <<stmt, before, phase, program, m, out>>

Init ==
  /\ stmt \in Statements
  /\ before \in Schemas
  /\ phase = "given"
  /\ program = <<>>
  /\ m = Started(<<>>, before)
  /\ out = <<>>

Reject ==
  /\ phase = "given"
  /\ ~Valid(stmt, before)
  /\ phase' = "failed"
  /\ UNCHANGED <<stmt, before, program, m, out>>

Compile ==
  /\ phase = "given"
  /\ Valid(stmt, before)
  /\ phase' = "running"
  /\ program' = Program(stmt, before)
  /\ m' = Started(program', before)
  /\ UNCHANGED <<stmt, before, out>>

Execute ==
  /\ phase = "running"
  /\ m.status = "running"
  /\ m' = Turn(program, m)
  /\ UNCHANGED <<stmt, before, phase, program, out>>

Answer ==
  /\ phase = "running"
  /\ m.status = "done"
  /\ phase' = "done"
  /\ out' = IF IsSelect(stmt) THEN ResultRows(stmt, before, m.rows) ELSE <<>>
  /\ UNCHANGED <<stmt, before, program, m>>

Next == Reject \/ Compile \/ Execute \/ Answer

\* one thread that does nothing else between the first step and the last
Spec == Init /\ [][Next]_vars /\ WF_vars(Next)

-----------------------------------------------------------------------------
\* The types of the variables; the machine never reads outside its program,
\* its registers or the table, and never ends in an error of its own.
TypeOK ==
  /\ stmt \in Statements /\ before \in Schemas
  /\ phase \in {"given", "running", "done", "failed"}
  /\ m.status \in {"running", "done"}
  /\ IsSchema(m.schema)
  /\ m.rows \in Seq(Seq(Values)) /\ out \in Seq(Seq(Values))
  /\ phase = "running" /\ m.status = "running" => m.pc \in DOMAIN program

\* The scan of a table that has rows (compile_select): at every turn the rows
\* emitted are the table's first rows, in order, none twice, cut to the
\* columns wanted; when the machine halts they are all its rows.
ScanFollowsTable ==
  IsSelect(stmt) /\ phase \in {"running", "done"} /\ before[stmt.from].rows # <<>> =>
    LET table == before[stmt.from]
    IN /\ Len(m.rows) <= Len(table.rows)
       /\ \A i \in DOMAIN m.rows :
            m.rows[i] = Projected(Fetching(stmt), table.columns, table.rows[i])
       /\ m.status = "done" => Len(m.rows) = Len(table.rows)

\* The caller of a SELECT gets the projection of exactly the rows whose WHERE
\* clause is true in SQL's logic of NULLs, in the table's order; a SELECT that
\* has no clause and meets an empty table is the exception.
SelectAnswers ==
  IsSelect(stmt) /\ phase = "done" /\ ~OverNothing(stmt, before) =>
    out = Denoted(stmt, before)

\* A statement does what it says to the tables it names and nothing to the
\* others; one that fails does nothing; all tables stay rectangular.
EffectIsExact ==
  /\ phase = "done" => Effect(stmt, before, m.schema)
  /\ phase = "failed" => m.schema = before
  /\ phase \in {"done", "failed"} => Rectangular(m.schema)

\* What a statement answers and what it changes, which sqlite3_step computes in
\* two places: the machine of exec, and the filter of run_select behind it.
StatementIsExact == TypeOK /\ SelectAnswers /\ EffectIsExact

\* Every statement ends: the jumps of the compiled loops leave them.
Terminates == <>(phase \in {"done", "failed"})
=============================================================================
