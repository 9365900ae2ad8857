----------------------------- MODULE QueryProofs -----------------------------
(***************************************************************************)
(* One statement, turn by turn: the scan that compile_select writes emits  *)
(* the table's rows in order, and what a statement answers and changes is  *)
(* what it denotes, for all statements and schemas.                        *)
(***************************************************************************)
EXTENDS Query, EngineProofs

(* The machine follows the course that EngineProofs gives it, from the      *)
(* moment the statement is compiled.                                        *)
QueryInv ==
  /\ stmt \in Statements /\ before \in Schemas
  /\ phase \in {"given", "running", "done", "failed"}
  /\ phase \in {"given", "failed"} =>
       m.schema = before /\ m.status = "running" /\ m.rows = <<>>
  /\ phase \in {"running", "done"} =>
       Valid(stmt, before) /\ program = Program(stmt, before) /\ State(stmt, before, m)
  /\ phase # "done" => out = <<>>
  /\ phase = "done" =>
       /\ m.status = "done"
       /\ out = IF IsSelect(stmt) THEN ResultRows(stmt, before, m.rows) ELSE <<>>

LEMMA Given ==
  ASSUME stmt \in Statements, before \in Schemas
  PROVE  /\ IsStatement(stmt) /\ IsSchema(before) /\ Rectangular(before)
         /\ Valid(stmt, before) => Sound(stmt, before)
BY QueryAssumption DEF Sound

LEMMA InitQuery == Init => QueryInv
BY DEF Init, QueryInv, Started

LEMMA NextQuery == QueryInv /\ [Next]_vars => QueryInv'
<1> SUFFICES ASSUME QueryInv, [Next]_vars
             PROVE  QueryInv'
  OBVIOUS
<1>1. CASE Reject
  BY <1>1 DEF QueryInv, Reject
<1>2. CASE Compile
  <2>1. Sound(stmt, before)
    BY <1>2, Given DEF QueryInv, Compile
  <2>2. State(stmt, before, Started(Program(stmt, before), before))
    BY <2>1, Starts
  <2> QED
    BY <1>2, <2>2 DEF QueryInv, Compile
<1>3. CASE Execute
  <2>1. Sound(stmt, before) /\ State(stmt, before, m) /\ program = Program(stmt, before)
    BY <1>3, Given DEF QueryInv, Execute
  <2>2. State(stmt, before, Turn(program, m))
    BY <1>3, <2>1, MachineStep DEF Execute
  <2> QED
    BY <1>3, <2>2 DEF QueryInv, Execute
<1>4. CASE Answer
  BY <1>4 DEF QueryInv, Answer
<1>5. CASE UNCHANGED vars
  BY <1>5 DEF QueryInv, vars
<1> QED
  BY <1>1, <1>2, <1>3, <1>4, <1>5 DEF Next

LEMMA QueryHolds == Spec => []QueryInv
BY InitQuery, NextQuery, PTL DEF Spec

-----------------------------------------------------------------------------
(* For all schemas and statements: at every turn of a scan over a table     *)
(* with rows, the rows emitted are the table's first ones (vdbe/mod.rs and  *)
(* compile_select).                                                         *)
THEOREM ScanIsFaithful == Spec => []ScanFollowsTable
<1>1. QueryInv => ScanFollowsTable
  <2> SUFFICES ASSUME QueryInv, IsSelect(stmt), phase \in {"running", "done"},
                      before[stmt.from].rows # <<>>
               PROVE  LET table == before[stmt.from]
                      IN /\ Len(m.rows) <= Len(table.rows)
                         /\ \A i \in DOMAIN m.rows :
                              m.rows[i]
                                = Projected(Fetching(stmt), table.columns, table.rows[i])
                         /\ m.status = "done" => Len(m.rows) = Len(table.rows)
    BY DEF ScanFollowsTable
  <2> DEFINE rows == before[stmt.from].rows
             columns == before[stmt.from].columns
             C == Wanted(stmt, before)
             K == Len(C)
             N == Len(rows)
  <2>1. Sound(stmt, before) /\ State(stmt, before, m)
    BY Given DEF QueryInv
  <2>2. ScanContext(stmt.from, C, before)
    BY <2>1, SelectContext
  <2>3. ScanState(m, stmt.from, C, before)
    BY <2>1 DEF State, IsSelect
  <2>4. K \in Nat /\ N \in Nat /\ Lines(rows) = N
    BY <2>2, ContextFacts DEF ScanContext, Lines
  <2>5. /\ m.rows \in Seq(Seq(Values)) /\ ScanPlace(m, rows, C) /\ m.pc \in 1 .. K + 5
        /\ \A i \in 1 .. Len(m.rows) : m.rows[i] = Line(rows, C, i)
    BY <2>3 DEF ScanState, Emitting
  <2>6. Len(m.rows) \in Nat /\ DOMAIN m.rows = 1 .. Len(m.rows)
    BY <2>5, LenProperties
  <2>7. C = Emitted(Fetching(stmt), columns) /\ DOMAIN C = 1 .. K
    <3> DEFINE E == Emitted(stmt, columns)
               W == Len(columns)
    <3>1. C = Emitted(Fetching(stmt), columns)
      BY DEF Wanted
    <3>2. /\ DOMAIN E = 1 .. Len(E) /\ Len(E) \in Nat /\ W \in Nat
          /\ C = IF stmt.where = <<>> THEN E ELSE [i \in 1 .. W |-> i]
      BY <2>1, SelectFacts
    <3> HIDE DEF C, E, W
    <3>3. DOMAIN C = 1 .. K
      BY <3>2
    <3> QED
      BY <3>1, <3>3
  <2> HIDE DEF C, rows, columns
  <2>8. Len(m.rows) <= N /\ (m.status = "done" => Len(m.rows) = N)
    <3>1. /\ m.pc = 1 => Len(m.rows) = 0
          /\ m.pc \in 2 .. K + 2 => m.pos \in 1 .. N /\ Len(m.rows) = m.pos - 1
          /\ m.pc = K + 3 => m.pos \in 1 .. N /\ Len(m.rows) = m.pos
          /\ m.pc = K + 4 => m.pos \in 2 .. N /\ Len(m.rows) = m.pos - 1
          /\ m.pc = K + 5 => Len(m.rows) = N
          /\ m.status = "done" => m.pc = K + 5
      BY <2>4, <2>5, EmptySeq DEF ScanPlace
    <3>2. m.pc = 1 \/ m.pc \in 2 .. K + 2 \/ m.pc = K + 3 \/ m.pc = K + 4 \/ m.pc = K + 5
      BY <2>4, <2>5, SMTT(30)
    <3> QED
      BY <2>4, <2>6, <3>1, <3>2
  <2>9. ASSUME NEW i \in DOMAIN m.rows
        PROVE  m.rows[i] = Projected(Fetching(stmt), columns, rows[i])
    <3>1. i \in 1 .. Len(m.rows) /\ i <= Len(rows)
      BY <2>4, <2>6, <2>8
    <3>2. m.rows[i] = [j \in 1 .. K |-> rows[i][C[j]]]
      BY <2>5, <3>1 DEF Line, Cell
    <3>3. Projected(Fetching(stmt), columns, rows[i]) = [j \in 1 .. K |-> rows[i][C[j]]]
      BY <2>7 DEF Projected
    <3> QED
      BY <3>2, <3>3
  <2> QED
    BY <2>8, <2>9 DEF rows, columns
<1> QED
  BY <1>1, QueryHolds, PTL

(* For all schemas and statements: the machine never leaves its program or  *)
(* ends in an error, a SELECT answers exactly the rows whose clause is      *)
(* true, and a statement changes what it says and no more (run_select of    *)
(* where_compiler/mod.rs, exec of vdbe/mod.rs, eval of expr/mod.rs).        *)
THEOREM AnswerIsExact == Spec => []StatementIsExact
<1>1. QueryInv => StatementIsExact
  <2> SUFFICES ASSUME QueryInv
               PROVE  StatementIsExact
    OBVIOUS
  <2>1. IsSchema(before) /\ Rectangular(before)
    BY Given DEF QueryInv
  <2>2. CASE phase \in {"given", "failed"}
    <3>1. m.schema = before /\ m.status = "running" /\ m.rows = <<>> /\ out = <<>>
      BY <2>2 DEF QueryInv
    <3>2. m.rows \in Seq(Seq(Values)) /\ out \in Seq(Seq(Values))
      BY <3>1
    <3>3. IsSchema(m.schema) /\ Rectangular(m.schema)
      BY <2>1, <3>1
    <3>4. TypeOK
      BY <2>2, <3>1, <3>2, <3>3 DEF TypeOK, QueryInv
    <3>5. SelectAnswers /\ EffectIsExact
      BY <2>2, <3>1, <3>3 DEF SelectAnswers, EffectIsExact
    <3> QED
      BY <3>4, <3>5 DEF StatementIsExact
  <2>3. CASE phase \in {"running", "done"}
    <3>1. /\ Sound(stmt, before) /\ State(stmt, before, m)
          /\ program = Program(stmt, before)
      BY <2>3, Given DEF QueryInv
    <3>2. /\ m.status \in {"running", "done"} /\ m.pc \in DOMAIN program
          /\ m.rows \in Seq(Seq(Values))
      BY <3>1, StateFacts
    <3>3. /\ IsSchema(m.schema) /\ Rectangular(m.schema)
          /\ m.status = "done" => Effect(stmt, before, m.schema)
      BY <3>1, StateEffect
    <3>4. ASSUME IsSelect(stmt), phase = "done"
          PROVE  /\ out \in Seq(Seq(Values))
                 /\ ~OverNothing(stmt, before) => out = Denoted(stmt, before)
      <4>1. ScanState(m, stmt.from, Wanted(stmt, before), before)
        BY <3>1, <3>4 DEF State, IsSelect
      <4>2. m.status = "done" /\ out = ResultRows(stmt, before, m.rows)
        BY <3>4 DEF QueryInv
      <4> QED
        BY <3>1, <3>4, <4>1, <4>2, SelectDenotes
    <3>5. out \in Seq(Seq(Values))
      <4>1. ~(IsSelect(stmt) /\ phase = "done") => out = <<>>
        BY DEF QueryInv
      <4>2. <<>> \in Seq(Seq(Values))
        OBVIOUS
      <4> QED
        BY <3>4, <4>1, <4>2
    <3>6. TypeOK
      BY <2>3, <3>2, <3>3, <3>5 DEF TypeOK, QueryInv
    <3>7. SelectAnswers
      BY <3>4 DEF SelectAnswers
    <3>8. EffectIsExact
      BY <2>3, <3>3 DEF EffectIsExact, QueryInv
    <3> QED
      BY <3>6, <3>7, <3>8 DEF StatementIsExact
  <2> QED
    BY <2>2, <2>3 DEF QueryInv
<1> QED
  BY <1>1, QueryHolds, PTL
=============================================================================
