------------------------------- MODULE Session -------------------------------
(***************************************************************************)
(* The C interface of rust-port/src/api.rs on one open connection (handle. *)
(* rs) that several threads share: prepare, step, reset, finalize and exec,*)
(* over the schema behind its mutex and the last error, a code and a       *)
(* message that are stored one after the other.                            *)
(*                                                                         *)
(* A call is atomic between the points where another thread can see or     *)
(* change something it uses: the two stores of clear_error, the two of     *)
(* set_error, each time it takes or gives back the schema's mutex, and     *)
(* each callback of exec, which is always given one.  reset, finalize and  *)
(* the column functions touch only the caller's statement.  Messages are   *)
(* named by the code they belong to.  SQL text is what the parser makes of *)
(* it.                                                                     *)
(*                                                                         *)
(* Callers keep to SQLite's rules: a statement is used by one thread, the  *)
(* connection is closed after all its statements, and a callback does not  *)
(* use the connection it is called from, whose mutex exec holds.           *)
(***************************************************************************)
EXTENDS Engine, SequencesExt

CONSTANTS
  Threads, Nobody,
  Prepared,  \* the statements that are prepared
  Scripts,   \* the sequences of statements that are given to exec
  Garbage,   \* text that the tokenizer or the parser rejects
  Blank,     \* text without a statement
  NoStmt,    \* a null sqlite3_stmt
  MaxRows    \* bound: rows in a table

\* the SqliteStmt of a handle
Handles ==
  [stmt : Prepared, columns : Seq(Names), rows : Seq(Seq(Seq(Values))),
   row_idx : Nat, current_row : Nat]

ASSUME SessionAssumption ==
  /\ Nobody \notin Threads
  /\ NoStmt \notin Handles /\ NoStmt \notin Prepared
  /\ <<>> \notin Scripts
  /\ Garbage \notin Prepared /\ Garbage \notin Scripts
  /\ Blank \notin Prepared /\ Blank # Garbage
  /\ \A stmt \in Prepared : IsStatement(stmt)
  /\ \A script \in Scripts :
       script \in Seq(Range(script)) /\ \A stmt \in Range(script) : IsStatement(stmt)
  /\ MaxRows \in Nat

OK == 0
ERROR == 1
ABORT == 4

VARIABLES
  schema, holder,     \* the schema, and the thread that has its mutex
  err_code, err_msg,
  pc, call, fault,    \* a thread's place in its call, the call, the error to report
  handle,             \* the statement each thread owns
  given, answer,      \* history: the rows handed out since the statement last ran,
                      \* and the rows it denoted on the schema it ran on
  runs,               \* history: how often the statement ran since it was reset
  results             \* history: what prepare_v2, step and exec have returned
                      \* since a call last began with no other in progress,
                      \* as long as the error tells of it

thread == <<pc, call, fault>>
error == <<err_code, err_msg>>
statement == <<handle, given, answer, runs>>
vars == <<schema, holder, error, thread, statement, results>>

get_result_columns(stmt) ==
  CASE ~IsSelect(stmt) -> <<>>
    [] IsSelect(stmt) /\ stmt.all /\ stmt.from \in DOMAIN schema ->
         schema[stmt.from].columns
    [] OTHER -> stmt.columns

\* the rows of a statement: an Option, None until it has run
None == <<>>
Some(rows) == <<rows>>

NewStmt(stmt) ==
  [stmt |-> stmt, columns |-> get_result_columns(stmt),
   rows |-> None, row_idx |-> 0, current_row |-> 0]

Idle == [kind |-> "none"]

Init ==
  /\ schema = <<>>
  /\ holder = Nobody
  /\ err_code = OK /\ err_msg = OK
  /\ pc = [t \in Threads |-> "idle"]
  /\ call = [t \in Threads |-> Idle]
  /\ fault = [t \in Threads |-> OK]
  /\ handle = [t \in Threads |-> NoStmt]
  /\ given = [t \in Threads |-> <<>>]
  /\ answer = [t \in Threads |-> <<>>]
  /\ runs = [t \in Threads |-> 0]
  /\ results = {OK}

-----------------------------------------------------------------------------
(* The bound on inserts counts those that calls in progress may still do.  *)

InsertsIn(script) == Len(SelectSeq(script, LAMBDA stmt : stmt.kind = "insert"))

Pending(t) ==
  CASE call[t].kind = "step" -> InsertsIn(<<handle[t].stmt>>)
    [] call[t].kind = "exec" /\ call[t].rest # Garbage -> InsertsIn(call[t].rest)
    [] OTHER -> 0

Room(inserts) ==
  \A name \in DOMAIN schema :
    Len(schema[name].rows) + inserts + MapThenSumSet(Pending, Threads) <= MaxRows

-----------------------------------------------------------------------------
(* A call begins with clear_error, its two stores.                         *)

\* those of the results that the error still tells of
Told(codes) == codes \cap {err_code', err_msg'}

Others(t) == \E u \in Threads \ {t} : pc[u] # "idle"

\* does not clear the code
Begin_KeepsCode(t, c) ==
  /\ pc[t] = "idle"
  /\ call' = [call EXCEPT ![t] = c]
  /\ pc' = [pc EXCEPT ![t] = "clear"]
  /\ UNCHANGED error
  /\ results' = IF Others(t) THEN Told(results) ELSE {}
  /\ UNCHANGED <<schema, holder, fault, statement>>

Begin(t, c) ==
  /\ pc[t] = "idle"
  /\ call' = [call EXCEPT ![t] = c]
  /\ pc' = [pc EXCEPT ![t] = "clear"]
  /\ err_code' = OK /\ err_msg' = err_msg
  /\ results' = IF Others(t) THEN Told(results) ELSE {}
  /\ UNCHANGED <<schema, holder, fault, statement>>

prepare_v2(t) ==
  /\ handle[t] = NoStmt
  /\ \E sql \in Prepared \cup {Garbage, Blank} : Begin(t, [kind |-> "prepare", sql |-> sql])

step(t) ==
  /\ handle[t] # NoStmt
  /\ handle[t].rows = None => Room(InsertsIn(<<handle[t].stmt>>))
  /\ Begin(t, [kind |-> "step"])

exec_sql(t) ==
  \E sql \in Scripts \cup {Garbage} :
    /\ sql # Garbage => Room(InsertsIn(sql))
    /\ Begin(t, [kind |-> "exec", rest |-> sql, rows |-> <<>>, columns |-> <<>>])

Return(t, code) ==
  /\ pc' = [pc EXCEPT ![t] = "idle"]
  /\ call' = [call EXCEPT ![t] = Idle]
  /\ results' = Told(results \cup {code})

\* on the way to set_error with this code
Fail(t, code) ==
  /\ pc' = [pc EXCEPT ![t] = "fail"]
  /\ fault' = [fault EXCEPT ![t] = code]
  /\ UNCHANGED <<call, results>>

Unparsable(c) ==
  \/ c.kind = "prepare" /\ c.sql = Garbage
  \/ c.kind = "exec" /\ c.rest = Garbage

\* hands out the same row again
HandOut_Stalls(h) ==
  [h EXCEPT !.current_row = IF h.row_idx < Len(h.rows[1]) THEN h.row_idx + 1 ELSE 0]

\* resets the statement with SQLITE_DONE
HandOut_Resets(h) ==
  IF h.row_idx < Len(h.rows[1])
  THEN [h EXCEPT !.current_row = h.row_idx + 1, !.row_idx = @ + 1]
  ELSE [h EXCEPT !.current_row = 0, !.rows = None]

\* SQLITE_ROW with the next row, or SQLITE_DONE
HandOut(h) ==
  IF h.row_idx < Len(h.rows[1])
  THEN [h EXCEPT !.current_row = h.row_idx + 1, !.row_idx = @ + 1]
  ELSE [h EXCEPT !.current_row = 0]

Handed(h) == IF h.current_row = 0 THEN <<>> ELSE <<h.rows[1][h.current_row]>>

\* what is left of a call once the error is cleared
ClearMessage(t) ==
  LET c == call[t] IN
  /\ pc[t] = "clear"
  /\ err_code' = err_code /\ err_msg' = OK
  /\ \/ /\ Unparsable(c)
        /\ Fail(t, ERROR)
        /\ UNCHANGED statement
     \/ /\ c.kind = "prepare" /\ c.sql = Blank
        /\ Return(t, OK)
        /\ UNCHANGED <<fault, statement>>
     \/ /\ c.kind = "step" /\ handle[t].rows # None
        /\ handle' = [handle EXCEPT ![t] = HandOut(@)]
        /\ given' = [given EXCEPT ![t] = @ \o Handed(handle'[t])]
        /\ Return(t, OK)
        /\ UNCHANGED <<fault, answer, runs>>
     \/ /\ ~Unparsable(c)
        /\ ~(c.kind = "prepare" /\ c.sql = Blank)
        /\ ~(c.kind = "step" /\ handle[t].rows # None)
        /\ pc' = [pc EXCEPT ![t] = "lock"]
        /\ UNCHANGED <<call, fault, results, statement>>
  /\ UNCHANGED <<schema, holder>>

-----------------------------------------------------------------------------
(* Under the schema's mutex.  A call that fails keeps it until it has      *)
(* stored the error and returns.                                           *)

Locks(t, kind) ==
  /\ pc[t] = "lock" /\ call[t].kind = kind
  /\ holder = Nobody

\* gives the mutex back at once
StaysLocked_Not(t) == UNCHANGED holder

\* the mutex is given back when the call returns, or after the last callback
StaysLocked(t) == holder' = t

FailHolding(t, code) ==
  /\ StaysLocked(t)
  /\ Fail(t, code)

PrepareFails(t) ==
  /\ Locks(t, "prepare")
  /\ ~Compiles(call[t].sql, schema)
  /\ FailHolding(t, ERROR)
  /\ UNCHANGED <<schema, error, statement>>

\* the program compiled here is thrown away: step compiles again
Prepare(t) ==
  /\ Locks(t, "prepare")
  /\ Compiles(call[t].sql, schema)
  /\ UNCHANGED error
  /\ handle' = [handle EXCEPT ![t] = NewStmt(call[t].sql)]
  /\ given' = [given EXCEPT ![t] = <<>>]
  /\ answer' = [answer EXCEPT ![t] = <<>>]
  /\ runs' = [runs EXCEPT ![t] = 0]
  /\ Return(t, OK)
  /\ UNCHANGED <<schema, holder, fault>>

\* runs an INSERT as it was compiled when it was prepared
Ready_AsPrepared(stmt) == stmt.kind = "insert" \/ Valid(stmt, schema)

\* step compiles the statement again, on the schema of the moment
Ready(stmt) == Valid(stmt, schema)

StepFails(t) ==
  /\ Locks(t, "step")
  /\ ~Ready(handle[t].stmt)
  /\ FailHolding(t, ERROR)
  /\ UNCHANGED <<schema, error, statement>>

\* the rows a SELECT stands for; over an empty table the machine's own answer
Expected(stmt, rows) ==
  IF IsSelect(stmt) /\ ~OverNothing(stmt, schema) THEN Denoted(stmt, schema) ELSE rows

\* the first step since the statement was prepared or reset
Execute(t) ==
  LET stmt == handle[t].stmt
      result == Run(stmt, schema)
  IN /\ Locks(t, "step")
     /\ Ready(stmt)
     /\ UNCHANGED error
     /\ schema' = result.schema
     /\ handle' = [handle EXCEPT ![t] =
                     HandOut([@ EXCEPT !.rows = Some(result.rows), !.row_idx = 0])]
     /\ given' = [given EXCEPT ![t] = Handed(handle'[t])]
     /\ answer' = [answer EXCEPT ![t] = Expected(stmt, result.rows)]
     /\ runs' = [runs EXCEPT ![t] = @ + 1]
     /\ Return(t, OK)
     /\ UNCHANGED <<holder, fault>>

\* the statement that exec has come to has run and its callbacks are made
ExecGoesOn(t) ==
  IF Tail(call[t].rest) = <<>> THEN Return(t, OK)
  ELSE /\ pc' = [pc EXCEPT ![t] = "lock"]
       /\ call' = [call EXCEPT ![t].rest = Tail(@), ![t].rows = <<>>]
       /\ UNCHANGED results

ExecFails(t) ==
  /\ Locks(t, "exec")
  /\ ~Valid(Head(call[t].rest), schema)
  /\ FailHolding(t, ERROR)
  /\ UNCHANGED <<schema, error, statement>>

ExecStatement(t) ==
  LET stmt == Head(call[t].rest)
      result == Run(stmt, schema)
  IN /\ Locks(t, "exec")
     /\ Valid(stmt, schema)
     /\ UNCHANGED error
     /\ schema' = result.schema
     /\ IF result.rows = <<>>
        THEN /\ ExecGoesOn(t)
             /\ UNCHANGED holder
        ELSE /\ pc' = [pc EXCEPT ![t] = "callback"]
             /\ call' = [call EXCEPT ![t].rows = result.rows,
                                     ![t].columns = get_result_columns(stmt)]
             /\ StaysLocked(t)
             /\ UNCHANGED results
     /\ UNCHANGED <<fault, statement>>

\* the callback has returned zero for one row
CallbackReturns(t) ==
  LET rows == Tail(call[t].rows) IN
  /\ pc[t] = "callback"
  /\ UNCHANGED error
  /\ IF rows # <<>>
     THEN /\ call' = [call EXCEPT ![t].rows = rows]
          /\ UNCHANGED <<pc, holder, results>>
     ELSE /\ ExecGoesOn(t)
          /\ holder' = Nobody
  /\ UNCHANGED <<schema, fault, statement>>

CallbackAborts(t) ==
  /\ pc[t] = "callback"
  /\ Fail(t, ABORT)
  /\ UNCHANGED <<schema, holder, error, statement>>

-----------------------------------------------------------------------------
(* set_error, and the calls that only touch a statement: they return       *)
(* SQLITE_OK and leave the last error as it is.                            *)

SetCode(t) ==
  /\ pc[t] = "fail"
  /\ err_code' = fault[t] /\ err_msg' = err_msg
  /\ results' = Told(results)
  /\ pc' = [pc EXCEPT ![t] = "message"]
  /\ UNCHANGED <<schema, holder, call, fault, statement>>

SetMessage(t) ==
  /\ pc[t] = "message"
  /\ err_code' = err_code /\ err_msg' = fault[t]
  /\ holder' = IF holder = t THEN Nobody ELSE holder
  /\ Return(t, fault[t])
  /\ fault' = [fault EXCEPT ![t] = OK]
  /\ UNCHANGED <<schema, statement>>

finalize(t) ==
  /\ pc[t] = "idle" /\ handle[t] # NoStmt
  /\ handle' = [handle EXCEPT ![t] = NoStmt]
  /\ given' = [given EXCEPT ![t] = <<>>]
  /\ answer' = [answer EXCEPT ![t] = <<>>]
  /\ runs' = [runs EXCEPT ![t] = 0]
  /\ UNCHANGED <<schema, holder, error, thread, results>>

reset(t) ==
  /\ pc[t] = "idle" /\ handle[t] # NoStmt
  /\ handle' = [handle EXCEPT ![t].rows = None, ![t].row_idx = 0, ![t].current_row = 0]
  /\ given' = [given EXCEPT ![t] = <<>>]
  /\ answer' = [answer EXCEPT ![t] = <<>>]
  /\ runs' = [runs EXCEPT ![t] = 0]
  /\ UNCHANGED <<schema, holder, error, thread, results>>

Next ==
  \E t \in Threads :
    \/ prepare_v2(t) \/ step(t) \/ exec_sql(t) \/ ClearMessage(t)
    \/ PrepareFails(t) \/ Prepare(t) \/ StepFails(t) \/ Execute(t)
    \/ ExecFails(t) \/ ExecStatement(t) \/ CallbackReturns(t) \/ CallbackAborts(t)
    \/ SetCode(t) \/ SetMessage(t) \/ finalize(t) \/ reset(t)

Spec == Init /\ [][Next]_vars

-----------------------------------------------------------------------------
\* The types of the variables; who holds the mutex is in a callback or reports
\* an error of a statement it ran, and nobody is in a callback without it.
TypeOK ==
  /\ holder \in Threads \cup {Nobody}
  /\ err_code \in {OK, ERROR, ABORT} /\ err_msg \in {OK, ERROR, ABORT}
  /\ pc \in [Threads -> {"idle", "clear", "lock", "callback", "fail", "message"}]
  /\ \A t \in Threads :
       /\ fault[t] \in {OK, ERROR, ABORT}
       /\ fault[t] # OK <=> pc[t] \in {"fail", "message"}
       /\ pc[t] = "idle" <=> call[t].kind = "none"
       /\ call[t].kind = "step" => handle[t] # NoStmt
       /\ call[t].kind = "prepare" => handle[t] = NoStmt
       /\ holder = t => pc[t] \in {"callback", "fail", "message"}
       /\ pc[t] = "callback" => holder = t

\* A row inserted through a statement that was prepared before its table was
\* dropped and created again still fits the table: step compiles again.
TablesAreRectangular == Rectangular(schema)

\* The rows that step hands out are, in order and none twice, those that the
\* SELECT denoted on the schema as it was at the first step since the reset,
\* whatever other threads do to the table in between; after SQLITE_DONE they
\* are all of them.
RowsAreOfOneMoment ==
  \A t \in Threads : handle[t] # NoStmt =>
    /\ IsPrefix(given[t], answer[t])
    /\ handle[t].rows # None /\ handle[t].current_row = 0 => given[t] = answer[t]

\* However often step is called, also after SQLITE_DONE or after an error, a
\* statement has its effect at most once until it is reset.
OneEffectPerReset == \A t \in Threads : runs[t] <= 1

\* A row has as many values as there are column names with it: always in a
\* callback of exec, and in step for a SELECT that lists its columns, although
\* its table may have been replaced since the names were taken.
WidthsFit ==
  \A t \in Threads :
    /\ pc[t] = "callback" =>
         \A i \in DOMAIN call[t].rows : Len(call[t].rows[i]) = Len(call[t].columns)
    /\ handle[t] # NoStmt /\ IsSelect(handle[t].stmt) /\ ~handle[t].stmt.all
         => \A i \in DOMAIN given[t] : Len(given[t][i]) = Len(handle[t].columns)

\* Rows fit their table and, but for a prepared SELECT *, their names, whichever
\* call replaced the table between the prepare and the step of another (api.rs
\* 123-138, 264-284).
RowsAreSound == TypeOK /\ TablesAreRectangular /\ WidthsFit

\* When no call is in progress, sqlite3_errcode and sqlite3_errmsg each tell of
\* one of the prepare_v2, step and exec calls that were last in progress
\* together: of the last call where it ran alone, never of an older one. The two
\* may tell of different calls, and reset and finalize, which return SQLITE_OK,
\* leave both as they are.
ErrorsAreRecent ==
  (\A t \in Threads : pc[t] = "idle") => {err_code, err_msg} \subseteq results

\* While a callback of exec runs, and from one callback to the next, nobody
\* changes the schema the rows were taken from: part of ImplementsDatabase below.
CallbackHoldsStill ==
  [][\A t \in Threads : pc[t] = "callback" /\ pc'[t] = "callback" => schema' = schema]_vars

-----------------------------------------------------------------------------
(* What the clients of Database see of a connection.                        *)
Changes(stmt, old, new) == Valid(stmt, old) /\ Effect(stmt, old, new)

Answers(stmt, old, rows) ==
  IF IsSelect(stmt) THEN OverNothing(stmt, old) \/ rows = Denoted(stmt, old)
  ELSE rows = <<>>

Opened == [t \in Threads |-> IF handle[t] = NoStmt THEN NoStmt ELSE handle[t].stmt]
Answered == [t \in Threads |-> IF handle[t] = NoStmt THEN None ELSE handle[t].rows]
Taken == [t \in Threads |-> IF handle[t] = NoStmt THEN <<>> ELSE given[t]]
Served == [t \in Threads |-> IF pc[t] = "callback" THEN call[t].rows ELSE <<>>]

\* that are prepared or given to exec
AllStatements == Prepared \cup UNION {Range(script) : script \in Scripts}

Promise == INSTANCE Database WITH
  Clients <- Threads,
  Closed <- NoStmt,
  Statements <- AllStatements,
  db <- schema, opened <- Opened, answer <- Answered, given <- Taken, serving <- Served

\* However the calls of the threads interleave, and whatever is reported, left
\* half-way or prepared on a schema that is gone, the clients see statements
\* that take effect one at a time and answers that do not change under them:
\* sqlite3_step runs once until sqlite3_reset (api.rs 255-338), and sqlite3_exec
\* keeps the schema from one statement's effect to its last callback (585-685).
ImplementsDatabase == Promise!Spec
=============================================================================
