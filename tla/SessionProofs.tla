--------------------------- MODULE SessionProofs ---------------------------
(***************************************************************************)
(* Proofs about module Session, for every number of threads, every set of   *)
(* statements and scripts and every bound on the rows.                      *)
(***************************************************************************)
EXTENDS Session, EngineProofs

Places == {"idle", "clear", "lock", "callback", "fail", "message"}
Codes == {OK, ERROR, ABORT}

(* A call and a statement are records with these fields.                    *)
IsCall(c) ==
  /\ c.kind \in {"none", "step", "prepare", "exec"}
  /\ c.kind = "exec" =>
       c = [f \in {"kind", "rest", "rows", "columns"} |-> c[f]]

IsHandle(h) == h = [f \in {"stmt", "columns", "rows", "row_idx", "current_row"} |-> h[f]]

(* TypeOK and the shapes of the records, which EXCEPT keeps.                *)
Shapes ==
  /\ TypeOK
  /\ fault = [t \in Threads |-> fault[t]]
  /\ call = [t \in Threads |-> call[t]] /\ \A t \in Threads : IsCall(call[t])
  /\ handle = [t \in Threads |-> handle[t]]
  /\ \A t \in Threads : /\ handle[t] # NoStmt => IsHandle(handle[t])
                        /\ pc[t] = "callback" => call[t].kind = "exec"

(* Who stands for each half of the last error: a call that has returned it, *)
(* or one in progress that has stored it, or is about to clear it, and will *)
(* return it unless it stores another.                                      *)
CodeIsAccounted ==
  \/ err_code \in results
  \/ \E t \in Threads : pc[t] \in {"clear", "lock", "callback", "fail"} /\ err_code = OK
  \/ \E t \in Threads : pc[t] = "message" /\ err_code = fault[t]

MessageIsAccounted ==
  \/ err_msg \in results
  \/ \E t \in Threads : pc[t] = "clear"
  \/ \E t \in Threads : pc[t] \in {"lock", "callback", "fail", "message"} /\ err_msg = OK

ErrorIsAccounted == CodeIsAccounted /\ MessageIsAccounted

(* Whether a statement has run shows in its rows, which stay until it is    *)
(* reset; step does not come to the mutex when it has.                      *)
RunShowsInRows ==
  /\ runs = [t \in Threads |-> runs[t]]
  /\ \A t \in Threads :
       /\ runs[t] \in {0, 1}
       /\ runs[t] = 1 => handle[t].rows # None
       /\ pc[t] = "lock" /\ call[t].kind = "step" => handle[t].rows = None

-----------------------------------------------------------------------------
LEMMA CodesDiffer == OK # ERROR /\ OK # ABORT
BY DEF OK, ERROR, ABORT

(* HandOut changes what it should of a statement and keeps its rows.        *)
LEMMA HandOutKeeps ==
  ASSUME NEW h, IsHandle(h)
  PROVE  IsHandle(HandOut(h)) /\ HandOut(h).rows = h.rows
BY DEF IsHandle, HandOut

LEMMA FreshRows ==
  ASSUME NEW h, IsHandle(h), NEW r
  PROVE  LET g == [h EXCEPT !.rows = r, !.row_idx = 0]
         IN  IsHandle(g) /\ g.rows = r
BY DEF IsHandle

(* exec changes what it should of its call.                                 *)
LEMMA NextStatementKeeps ==
  ASSUME NEW c, IsCall(c), c.kind = "exec", NEW rest, NEW rows
  PROVE  LET d == [c EXCEPT !.rest = rest, !.rows = rows]
         IN  IsCall(d) /\ d.kind = "exec"
BY DEF IsCall

LEMMA RowsKeep ==
  ASSUME NEW c, IsCall(c), c.kind = "exec", NEW rows, NEW columns
  PROVE  LET d == [c EXCEPT !.rows = rows, !.columns = columns]
         IN  IsCall(d) /\ d.kind = "exec"
BY DEF IsCall

LEMMA NextRowKeeps ==
  ASSUME NEW c, IsCall(c), c.kind = "exec", NEW rows
  PROVE  LET d == [c EXCEPT !.rows = rows]
         IN  IsCall(d) /\ d.kind = "exec"
BY DEF IsCall

(* One step of a thread moves only that thread.                             *)
Moves(t) ==
  \/ prepare_v2(t) \/ step(t) \/ exec_sql(t) \/ ClearMessage(t)
  \/ PrepareFails(t) \/ Prepare(t) \/ StepFails(t) \/ Execute(t)
  \/ ExecFails(t) \/ ExecStatement(t) \/ CallbackReturns(t) \/ CallbackAborts(t)
  \/ SetCode(t) \/ SetMessage(t) \/ finalize(t) \/ reset(t)

Only(t) ==
  /\ pc' = [pc EXCEPT ![t] = pc'[t]]
  /\ call' = [call EXCEPT ![t] = call'[t]]
  /\ fault' = [fault EXCEPT ![t] = fault'[t]]
  /\ handle' = [handle EXCEPT ![t] = handle'[t]]

LEMMA OnlySelf ==
  ASSUME Shapes, NEW t \in Threads, Moves(t)
  PROVE  Only(t)
<1>1. /\ pc = [pc EXCEPT ![t] = pc[t]] /\ call = [call EXCEPT ![t] = call[t]]
      /\ fault = [fault EXCEPT ![t] = fault[t]] /\ handle = [handle EXCEPT ![t] = handle[t]]
      /\ DOMAIN pc = Threads /\ DOMAIN call = Threads /\ DOMAIN fault = Threads
      /\ DOMAIN handle = Threads
  BY DEF Shapes, TypeOK
<1>2. CASE prepare_v2(t) \/ step(t) \/ exec_sql(t)
  BY <1>1, <1>2 DEF prepare_v2, step, exec_sql, Begin, Only, statement
<1>3. CASE ClearMessage(t)
  BY <1>1, <1>3 DEF ClearMessage, Fail, Return, Only, statement
<1>4. CASE PrepareFails(t) \/ StepFails(t) \/ ExecFails(t) \/ CallbackAborts(t)
  BY <1>1, <1>4 DEF PrepareFails, StepFails, ExecFails, CallbackAborts, FailHolding, Fail, Only,
     statement
<1>5. CASE Prepare(t)
  BY <1>1, <1>5 DEF Prepare, Return, Only
<1>6. CASE Execute(t)
  BY <1>1, <1>6 DEF Execute, Return, Only
<1>7. CASE ExecStatement(t)
  BY <1>1, <1>7 DEF ExecStatement, ExecGoesOn, Return, Only, statement
<1>8. CASE CallbackReturns(t)
  BY <1>1, <1>8 DEF CallbackReturns, ExecGoesOn, Return, Only, statement
<1>9. CASE SetCode(t) \/ SetMessage(t)
  BY <1>1, <1>9 DEF SetCode, SetMessage, Return, Only, statement
<1>10. CASE finalize(t) \/ reset(t)
  BY <1>1, <1>10 DEF finalize, reset, Only, thread
<1> QED
  BY <1>2, <1>3, <1>4, <1>5, <1>6, <1>7, <1>8, <1>9, <1>10 DEF Moves

(* What Shapes says of one thread, and of the mutex.                        *)
ShapeOf(t) ==
  /\ pc[t] \in Places
  /\ fault[t] \in Codes
  /\ fault[t] # OK <=> pc[t] \in {"fail", "message"}
  /\ pc[t] = "idle" <=> call[t].kind = "none"
  /\ call[t].kind = "step" => handle[t] # NoStmt
  /\ call[t].kind = "prepare" => handle[t] = NoStmt
  /\ IsCall(call[t])
  /\ handle[t] # NoStmt => IsHandle(handle[t])
  /\ pc[t] = "callback" => call[t].kind = "exec"

Mutex(t) ==
  /\ holder = t => pc[t] \in {"callback", "fail", "message"}
  /\ pc[t] = "callback" => holder = t

Parts ==
  /\ holder \in Threads \cup {Nobody}
  /\ err_code \in Codes /\ err_msg \in Codes
  /\ pc = [t \in Threads |-> pc[t]]
  /\ fault = [t \in Threads |-> fault[t]]
  /\ call = [t \in Threads |-> call[t]]
  /\ handle = [t \in Threads |-> handle[t]]
  /\ \A t \in Threads : ShapeOf(t) /\ Mutex(t)

LEMMA ShapesParts == Shapes <=> Parts
<1>1. pc \in [Threads -> Places] <=> /\ pc = [t \in Threads |-> pc[t]]
                                     /\ \A t \in Threads : pc[t] \in Places
  OBVIOUS
<1>2. Codes = {OK, ERROR, ABORT}
      /\ Places = {"idle", "clear", "lock", "callback", "fail", "message"}
  BY DEF Codes, Places
<1>3. ASSUME Shapes
      PROVE  /\ pc \in [Threads -> Places]
             /\ \A t \in Threads : pc[t] \in Places /\ ShapeOf(t) /\ Mutex(t)
  <2>1. pc \in [Threads -> Places]
    BY <1>2, <1>3 DEF Shapes, TypeOK
  <2>2. ASSUME NEW t \in Threads PROVE ShapeOf(t)
    <3>1. /\ fault[t] \in Codes
          /\ fault[t] # OK <=> pc[t] \in {"fail", "message"}
          /\ pc[t] = "idle" <=> call[t].kind = "none"
          /\ call[t].kind = "step" => handle[t] # NoStmt
          /\ call[t].kind = "prepare" => handle[t] = NoStmt
      BY <1>2, <1>3 DEF Shapes, TypeOK
    <3>2. /\ IsCall(call[t]) /\ (handle[t] # NoStmt => IsHandle(handle[t]))
          /\ pc[t] = "callback" => call[t].kind = "exec"
      BY <1>3 DEF Shapes
    <3> QED
      BY <2>1, <3>1, <3>2 DEF ShapeOf
  <2>3. ASSUME NEW t \in Threads PROVE Mutex(t)
    BY <1>3 DEF Shapes, TypeOK, Mutex
  <2> QED
    BY <2>1, <2>2, <2>3
<1>4. ASSUME \A t \in Threads : ShapeOf(t) /\ Mutex(t)
      PROVE  \A t \in Threads :
               /\ fault[t] \in {OK, ERROR, ABORT}
               /\ fault[t] # OK <=> pc[t] \in {"fail", "message"}
               /\ pc[t] = "idle" <=> call[t].kind = "none"
               /\ call[t].kind = "step" => handle[t] # NoStmt
               /\ call[t].kind = "prepare" => handle[t] = NoStmt
               /\ holder = t => pc[t] \in {"callback", "fail", "message"}
               /\ pc[t] = "callback" => holder = t
               /\ pc[t] \in Places /\ IsCall(call[t])
               /\ handle[t] # NoStmt => IsHandle(handle[t])
               /\ pc[t] = "callback" => call[t].kind = "exec"
  BY <1>2, <1>4 DEF ShapeOf, Mutex
<1>5. ASSUME pc = [t \in Threads |-> pc[t]], \A t \in Threads : ShapeOf(t)
      PROVE  pc \in [Threads -> Places]
  BY <1>5 DEF ShapeOf
<1> QED
  BY <1>1, <1>2, <1>3, <1>4, <1>5 DEF Shapes, TypeOK, Parts

LEMMA ShapesPartsNext == Shapes' <=> Parts'
BY ShapesParts, PTL

LEMMA ShapeOfStep ==
  ASSUME Shapes, NEW t \in Threads, Moves(t)
  PROVE  ShapeOf(t)'
<1>1. /\ ShapeOf(t) /\ t \in DOMAIN pc /\ t \in DOMAIN call /\ t \in DOMAIN fault
      /\ t \in DOMAIN handle
  BY ShapesParts DEF Parts
<1> USE CodesDiffer
<1>2. CASE prepare_v2(t) \/ step(t) \/ exec_sql(t)
  <2>1. /\ pc[t] = "idle" /\ pc' = [pc EXCEPT ![t] = "clear"]
        /\ UNCHANGED <<fault, handle>>
    BY <1>2 DEF prepare_v2, step, exec_sql, Begin, statement
  <2>2. /\ call'[t].kind # "none" /\ IsCall(call'[t])
        /\ call'[t].kind = "step" => handle[t] # NoStmt
        /\ call'[t].kind = "prepare" => handle[t] = NoStmt
    <3>1. CASE prepare_v2(t)
      BY <1>1, <3>1 DEF prepare_v2, Begin, IsCall
    <3>2. CASE step(t)
      BY <1>1, <3>2 DEF step, Begin, IsCall
    <3>3. CASE exec_sql(t)
      BY <1>1, <3>3 DEF exec_sql, Begin, IsCall
    <3> QED
      BY <1>2, <3>1, <3>2, <3>3
  <2> QED
    BY <1>1, <2>1, <2>2 DEF ShapeOf, Places
<1>3. CASE ClearMessage(t)
  <2>1. CASE Fail(t, ERROR) /\ UNCHANGED statement
    BY <1>1, <1>3, <2>1 DEF ClearMessage, Fail, ShapeOf, Places, Codes, statement
  <2>2. CASE Return(t, OK) /\ UNCHANGED <<fault, statement>>
    BY <1>1, <1>3, <2>2 DEF ClearMessage, Return, ShapeOf, Places, statement, IsCall, Idle
  <2>3. CASE /\ Return(t, OK) /\ UNCHANGED fault
             /\ call[t].kind = "step" /\ handle' = [handle EXCEPT ![t] = HandOut(@)]
    <3>1. IsHandle(handle'[t])
      BY <1>1, <2>3, HandOutKeeps DEF ShapeOf
    <3> QED
      BY <1>1, <1>3, <2>3, <3>1 DEF ClearMessage, Return, ShapeOf, Places, IsCall, Idle
  <2>4. CASE pc' = [pc EXCEPT ![t] = "lock"] /\ UNCHANGED <<call, fault, statement>>
    BY <1>1, <1>3, <2>4 DEF ClearMessage, ShapeOf, Places, statement
  <2> QED
    BY <1>3, <2>1, <2>2, <2>3, <2>4 DEF ClearMessage
<1>4. CASE PrepareFails(t) \/ StepFails(t) \/ ExecFails(t) \/ CallbackAborts(t)
  BY <1>1, <1>4 DEF PrepareFails, StepFails, ExecFails, CallbackAborts, FailHolding, Fail, Locks,
     ShapeOf, Places, Codes, statement
<1>5. CASE Prepare(t)
  BY <1>1, <1>5 DEF Prepare, Return, Locks, ShapeOf, Places, NewStmt, IsHandle, IsCall, Idle
<1>6. CASE Execute(t)
  <2>1. handle[t] # NoStmt /\ IsHandle(handle[t])
    BY <1>1, <1>6 DEF Execute, Locks, ShapeOf
  <2> DEFINE h == [handle[t] EXCEPT !.rows = Some(Run(handle[t].stmt, schema).rows),
                                    !.row_idx = 0]
  <2>2. IsHandle(h)
    BY <2>1, FreshRows
  <2>3. handle'[t] = HandOut(h)
    BY <1>1, <1>6 DEF Execute
  <2> HIDE DEF h
  <2>4. IsHandle(handle'[t])
    BY <2>2, <2>3, HandOutKeeps
  <2>5. Return(t, OK) /\ UNCHANGED fault /\ pc[t] = "lock"
    BY <1>6 DEF Execute, Locks
  <2> QED
    BY <1>1, <2>4, <2>5 DEF Return, ShapeOf, Places, IsCall, Idle
<1>7. CASE ExecStatement(t) \/ CallbackReturns(t)
  <2>1. /\ pc[t] \in {"lock", "callback"} /\ UNCHANGED <<fault, handle>>
        /\ pc[t] = "lock" => call[t].kind = "exec"
    BY <1>1, <1>7 DEF ExecStatement, CallbackReturns, Locks, statement
  <2>2. call[t].kind = "exec" /\ IsCall(call[t])
    BY <1>1, <2>1 DEF ShapeOf
  <2>3. CASE Return(t, OK)
    BY <1>1, <2>1, <2>3 DEF Return, ShapeOf, Places, IsCall, Idle
  <2>4. CASE /\ pc'[t] \in {"lock", "callback"}
             /\ call'[t].kind = "exec" /\ IsCall(call'[t])
    BY <1>1, <2>1, <2>4 DEF ShapeOf, Places
  <2>5. CASE ExecGoesOn(t)
    <3>1. CASE Return(t, OK)
      BY <2>3, <3>1
    <3>2. CASE /\ pc' = [pc EXCEPT ![t] = "lock"]
               /\ call' = [call EXCEPT ![t].rest = Tail(@), ![t].rows = <<>>]
      <4>1. /\ call'[t] = [call[t] EXCEPT !.rest = Tail(call[t].rest), !.rows = <<>>]
            /\ pc'[t] = "lock"
        BY <1>1, <3>2
      <4>2. IsCall(call'[t]) /\ call'[t].kind = "exec"
        BY <2>2, <4>1 DEF IsCall
      <4> QED
        BY <2>4, <4>1, <4>2
    <3> QED
      BY <2>5, <3>1, <3>2 DEF ExecGoesOn
  <2>6. CASE ExecStatement(t) /\ ~ExecGoesOn(t)
    <3>1. PICK rows, columns :
            /\ pc' = [pc EXCEPT ![t] = "callback"]
            /\ call' = [call EXCEPT ![t].rows = rows, ![t].columns = columns]
      BY <2>6 DEF ExecStatement
    <3>2. /\ call'[t] = [call[t] EXCEPT !.rows = rows, !.columns = columns]
          /\ pc'[t] = "callback"
      BY <1>1, <3>1
    <3>3. IsCall(call'[t]) /\ call'[t].kind = "exec"
      BY <2>2, <3>2 DEF IsCall
    <3> QED
      BY <2>4, <3>2, <3>3
  <2>7. CASE CallbackReturns(t) /\ ~ExecGoesOn(t)
    <3>1. /\ call'[t] = [call[t] EXCEPT !.rows = Tail(call[t].rows)]
          /\ pc'[t] = "callback"
      BY <1>1, <2>7 DEF CallbackReturns
    <3>2. IsCall(call'[t]) /\ call'[t].kind = "exec"
      BY <2>2, <3>1 DEF IsCall
    <3> QED
      BY <2>4, <3>1, <3>2
  <2> QED
    BY <1>7, <2>5, <2>6, <2>7
<1>8. CASE SetCode(t) \/ SetMessage(t)
  BY <1>1, <1>8 DEF SetCode, SetMessage, Return, ShapeOf, Places, Codes, statement, IsCall, Idle
<1>9. CASE finalize(t)
  BY <1>1, <1>9 DEF finalize, ShapeOf, thread
<1>10. CASE reset(t)
  BY <1>1, <1>10 DEF reset, ShapeOf, thread, IsHandle
<1> QED
  BY <1>2, <1>3, <1>4, <1>5, <1>6, <1>7, <1>8, <1>9, <1>10 DEF Moves

LEMMA ShapesUnchanged == Shapes /\ UNCHANGED vars => Shapes'
BY DEF Shapes, TypeOK, vars, thread, error, statement

(* Who takes the mutex finds it free, and only its holder gives it back.    *)
LEMMA MutexStep ==
  ASSUME Shapes, NEW t \in Threads, Moves(t)
  PROVE  \A u \in Threads : Mutex(u)'
<1>1. /\ \A u \in Threads : Mutex(u)
      /\ \A u \in Threads : u # t => pc'[u] = pc[u]
      /\ t \in DOMAIN pc
  BY ShapesParts, OnlySelf DEF Parts, Only
<1>2. Nobody \notin Threads
  BY SessionAssumption
<1>3. CASE /\ UNCHANGED holder /\ pc'[t] # "callback"
           /\ holder = t => pc'[t] \in {"fail", "message"}
  BY <1>1, <1>3 DEF Mutex
<1>4. CASE /\ holder = Nobody /\ holder' = t
           /\ pc'[t] \in {"callback", "fail", "message"}
  BY <1>1, <1>2, <1>4 DEF Mutex
<1>5. CASE /\ pc[t] = "callback" /\ UNCHANGED <<holder, pc>>
  BY <1>1, <1>5 DEF Mutex
<1>6. CASE /\ holder' = (IF holder = t THEN Nobody ELSE holder)
           /\ pc'[t] \in {"idle", "lock"}
  BY <1>1, <1>2, <1>6 DEF Mutex
<1>7. CASE prepare_v2(t) \/ step(t) \/ exec_sql(t)
  BY <1>1, <1>3, <1>7 DEF prepare_v2, step, exec_sql, Begin, Mutex
<1>8. CASE ClearMessage(t)
  <2>1. UNCHANGED holder /\ pc[t] = "clear" /\ pc'[t] \in {"idle", "fail", "lock"}
    BY <1>1, <1>8 DEF ClearMessage, Fail, Return
  <2> QED
    BY <1>1, <1>3, <2>1 DEF Mutex
<1>9. CASE PrepareFails(t) \/ StepFails(t) \/ ExecFails(t)
  BY <1>1, <1>4, <1>9 DEF PrepareFails, StepFails, ExecFails, FailHolding, StaysLocked, Fail, Locks
<1>10. CASE CallbackAborts(t)
  BY <1>1, <1>3, <1>10 DEF CallbackAborts, Fail
<1>11. CASE Prepare(t) \/ Execute(t)
  <2>1. UNCHANGED holder /\ pc[t] = "lock" /\ pc'[t] = "idle"
    BY <1>1, <1>11 DEF Prepare, Execute, Return, Locks
  <2> QED
    BY <1>1, <1>3, <2>1 DEF Mutex
<1>12. CASE ExecStatement(t)
  <2>1. /\ holder = Nobody
        /\ \/ UNCHANGED holder /\ pc'[t] \in {"idle", "lock"}
           \/ holder' = t /\ pc'[t] = "callback"
    BY <1>1, <1>12 DEF ExecStatement, ExecGoesOn, StaysLocked, Return, Locks
  <2> QED
    BY <1>2, <1>3, <1>4, <2>1
<1>13. CASE CallbackReturns(t)
  <2>1. /\ pc[t] = "callback" /\ holder = t
        /\ \/ UNCHANGED <<holder, pc>>
           \/ holder' = Nobody /\ pc'[t] \in {"idle", "lock"}
    BY <1>1, <1>13 DEF CallbackReturns, ExecGoesOn, Return, Mutex
  <2> QED
    BY <1>5, <1>6, <2>1
<1>14. CASE SetCode(t)
  BY <1>1, <1>3, <1>14 DEF SetCode
<1>15. CASE SetMessage(t)
  BY <1>1, <1>6, <1>15 DEF SetMessage, Return
<1>16. CASE finalize(t) \/ reset(t)
  BY <1>1, <1>16 DEF finalize, reset, thread, Mutex
<1> QED
  BY <1>7, <1>8, <1>9, <1>10, <1>11, <1>12, <1>13, <1>14, <1>15, <1>16 DEF Moves

LEMMA ShapesStep ==
  ASSUME Shapes, [Next]_vars
  PROVE  Shapes'
<1>1. CASE UNCHANGED vars
  BY <1>1, ShapesUnchanged
<1>2. ASSUME NEW t \in Threads, Moves(t) PROVE Shapes'
  <2>1. Only(t) /\ ShapeOf(t)'
    BY <1>2, OnlySelf, ShapeOfStep
  <2>2. \A u \in Threads : Mutex(u)'
    BY <1>2, MutexStep
  <2>3. \A u \in Threads : ShapeOf(u)
    BY ShapesParts DEF Parts
  <2>4. /\ pc' = [u \in Threads |-> pc'[u]] /\ fault' = [u \in Threads |-> fault'[u]]
        /\ call' = [u \in Threads |-> call'[u]] /\ handle' = [u \in Threads |-> handle'[u]]
    BY <2>1, ShapesParts DEF Parts, Only
  <2>5. ASSUME NEW u \in Threads PROVE ShapeOf(u)'
    <3>1. CASE u = t
      BY <2>1, <3>1
    <3>2. CASE u # t
      <4>1. /\ pc'[u] = pc[u] /\ fault'[u] = fault[u] /\ call'[u] = call[u]
            /\ handle'[u] = handle[u]
        BY <2>1, <3>2, ShapesParts DEF Parts, Only
      <4> QED
        BY <2>3, <4>1 DEF ShapeOf
    <3> QED
      BY <3>1, <3>2
  <2>6. holder' \in Threads \cup {Nobody} /\ err_code' \in Codes /\ err_msg' \in Codes
    <3>1. holder' \in {holder, t, Nobody}
      BY <1>2 DEF Moves, prepare_v2, step, exec_sql, Begin, ClearMessage, PrepareFails, Prepare,
         StepFails, Execute, ExecFails, FailHolding, StaysLocked, ExecStatement, CallbackReturns,
         CallbackAborts, SetCode, SetMessage, finalize, reset
    <3>2. err_code' \in {err_code, OK, fault[t]} /\ err_msg' \in {err_msg, OK, fault[t]}
      BY <1>2 DEF Moves, prepare_v2, step, exec_sql, Begin, ClearMessage, PrepareFails, Prepare,
         StepFails, Execute, ExecFails, ExecStatement, CallbackReturns,
         CallbackAborts, SetCode, SetMessage, finalize, reset, error
    <3>3. fault[t] \in Codes /\ OK \in Codes
      BY <2>3 DEF ShapeOf, Codes
    <3> QED
      BY <3>1, <3>2, <3>3, ShapesParts DEF Parts
  <2> QED
    BY <2>2, <2>4, <2>5, <2>6, ShapesPartsNext DEF Parts
<1> QED
  BY <1>1, <1>2 DEF Next, Moves

-----------------------------------------------------------------------------
LEMMA InitShapes == Init => Shapes
  BY SessionAssumption DEF Init, Shapes, TypeOK, IsCall, Idle, OK, ERROR, ABORT

(* Between two callbacks of one exec nobody changes the schema: whoever     *)
(* changes it needs the mutex, which exec keeps until its last callback has *)
(* returned.                                                                *)
THEOREM Callbacks == Spec => CallbackHoldsStill
<1> DEFINE Still == \A t \in Threads : pc[t] = "callback" /\ pc'[t] = "callback" =>
                                         schema' = schema
<1>1. Shapes /\ [Next]_vars => [Still]_vars
  <2> SUFFICES ASSUME Shapes, NEW u \in Threads, Moves(u),
                      NEW t \in Threads, pc[t] = "callback"
               PROVE  schema' = schema
    BY DEF Next, Moves
  <2>1. holder # Nobody
    BY SessionAssumption DEF Shapes, TypeOK
  <2> QED
    BY <2>1 DEF Moves, prepare_v2, step, exec_sql, Begin, ClearMessage, PrepareFails, Prepare,
       StepFails, Execute, ExecFails, ExecStatement, CallbackReturns, CallbackAborts,
       SetCode, SetMessage, finalize, reset, Locks
<1>2. Shapes /\ [Next]_vars => Shapes'
  BY ShapesStep
<1> QED
  BY <1>1, <1>2, InitShapes, PTL DEF Spec, CallbackHoldsStill

LEMMA ErrorStep ==
  ASSUME Shapes, ErrorIsAccounted, NEW t \in Threads, Moves(t)
  PROVE  ErrorIsAccounted'
<1>1. /\ Only(t) /\ ShapeOf(t) /\ ShapeOf(t)' /\ t \in DOMAIN pc /\ t \in DOMAIN fault
      /\ \A u \in Threads : u # t => pc'[u] = pc[u] /\ fault'[u] = fault[u]
  BY OnlySelf, ShapeOfStep, ShapesParts DEF Parts, Only
<1> DEFINE Code(u) == \/ pc[u] \in {"clear", "lock", "callback", "fail"} /\ err_code = OK
                      \/ pc[u] = "message" /\ err_code = fault[u]
           Message(u) == \/ pc[u] = "clear"
                         \/ pc[u] \in {"lock", "callback", "fail", "message"} /\ err_msg = OK
(* The thread that moves takes over what it stores and what it stood for;   *)
(* the others keep standing for the rest.                                   *)
<1>2. ASSUME results \cap {err_code', err_msg'} \subseteq results',
             err_code' = err_code \/ Code(t)' \/ err_code' \in results',
             Code(t) /\ err_code' = err_code => Code(t)' \/ err_code' \in results',
             err_msg' = err_msg \/ Message(t)' \/ err_msg' \in results',
             Message(t) /\ err_msg' = err_msg => Message(t)' \/ err_msg' \in results'
      PROVE  ErrorIsAccounted'
  <2>1. CodeIsAccounted'
    <3>1. CASE err_code' = err_code /\ ~Code(t) /\ err_code \notin results
      <4>1. PICK u \in Threads : Code(u)
        BY <3>1 DEF ErrorIsAccounted, CodeIsAccounted
      <4>2. Code(u)'
        BY <1>1, <3>1, <4>1
      <4> QED
        BY <4>2 DEF CodeIsAccounted
    <3>2. Code(t)' => CodeIsAccounted'
      BY DEF CodeIsAccounted
    <3>3. err_code' \in results' => CodeIsAccounted'
      BY DEF CodeIsAccounted
    <3> HIDE DEF Code
    <3> QED
      BY <1>2, <3>1, <3>2, <3>3
  <2>2. MessageIsAccounted'
    <3>1. CASE err_msg' = err_msg /\ ~Message(t) /\ err_msg \notin results
      <4>1. PICK u \in Threads : Message(u)
        BY <3>1 DEF ErrorIsAccounted, MessageIsAccounted
      <4>2. Message(u)'
        BY <1>1, <3>1, <4>1
      <4> QED
        BY <4>2 DEF MessageIsAccounted
    <3>2. Message(t)' => MessageIsAccounted'
      BY DEF MessageIsAccounted
    <3>3. err_msg' \in results' => MessageIsAccounted'
      BY DEF MessageIsAccounted
    <3> HIDE DEF Message
    <3> QED
      BY <1>2, <3>1, <3>2, <3>3
  <2> QED
    BY <2>1, <2>2 DEF ErrorIsAccounted
<1>3. CASE prepare_v2(t) \/ step(t) \/ exec_sql(t)
  <2>1. pc'[t] = "clear" /\ err_code' = OK
    BY <1>1, <1>3 DEF prepare_v2, step, exec_sql, Begin
  <2> QED
    BY <2>1 DEF ErrorIsAccounted, CodeIsAccounted, MessageIsAccounted
<1>4. CASE finalize(t) \/ reset(t)
  BY <1>4 DEF finalize, reset, thread, error, ErrorIsAccounted, CodeIsAccounted,
     MessageIsAccounted
<1>5. CASE ClearMessage(t)
  <2>1. /\ pc[t] = "clear" /\ UNCHANGED err_code /\ err_msg' = OK
        /\ \/ pc'[t] \in {"fail", "lock"} /\ results' = results
           \/ pc'[t] = "idle" /\ results' = (results \cup {OK}) \cap {err_code', err_msg'}
    BY <1>1, <1>5 DEF ClearMessage, Fail, Return, Told
  <2> QED
    BY <1>2, <2>1
<1>6. CASE PrepareFails(t) \/ StepFails(t) \/ ExecFails(t) \/ CallbackAborts(t)
  <2>1. /\ pc[t] \in {"lock", "callback"} /\ UNCHANGED <<err_code, err_msg, results>>
        /\ pc'[t] = "fail"
    BY <1>1, <1>6 DEF PrepareFails, StepFails, ExecFails, CallbackAborts, FailHolding, Fail,
       Locks, error
  <2> QED
    BY <1>2, <2>1
<1>7. CASE Prepare(t) \/ Execute(t) \/ ExecStatement(t) \/ CallbackReturns(t)
  <2>1. /\ pc[t] \in {"lock", "callback"} /\ UNCHANGED <<err_code, err_msg>>
        /\ \/ pc'[t] = "idle" /\ results' = (results \cup {OK}) \cap {err_code', err_msg'}
           \/ pc'[t] \in {"lock", "callback"} /\ results' = results
    BY <1>1, <1>7 DEF Prepare, Execute, ExecStatement, CallbackReturns, ExecGoesOn, Return,
       Told, Locks, error
  <2> QED
    BY <1>2, <2>1
<1>8. CASE SetCode(t)
  <2>1. /\ pc[t] = "fail" /\ pc'[t] = "message" /\ UNCHANGED err_msg
        /\ err_code' = fault'[t] /\ results' = results \cap {err_code', err_msg'}
    BY <1>1, <1>8 DEF SetCode, Told
  <2> QED
    BY <1>2, <2>1
<1>9. CASE SetMessage(t)
  <2>1. /\ pc[t] = "message" /\ pc'[t] = "idle" /\ UNCHANGED err_code
        /\ err_msg' = fault[t]
        /\ results' = (results \cup {fault[t]}) \cap {err_code', err_msg'}
    BY <1>1, <1>9 DEF SetMessage, Return, Told
  <2> QED
    BY <1>2, <2>1
<1> QED
  BY <1>3, <1>4, <1>5, <1>6, <1>7, <1>8, <1>9 DEF Moves

(* Each half of the last error is the result of a call that was in progress *)
(* when the connection was last busy, however those calls ran together.     *)
THEOREM LastError == Spec => []ErrorsAreRecent
<1>1. Init => ErrorIsAccounted
  BY DEF Init, ErrorIsAccounted, CodeIsAccounted, MessageIsAccounted
<1>2. Shapes /\ ErrorIsAccounted /\ [Next]_vars => ErrorIsAccounted'
  <2>1. UNCHANGED vars /\ ErrorIsAccounted => ErrorIsAccounted'
    BY DEF vars, thread, error, ErrorIsAccounted, CodeIsAccounted, MessageIsAccounted
  <2> QED
    BY <2>1, ErrorStep DEF Next, Moves
<1>3. ErrorIsAccounted => ErrorsAreRecent
  BY DEF ErrorIsAccounted, CodeIsAccounted, MessageIsAccounted, ErrorsAreRecent
<1> QED
  BY <1>1, <1>2, <1>3, InitShapes, ShapesStep, PTL DEF Spec

LEMMA RunsStep ==
  ASSUME Shapes, RunShowsInRows, NEW t \in Threads, Moves(t)
  PROVE  RunShowsInRows'
<1>1. /\ Only(t) /\ ShapeOf(t) /\ t \in DOMAIN pc /\ t \in DOMAIN handle /\ t \in DOMAIN runs
      /\ t \in DOMAIN call
      /\ \A u \in Threads : u # t => /\ pc'[u] = pc[u] /\ call'[u] = call[u]
                                    /\ handle'[u] = handle[u]
      /\ runs = [u \in Threads |-> runs[u]]
  BY OnlySelf, ShapesParts DEF Parts, Only, RunShowsInRows
<1> DEFINE Right(u) == /\ runs[u] \in {0, 1}
                       /\ runs[u] = 1 => handle[u].rows # None
                       /\ pc[u] = "lock" /\ call[u].kind = "step" => handle[u].rows = None
<1>2. ASSUME runs' = [runs EXCEPT ![t] = runs'[t]], Right(t)'
      PROVE  RunShowsInRows'
  BY <1>1, <1>2 DEF RunShowsInRows
<1>3. Right(t) /\ runs = [runs EXCEPT ![t] = runs[t]]
  BY <1>1 DEF RunShowsInRows
<1>4. CASE UNCHANGED <<handle, runs>> /\ (pc'[t] = "lock" => call'[t].kind # "step")
  BY <1>2, <1>3, <1>4
<1>5. CASE prepare_v2(t) \/ step(t) \/ exec_sql(t)
  BY <1>1, <1>4, <1>5 DEF prepare_v2, step, exec_sql, Begin, statement
<1>6. CASE ClearMessage(t)
  <2>1. CASE UNCHANGED statement
    <3>1. /\ UNCHANGED <<handle, runs>>
          /\ pc'[t] = "lock" => /\ call'[t] = call[t]
                                /\ call[t].kind = "step" => handle[t].rows = None
      BY <1>1, <1>6, <2>1 DEF ClearMessage, statement, Fail, Return
    <3> QED
      BY <1>2, <1>3, <3>1
  <2>2. CASE /\ Return(t, OK) /\ UNCHANGED runs /\ call[t].kind = "step"
             /\ handle[t].rows # None /\ handle' = [handle EXCEPT ![t] = HandOut(@)]
    <3>1. IsHandle(handle[t])
      BY <1>1, <2>2 DEF ShapeOf
    <3>2. handle'[t].rows = handle[t].rows /\ pc'[t] = "idle"
      BY <1>1, <2>2, <3>1, HandOutKeeps DEF Return
    <3>3. runs' = [runs EXCEPT ![t] = runs'[t]] /\ runs'[t] = runs[t]
      BY <1>3, <2>2
    <3> QED
      BY <1>2, <1>3, <2>2, <3>2, <3>3
  <2> QED
    BY <1>6, <2>1, <2>2 DEF ClearMessage
<1>7. CASE /\ PrepareFails(t) \/ StepFails(t) \/ ExecFails(t) \/ ExecStatement(t)
              \/ CallbackReturns(t) \/ CallbackAborts(t) \/ SetCode(t) \/ SetMessage(t)
  <2>1. /\ UNCHANGED <<handle, runs>>
        /\ pc'[t] = "lock" => call'[t].kind # "step"
    <3>1. CASE ExecStatement(t) \/ CallbackReturns(t)
      <4>1. call[t].kind = "exec" /\ IsCall(call[t])
        BY <1>1, <3>1 DEF ExecStatement, CallbackReturns, Locks, ShapeOf
      <4>2. pc'[t] = "lock" =>
              call'[t] = [call[t] EXCEPT !.rest = Tail(call[t].rest), !.rows = <<>>]
        BY <1>1, <3>1 DEF ExecStatement, CallbackReturns, ExecGoesOn, Return
      <4>3. pc'[t] = "lock" => call'[t].kind = "exec"
        BY <4>1, <4>2 DEF IsCall
      <4> QED
        BY <3>1, <4>3 DEF ExecStatement, CallbackReturns, statement
    <3>2. CASE ~(ExecStatement(t) \/ CallbackReturns(t))
      BY <1>1, <1>7, <3>2 DEF PrepareFails, StepFails, ExecFails, CallbackAborts, FailHolding,
         Fail, SetCode, SetMessage, Return, statement
    <3> QED
      BY <3>1, <3>2
  <2> QED
    BY <1>4, <2>1
<1>8. CASE Prepare(t) \/ finalize(t) \/ reset(t)
  <2>1. /\ runs' = [runs EXCEPT ![t] = 0] /\ pc'[t] = "idle"
    BY <1>1, <1>8 DEF Prepare, finalize, reset, Return, thread
  <2> QED
    BY <1>1, <1>2, <2>1
(* The first step since the reset: the rows were None, so runs was zero.    *)
<1>9. CASE Execute(t)
  <2>1. handle[t].rows = None /\ runs[t] = 0 /\ IsHandle(handle[t])
    BY <1>1, <1>3, <1>9 DEF Execute, Locks, ShapeOf
  <2> DEFINE rows == Some(Run(handle[t].stmt, schema).rows)
             h == [handle[t] EXCEPT !.rows = rows, !.row_idx = 0]
  <2>2. IsHandle(h) /\ h.rows = rows
    <3> HIDE DEF rows
    <3> QED
      BY <2>1, FreshRows
  <2>3. handle'[t] = HandOut(h) /\ runs' = [runs EXCEPT ![t] = @ + 1] /\ pc'[t] = "idle"
    BY <1>1, <1>9 DEF Execute, Return
  <2>4. rows # None
    BY DEF Some, None
  <2> HIDE DEF rows, h
  <2>5. handle'[t].rows # None
    BY <2>2, <2>3, <2>4, HandOutKeeps
  <2> QED
    BY <1>1, <1>2, <2>1, <2>3, <2>5
<1> QED
  BY <1>5, <1>6, <1>7, <1>8, <1>9 DEF Moves

LEMMA RunsHold == Spec => [](Shapes /\ RunShowsInRows)
<1>1. Init => RunShowsInRows
  BY DEF Init, RunShowsInRows
<1>2. Shapes /\ RunShowsInRows /\ [Next]_vars => RunShowsInRows'
  <2>1. UNCHANGED vars /\ RunShowsInRows => RunShowsInRows'
    BY DEF vars, thread, statement, RunShowsInRows
  <2> QED
    BY <2>1, RunsStep DEF Next, Moves
<1> QED
  BY <1>1, <1>2, InitShapes, ShapesStep, PTL DEF Spec

(* A statement has its effect at most once between two resets, however many *)
(* threads and calls there are and whatever fails in between.               *)
THEOREM OneEffect == Spec => []OneEffectPerReset
<1>1. RunShowsInRows => OneEffectPerReset
  BY DEF RunShowsInRows, OneEffectPerReset
<1> QED
  BY <1>1, RunsHold, PTL

-----------------------------------------------------------------------------
(* The rows of a statement.                                                 *)

Texts == UNION {Range(script) : script \in Scripts}
IsScript(sql) == sql \in Seq(Texts) /\ sql # <<>>

\* what a call holds on its way through the mutex
CallRight(t) ==
  LET c == call[t] IN
  /\ c.kind = "prepare" =>
       /\ pc[t] = "clear" => c.sql \in Prepared \cup {Garbage, Blank}
       /\ pc[t] = "lock" => c.sql \in Prepared
  /\ c.kind = "exec" =>
       /\ pc[t] = "clear" => c.rest = Garbage \/ IsScript(c.rest)
       /\ pc[t] \in {"lock", "callback"} => IsScript(c.rest)
       /\ pc[t] = "callback" => /\ c.rows \in Seq(Seq(Values)) /\ c.rows # <<>>
                                /\ \A i \in DOMAIN c.rows : Len(c.rows[i]) = Len(c.columns)

\* the rows given are the first of those that the statement denoted when it ran
Handing(h, g, a) ==
  /\ h.stmt \in Prepared
  /\ a \in Seq(Seq(Values)) /\ g \in Seq(Seq(Values))
  /\ IsSelect(h.stmt) /\ ~h.stmt.all =>
       h.columns = h.stmt.columns /\ \A i \in DOMAIN a : Len(a[i]) = Len(h.columns)
  /\ h.rows = None => g = <<>> /\ a = <<>>
  /\ h.rows # None =>
       /\ h.rows = Some(a)
       /\ h.row_idx \in 0 .. Len(a) /\ Len(g) = h.row_idx
       /\ \A i \in 1 .. h.row_idx : g[i] = a[i]

HandleRight(h, g, a) ==
  /\ Handing(h, g, a)
  /\ h.rows # None /\ h.current_row = 0 => h.row_idx = Len(a)

(* The schema is sound, each call holds statements, and each statement has  *)
(* handed out the first rows of its answer.                                 *)
RowsInv ==
  /\ IsSchema(schema) /\ Rectangular(schema)
  /\ given = [t \in Threads |-> given[t]] /\ answer = [t \in Threads |-> answer[t]]
  /\ \A t \in Threads :
       /\ CallRight(t)
       /\ handle[t] # NoStmt => HandleRight(handle[t], given[t], answer[t])

LEMMA HandOutRight ==
  ASSUME NEW h, IsHandle(h), NEW g, NEW a, Handing(h, g, a), h.rows # None
  PROVE  HandleRight(HandOut(h), g \o Handed(HandOut(h)), a)
<1> DEFINE k == HandOut(h)
           n == h.row_idx
<1>1. /\ h.rows = Some(a) /\ h.rows[1] = a
      /\ a \in Seq(Seq(Values)) /\ g \in Seq(Seq(Values)) /\ Len(a) \in Nat
      /\ n \in 0 .. Len(a) /\ Len(g) = n
      /\ \A i \in 1 .. n : g[i] = a[i]
  BY LenProperties DEF Handing, Some
<1>2. k.stmt = h.stmt /\ k.columns = h.columns /\ k.rows = h.rows
  BY DEF HandOut, IsHandle
<1>3. CASE n < Len(a)
  <2>1. k.current_row = n + 1 /\ k.row_idx = n + 1
    BY <1>1, <1>3 DEF HandOut, IsHandle
  <2>2. a[n + 1] \in Seq(Values)
    BY <1>1, <1>3, ElementOfSeq
  <2>3. Handed(k) = <<a[n + 1]>>
    BY <1>1, <1>2, <2>1 DEF Handed
  <2> DEFINE new == g \o Handed(k)
  <2>4. /\ new \in Seq(Seq(Values)) /\ Len(new) = n + 1
        /\ \A i \in 1 .. n : new[i] = g[i]
        /\ new[n + 1] = a[n + 1]
    BY <1>1, <2>2, <2>3, SMTT(30)
  <2> HIDE DEF k, new
  <2>5. \A i \in 1 .. n + 1 : new[i] = a[i]
    <3>1. \A i \in 1 .. n + 1 : i \in 1 .. n \/ i = n + 1
      BY <1>1
    <3> QED
      BY <1>1, <2>4, <3>1
  <2>6. n + 1 \in 0 .. Len(a) /\ n + 1 # 0
    BY <1>1, <1>3
  <2>7. Handing(k, new, a)
    BY <1>1, <1>2, <2>1, <2>4, <2>5, <2>6 DEF Handing
  <2>8. HandleRight(k, new, a)
    BY <2>1, <2>6, <2>7 DEF HandleRight
  <2> QED
    BY <2>8 DEF k, new
<1>4. CASE ~(n < Len(a))
  <2>1. k.current_row = 0 /\ k.row_idx = n /\ n = Len(a)
    BY <1>1, <1>4 DEF HandOut, IsHandle
  <2>2. g \o Handed(k) = g
    BY <1>1, <2>1 DEF Handed
  <2> HIDE DEF k
  <2>3. Handing(k, g, a)
    BY <1>1, <1>2, <2>1 DEF Handing
  <2>4. HandleRight(k, g, a)
    BY <2>1, <2>3 DEF HandleRight
  <2> QED
    BY <2>2, <2>4 DEF k
<1> QED
  BY <1>3, <1>4

(* The first step since the reset.                                          *)
LEMMA FreshRight ==
  ASSUME NEW h, IsHandle(h), h.stmt \in Prepared, NEW a \in Seq(Seq(Values)),
         IsSelect(h.stmt) /\ ~h.stmt.all =>
           h.columns = h.stmt.columns /\ \A i \in DOMAIN a : Len(a[i]) = Len(h.columns)
  PROVE  LET k == HandOut([h EXCEPT !.rows = Some(a), !.row_idx = 0])
         IN HandleRight(k, Handed(k), a)
<1> DEFINE f == [h EXCEPT !.rows = Some(a), !.row_idx = 0]
           k == HandOut(f)
<1>1. /\ IsHandle(f) /\ f.rows = Some(a) /\ f.row_idx = 0
      /\ f.stmt = h.stmt /\ f.columns = h.columns
  <2>1. \A r : LET q == [h EXCEPT !.rows = r, !.row_idx = 0]
               IN /\ IsHandle(q) /\ q.rows = r /\ q.row_idx = 0
                  /\ q.stmt = h.stmt /\ q.columns = h.columns
    BY DEF IsHandle
  <2> QED
    BY <2>1
<1>2. Some(a) # None
  BY DEF Some, None
<1> HIDE DEF f
<1>3. Handing(f, <<>>, a)
  <2>1. Len(a) \in Nat /\ 0 \in 0 .. Len(a)
    BY LenProperties
  <2> QED
    BY <1>1, <1>2, <2>1 DEF Handing
<1>4. HandleRight(k, <<>> \o Handed(k), a)
  BY <1>1, <1>2, <1>3, HandOutRight
<1>5. <<>> \o Handed(k) = Handed(k)
  BY DEF Handed
<1> HIDE DEF k
<1>6. HandleRight(k, Handed(k), a)
  BY <1>4, <1>5
<1> QED
  BY <1>6 DEF f, k

(* A statement that step or exec runs: what it leaves, what it answers.     *)
LEMMA RunsSoundly ==
  ASSUME RowsInv, NEW stmt, IsStatement(stmt), Valid(stmt, schema)
  PROVE  LET result == Run(stmt, schema) IN
         /\ IsSchema(result.schema) /\ Rectangular(result.schema)
         /\ result.rows \in Seq(Seq(Values))
         /\ Expected(stmt, result.rows) = result.rows
         /\ result.rows # <<>> => IsSelect(stmt)
         /\ IsSelect(stmt) =>
              \A i \in DOMAIN result.rows : Len(result.rows[i]) = Len(get_result_columns(stmt))
         /\ IsSelect(stmt) /\ ~stmt.all => get_result_columns(stmt) = stmt.columns
<1> DEFINE result == Run(stmt, schema)
<1>1. Sound(stmt, schema)
  BY DEF RowsInv, Sound
<1>2. /\ IsSchema(result.schema) /\ Rectangular(result.schema)
      /\ result.rows \in Seq(Seq(Values))
      /\ IsSelect(stmt) /\ ~OverNothing(stmt, schema) => result.rows = Denoted(stmt, schema)
      /\ ~IsSelect(stmt) => result.rows = <<>>
      /\ IsSelect(stmt) =>
           \A i \in DOMAIN result.rows :
             Len(result.rows[i]) = Len(Emitted(stmt, schema[stmt.from].columns))
  BY <1>1, RunIsExact
<1> HIDE DEF result
<1>3. Expected(stmt, result.rows) = result.rows
  BY <1>2 DEF Expected
<1>4. ASSUME IsSelect(stmt)
      PROVE  /\ Len(get_result_columns(stmt)) = Len(Emitted(stmt, schema[stmt.from].columns))
             /\ ~stmt.all => get_result_columns(stmt) = stmt.columns
  <2>1. stmt.from \in DOMAIN schema
    BY <1>1, <1>4 DEF Sound, Valid, Compiles, SelectCompiles, IsSelect
  <2> DEFINE columns == schema[stmt.from].columns
  <2>2. Len(columns) \in Nat /\ DOMAIN columns = 1 .. Len(columns)
    BY <1>1, <1>4, SelectFacts
  <2>3. stmt.columns \in Seq(Names)
    BY <1>1, <1>4 DEF Sound, IsStatement, IsSelect
  <2>4. Len(stmt.columns) \in Nat /\ DOMAIN stmt.columns = 1 .. Len(stmt.columns)
    BY <2>3, LenProperties
  <2> HIDE DEF columns
  <2>5. CASE stmt.all
    <3>1. get_result_columns(stmt) = columns
      BY <1>4, <2>1, <2>5 DEF get_result_columns, columns
    <3>2. Emitted(stmt, columns) = [i \in 1 .. Len(columns) |-> i]
      BY <2>2, <2>5 DEF Emitted
    <3>3. Len(Emitted(stmt, columns)) = Len(columns)
      BY <2>2, <3>2
    <3> QED
      BY <2>5, <3>1, <3>3 DEF columns
  <2>6. CASE ~stmt.all
    <3>1. get_result_columns(stmt) = stmt.columns
      BY <1>4, <2>6 DEF get_result_columns
    <3>2. Emitted(stmt, columns)
            = [i \in 1 .. Len(stmt.columns) |-> Position(columns, stmt.columns[i])]
      BY <2>4, <2>6 DEF Emitted
    <3>3. Len(Emitted(stmt, columns)) = Len(stmt.columns)
      BY <2>4, <3>2
    <3> QED
      BY <3>1, <3>3 DEF columns
  <2> QED
    BY <2>5, <2>6
<1> QED
  BY <1>2, <1>3, <1>4 DEF result

LEMMA ScriptParts ==
  ASSUME NEW sql, IsScript(sql)
  PROVE  IsStatement(Head(sql)) /\ (Tail(sql) # <<>> => IsScript(Tail(sql)))
<1>1. sql \in Seq(Texts) /\ sql # <<>>
  BY DEF IsScript
<1>2. Head(sql) \in Texts /\ Tail(sql) \in Seq(Texts)
  BY <1>1, HeadTailProperties
<1>3. \A stmt \in Texts : IsStatement(stmt)
  BY SessionAssumption DEF Texts
<1> QED
  BY <1>2, <1>3 DEF IsScript

LEMMA ScriptsAreTexts ==
  ASSUME NEW script \in Scripts
  PROVE  IsScript(script)
<1>1. script \in Seq(Range(script)) /\ script # <<>>
  BY SessionAssumption
<1>2. Range(script) \subseteq Texts
  BY DEF Texts
<1> HIDE DEF Texts
<1>3. script \in Seq(Texts)
  <2>1. Len(script) \in Nat /\ script \in [1 .. Len(script) -> Range(script)]
    BY <1>1, LenProperties
  <2>2. script \in [1 .. Len(script) -> Texts]
    BY <1>2, <2>1
  <2> QED
    BY <2>1, <2>2, SeqDef
<1> QED
  BY <1>1, <1>3 DEF IsScript

(* Only a statement that runs changes the schema.                           *)
LEMMA SchemaStep ==
  ASSUME Shapes, RowsInv, NEW t \in Threads, Moves(t)
  PROVE  IsSchema(schema') /\ Rectangular(schema')
<1>1. IsSchema(schema) /\ Rectangular(schema) /\ CallRight(t)
      /\ (handle[t] # NoStmt => HandleRight(handle[t], given[t], answer[t]))
      /\ ShapeOf(t)
  BY ShapesParts DEF RowsInv, Parts
<1>2. CASE Execute(t)
  <2>1. handle[t].stmt \in Prepared
    BY <1>1, <1>2 DEF Execute, Locks, ShapeOf, HandleRight, Handing
  <2>2. IsStatement(handle[t].stmt) /\ Valid(handle[t].stmt, schema)
    BY <1>2, <2>1, SessionAssumption DEF Execute, Ready
  <2> QED
    BY <1>2, <2>2, RunsSoundly DEF Execute
<1>3. CASE ExecStatement(t)
  <2>1. IsScript(call[t].rest)
    BY <1>1, <1>3 DEF ExecStatement, Locks, CallRight
  <2>2. IsStatement(Head(call[t].rest)) /\ Valid(Head(call[t].rest), schema)
    BY <1>3, <2>1, ScriptParts DEF ExecStatement
  <2> QED
    BY <1>3, <2>2, RunsSoundly DEF ExecStatement
<1>4. CASE UNCHANGED schema
  BY <1>1, <1>4
<1> QED
  BY <1>2, <1>3, <1>4 DEF Moves, prepare_v2, step, exec_sql, Begin, ClearMessage, PrepareFails,
     Prepare, StepFails, ExecFails, CallbackReturns, CallbackAborts, SetCode, SetMessage,
     finalize, reset

LEMMA CallStep ==
  ASSUME Shapes, RowsInv, NEW t \in Threads, Moves(t)
  PROVE  CallRight(t)'
<1>1. /\ CallRight(t) /\ ShapeOf(t) /\ t \in DOMAIN pc /\ t \in DOMAIN call
  BY ShapesParts DEF RowsInv, Parts
<1>2. CASE call'[t].kind \in {"none", "step"}
  BY <1>2 DEF CallRight
<1>3. CASE Return(t, OK) \/ Return(t, fault[t])
  BY <1>1, <1>2, <1>3 DEF Return, Idle
<1>4. CASE UNCHANGED call /\ pc'[t] \notin {"clear", "lock", "callback"}
  BY <1>4 DEF CallRight
<1>5. CASE UNCHANGED <<call, pc>>
  BY <1>1, <1>5 DEF CallRight
<1>6. CASE prepare_v2(t) \/ step(t) \/ exec_sql(t)
  <2>1. pc'[t] = "clear"
    BY <1>1, <1>6 DEF prepare_v2, step, exec_sql, Begin
  <2>2. CASE prepare_v2(t)
    <3>1. call'[t].kind = "prepare" /\ call'[t].sql \in Prepared \cup {Garbage, Blank}
      BY <1>1, <2>2 DEF prepare_v2, Begin
    <3> QED
      BY <2>1, <3>1 DEF CallRight
  <2>3. CASE step(t)
    BY <1>1, <1>2, <2>3 DEF step, Begin
  <2>4. CASE exec_sql(t)
    <3>1. PICK sql \in Scripts \cup {Garbage} :
            call'[t] = [kind |-> "exec", rest |-> sql, rows |-> <<>>, columns |-> <<>>]
      BY <1>1, <2>4 DEF exec_sql, Begin
    <3>2. call'[t].kind = "exec" /\ call'[t].rest = sql
      BY <3>1
    <3>3. sql = Garbage \/ IsScript(sql)
      BY ScriptsAreTexts
    <3> QED
      BY <2>1, <3>2, <3>3 DEF CallRight
  <2> QED
    BY <1>6, <2>2, <2>3, <2>4
<1>7. CASE ClearMessage(t)
  <2>1. CASE Fail(t, ERROR)
    BY <1>1, <1>4, <2>1 DEF Fail
  <2>2. CASE Return(t, OK)
    BY <1>3, <2>2
  <2>3. CASE /\ ~Unparsable(call[t]) /\ ~(call[t].kind = "prepare" /\ call[t].sql = Blank)
             /\ pc' = [pc EXCEPT ![t] = "lock"] /\ UNCHANGED call
    <3>1. pc[t] = "clear" /\ pc'[t] = "lock"
      BY <1>1, <1>7, <2>3 DEF ClearMessage
    <3>2. /\ call[t].kind = "prepare" => call[t].sql \in Prepared
          /\ call[t].kind = "exec" => IsScript(call[t].rest)
      BY <1>1, <2>3, <3>1 DEF CallRight, Unparsable
    <3> QED
      BY <2>3, <3>1, <3>2 DEF CallRight
  <2> QED
    BY <1>7, <2>1, <2>2, <2>3 DEF ClearMessage
<1>8. CASE PrepareFails(t) \/ StepFails(t) \/ ExecFails(t) \/ CallbackAborts(t)
  BY <1>1, <1>4, <1>8 DEF PrepareFails, StepFails, ExecFails, CallbackAborts, FailHolding, Fail
<1>9. CASE Prepare(t) \/ Execute(t)
  BY <1>3, <1>9 DEF Prepare, Execute
<1>10. CASE SetCode(t)
  BY <1>1, <1>4, <1>10 DEF SetCode
<1>11. CASE SetMessage(t)
  BY <1>3, <1>11 DEF SetMessage
<1>12. CASE finalize(t) \/ reset(t)
  BY <1>5, <1>12 DEF finalize, reset, thread
(* Another statement of the script, or another row.                         *)
<1>13. CASE ExecStatement(t) \/ CallbackReturns(t)
  <2>1. /\ call[t].kind = "exec" /\ IsCall(call[t]) /\ IsScript(call[t].rest)
        /\ pc[t] \in {"lock", "callback"}
    BY <1>1, <1>13 DEF ExecStatement, CallbackReturns, Locks, CallRight, ShapeOf
  <2>2. CASE ExecGoesOn(t)
    <3>1. CASE Return(t, OK)
      BY <1>3, <3>1
    <3>2. CASE /\ Tail(call[t].rest) # <<>>
               /\ pc' = [pc EXCEPT ![t] = "lock"]
               /\ call' = [call EXCEPT ![t].rest = Tail(@), ![t].rows = <<>>]
      <4>1. /\ call'[t] = [call[t] EXCEPT !.rest = Tail(call[t].rest), !.rows = <<>>]
            /\ pc'[t] = "lock"
        BY <1>1, <3>2
      <4>2. call'[t].kind = "exec" /\ call'[t].rest = Tail(call[t].rest)
        BY <2>1, <4>1 DEF IsCall
      <4>3. IsScript(Tail(call[t].rest))
        BY <2>1, <3>2, ScriptParts
      <4> QED
        BY <4>1, <4>2, <4>3 DEF CallRight
    <3> QED
      BY <2>2, <3>1, <3>2 DEF ExecGoesOn
  <2>3. CASE ExecStatement(t) /\ ~ExecGoesOn(t)
    <3> DEFINE stmt == Head(call[t].rest)
               result == Run(stmt, schema)
    <3>1. /\ pc' = [pc EXCEPT ![t] = "callback"] /\ result.rows # <<>>
          /\ call' = [call EXCEPT ![t].rows = result.rows,
                                  ![t].columns = get_result_columns(stmt)]
      BY <2>3 DEF ExecStatement
    <3>2. IsStatement(stmt) /\ Valid(stmt, schema)
      BY <2>1, <2>3, ScriptParts DEF ExecStatement
    <3>3. /\ result.rows \in Seq(Seq(Values))
          /\ result.rows # <<>> => IsSelect(stmt)
          /\ IsSelect(stmt) =>
               \A i \in DOMAIN result.rows : Len(result.rows[i]) = Len(get_result_columns(stmt))
      BY <3>2, RunsSoundly
    <3> HIDE DEF result, stmt
    <3>4. /\ call'[t] = [call[t] EXCEPT !.rows = result.rows,
                                        !.columns = get_result_columns(stmt)]
          /\ pc'[t] = "callback"
      BY <1>1, <3>1
    <3>5. /\ call'[t].kind = "exec" /\ call'[t].rest = call[t].rest
          /\ call'[t].rows = result.rows /\ call'[t].columns = get_result_columns(stmt)
      BY <2>1, <3>4 DEF IsCall
    <3> QED
      BY <2>1, <3>1, <3>3, <3>4, <3>5 DEF CallRight
  <2>4. CASE CallbackReturns(t) /\ ~ExecGoesOn(t)
    <3> DEFINE rows == call[t].rows
    <3>1. /\ Tail(rows) # <<>> /\ pc' = pc
          /\ call' = [call EXCEPT ![t].rows = Tail(rows)] /\ pc[t] = "callback"
      BY <2>4 DEF CallbackReturns
    <3>2. /\ rows \in Seq(Seq(Values))
          /\ \A i \in DOMAIN rows : Len(rows[i]) = Len(call[t].columns)
      BY <1>1, <2>1, <3>1 DEF CallRight
    <3> HIDE DEF rows
    <3>3. /\ Tail(rows) \in Seq(Seq(Values))
          /\ \A i \in DOMAIN Tail(rows) : Len(Tail(rows)[i]) = Len(call[t].columns)
      <4>1. CASE rows = <<>>
        BY <3>1, <4>1
      <4>2. CASE rows # <<>>
        <5>1. /\ Tail(rows) \in Seq(Seq(Values)) /\ Len(Tail(rows)) = Len(rows) - 1
              /\ \A i \in 1 .. Len(Tail(rows)) : Tail(rows)[i] = rows[i + 1]
          BY <3>2, <4>2, HeadTailProperties
        <5>2. DOMAIN Tail(rows) = 1 .. Len(Tail(rows)) /\ DOMAIN rows = 1 .. Len(rows)
              /\ Len(rows) \in Nat
          BY <3>2, <5>1, LenProperties
        <5>3. \A i \in 1 .. Len(rows) - 1 : i + 1 \in 1 .. Len(rows)
          BY <5>2
        <5> QED
          BY <3>2, <5>1, <5>2, <5>3
      <4> QED
        BY <4>1, <4>2
    <3>4. call'[t] = [call[t] EXCEPT !.rows = Tail(rows)] /\ pc'[t] = "callback"
      BY <1>1, <3>1
    <3>5. /\ call'[t].kind = "exec" /\ call'[t].rest = call[t].rest
          /\ call'[t].rows = Tail(rows) /\ call'[t].columns = call[t].columns
      BY <2>1, <3>4 DEF IsCall
    <3> QED
      BY <2>1, <3>1, <3>3, <3>4, <3>5 DEF CallRight
  <2> QED
    BY <1>13, <2>2, <2>3, <2>4
<1> QED
  BY <1>6, <1>7, <1>8, <1>9, <1>10, <1>11, <1>12, <1>13 DEF Moves

LEMMA HandleStep ==
  ASSUME Shapes, RowsInv, NEW t \in Threads, Moves(t)
  PROVE  /\ given' = [given EXCEPT ![t] = given'[t]]
         /\ answer' = [answer EXCEPT ![t] = answer'[t]]
         /\ handle'[t] # NoStmt => HandleRight(handle'[t], given'[t], answer'[t])
<1>1. /\ CallRight(t) /\ ShapeOf(t) /\ t \in DOMAIN handle /\ t \in DOMAIN given
      /\ t \in DOMAIN answer
      /\ handle[t] # NoStmt => HandleRight(handle[t], given[t], answer[t])
      /\ given = [given EXCEPT ![t] = given[t]] /\ answer = [answer EXCEPT ![t] = answer[t]]
  BY ShapesParts DEF RowsInv, Parts
<1>2. CASE UNCHANGED <<handle, given, answer>>
  BY <1>1, <1>2
<1>3. CASE prepare_v2(t) \/ step(t) \/ exec_sql(t)
  BY <1>2, <1>3 DEF prepare_v2, step, exec_sql, Begin, statement
<1>4. CASE ClearMessage(t)
  <2>1. CASE UNCHANGED statement
    BY <1>2, <2>1 DEF statement
  <2>2. CASE /\ call[t].kind = "step" /\ handle[t].rows # None
             /\ handle' = [handle EXCEPT ![t] = HandOut(@)]
             /\ given' = [given EXCEPT ![t] = @ \o Handed(handle'[t])]
             /\ UNCHANGED answer
    <3>1. handle[t] # NoStmt /\ IsHandle(handle[t])
          /\ Handing(handle[t], given[t], answer[t])
      BY <1>1, <2>2 DEF ShapeOf, HandleRight
    <3>2. handle'[t] = HandOut(handle[t]) /\ given'[t] = given[t] \o Handed(HandOut(handle[t]))
      BY <1>1, <2>2
    <3>3. HandleRight(handle'[t], given'[t], answer[t])
      BY <2>2, <3>1, <3>2, HandOutRight
    <3> QED
      BY <1>1, <2>2, <3>3
  <2> QED
    BY <1>4, <2>1, <2>2 DEF ClearMessage
<1>5. CASE /\ PrepareFails(t) \/ StepFails(t) \/ ExecFails(t) \/ ExecStatement(t)
              \/ CallbackReturns(t) \/ CallbackAborts(t) \/ SetCode(t) \/ SetMessage(t)
  BY <1>2, <1>5 DEF PrepareFails, StepFails, ExecFails, ExecStatement, CallbackReturns,
     CallbackAborts, SetCode, SetMessage, statement
<1>6. CASE Prepare(t)
  <2> DEFINE sql == call[t].sql
  <2>1. sql \in Prepared
    BY <1>1, <1>6 DEF Prepare, Locks, CallRight
  <2>2. handle'[t] = NewStmt(sql) /\ given'[t] = <<>> /\ answer'[t] = <<>>
    BY <1>1, <1>6 DEF Prepare
  <2> HIDE DEF sql
  <2>3. /\ NewStmt(sql).stmt = sql /\ NewStmt(sql).rows = None
        /\ NewStmt(sql).columns = get_result_columns(sql)
    BY DEF NewStmt
  <2>4. IsSelect(sql) /\ ~sql.all => get_result_columns(sql) = sql.columns
    BY DEF get_result_columns
  <2>5. Handing(NewStmt(sql), <<>>, <<>>)
    BY <2>1, <2>3, <2>4 DEF Handing
  <2>6. HandleRight(NewStmt(sql), <<>>, <<>>)
    BY <2>3, <2>5 DEF HandleRight
  <2> QED
    BY <1>1, <1>6, <2>2, <2>6 DEF Prepare
<1>7. CASE Execute(t)
  <2> DEFINE h == handle[t]
             stmt == h.stmt
             rows == Run(stmt, schema).rows
  <2>1. handle[t] # NoStmt /\ IsHandle(h) /\ Handing(h, given[t], answer[t])
    BY <1>1, <1>7 DEF Execute, Locks, ShapeOf, HandleRight
  <2>2. stmt \in Prepared /\ IsStatement(stmt) /\ Valid(stmt, schema)
    BY <1>7, <2>1, SessionAssumption DEF Execute, Ready, Handing
  <2>3. /\ rows \in Seq(Seq(Values)) /\ Expected(stmt, rows) = rows
        /\ IsSelect(stmt) =>
             \A i \in DOMAIN rows : Len(rows[i]) = Len(get_result_columns(stmt))
        /\ IsSelect(stmt) /\ ~stmt.all => get_result_columns(stmt) = stmt.columns
    BY <2>2, RunsSoundly
  <2>4. /\ handle'[t] = HandOut([h EXCEPT !.rows = Some(rows), !.row_idx = 0])
        /\ given'[t] = Handed(handle'[t])
        /\ answer'[t] = rows
    BY <1>1, <1>7, <2>3 DEF Execute
  <2>5. IsSelect(stmt) /\ ~stmt.all =>
          h.columns = stmt.columns /\ \A i \in DOMAIN rows : Len(rows[i]) = Len(h.columns)
    BY <2>1, <2>3 DEF Handing
  <2> HIDE DEF rows
  <2>6. HandleRight(handle'[t], given'[t], rows)
    BY <2>1, <2>2, <2>3, <2>4, <2>5, FreshRight
  <2> QED
    BY <1>1, <1>7, <2>4, <2>6 DEF Execute
<1>8. CASE finalize(t)
  BY <1>1, <1>8 DEF finalize
<1>9. CASE reset(t)
  <2> DEFINE h == handle[t]
  <2>1. handle[t] # NoStmt /\ IsHandle(h) /\ Handing(h, given[t], answer[t])
    BY <1>1, <1>9 DEF reset, ShapeOf, HandleRight
  <2>2. /\ handle'[t] = [h EXCEPT !.rows = None, !.row_idx = 0, !.current_row = 0]
        /\ given'[t] = <<>> /\ answer'[t] = <<>>
    BY <1>1, <1>9 DEF reset
  <2> HIDE DEF h
  <2>3. /\ handle'[t].stmt = h.stmt /\ handle'[t].columns = h.columns /\ handle'[t].rows = None
    BY <2>1, <2>2 DEF IsHandle
  <2>4. Handing(handle'[t], <<>>, <<>>)
    BY <2>1, <2>3 DEF Handing
  <2>5. HandleRight(handle'[t], <<>>, <<>>)
    BY <2>3, <2>4 DEF HandleRight
  <2> QED
    BY <1>1, <1>9, <2>2, <2>5 DEF reset
<1> QED
  BY <1>3, <1>4, <1>5, <1>6, <1>7, <1>8, <1>9 DEF Moves

LEMMA RowsStep ==
  ASSUME Shapes, RowsInv, [Next]_vars
  PROVE  RowsInv'
<1>1. CASE UNCHANGED vars
  BY <1>1 DEF RowsInv, CallRight, vars, thread, statement
<1>2. ASSUME NEW t \in Threads, Moves(t) PROVE RowsInv'
  <2>1. IsSchema(schema') /\ Rectangular(schema')
    BY <1>2, SchemaStep
  <2>2. CallRight(t)'
    BY <1>2, CallStep
  <2>3. /\ given' = [given EXCEPT ![t] = given'[t]] /\ answer' = [answer EXCEPT ![t] = answer'[t]]
        /\ handle'[t] # NoStmt => HandleRight(handle'[t], given'[t], answer'[t])
    BY <1>2, HandleStep
  <2>4. /\ given' = [u \in Threads |-> given'[u]] /\ answer' = [u \in Threads |-> answer'[u]]
        /\ \A u \in Threads \ {t} : given'[u] = given[u] /\ answer'[u] = answer[u]
    BY <2>3 DEF RowsInv
  <2>5. \A u \in Threads \ {t} : pc'[u] = pc[u] /\ call'[u] = call[u] /\ handle'[u] = handle[u]
    BY <1>2, OnlySelf, ShapesParts DEF Parts, Only
  <2>6. ASSUME NEW u \in Threads
        PROVE  /\ CallRight(u)'
               /\ handle'[u] # NoStmt => HandleRight(handle'[u], given'[u], answer'[u])
    <3>1. CASE u = t
      BY <2>2, <2>3, <3>1
    <3>2. CASE u # t
      <4>1. CallRight(u)'
        BY <2>5, <3>2 DEF RowsInv, CallRight
      <4>2. handle'[u] # NoStmt => HandleRight(handle'[u], given'[u], answer'[u])
        BY <2>4, <2>5, <3>2 DEF RowsInv
      <4> QED
        BY <4>1, <4>2
    <3> QED
      BY <3>1, <3>2
  <2> QED
    BY <2>1, <2>4, <2>6 DEF RowsInv
<1> QED
  BY <1>1, <1>2 DEF Next, Moves

LEMMA InitRows == Init => RowsInv
BY DEF Init, RowsInv, CallRight, Idle, IsSchema, Rectangular

LEMMA RowsHold == Spec => [](Shapes /\ RowsInv)
BY InitShapes, ShapesStep, InitRows, RowsStep, PTL DEF Spec

(* Whatever the other threads do to the table between two steps, a thread   *)
(* that steps through a SELECT is given the rows it denoted at one moment,  *)
(* in order and none twice (sqlite3_step of api.rs, SqliteStmt of           *)
(* handle.rs).                                                              *)
THEOREM OneMoment == Spec => []RowsAreOfOneMoment
<1>1. RowsInv => RowsAreOfOneMoment
  <2> SUFFICES ASSUME RowsInv, NEW t \in Threads, handle[t] # NoStmt
               PROVE  /\ IsPrefix(given[t], answer[t])
                      /\ handle[t].rows # None /\ handle[t].current_row = 0 =>
                           given[t] = answer[t]
    BY DEF RowsAreOfOneMoment
  <2> DEFINE h == handle[t]
             g == given[t]
             a == answer[t]
  <2>1. Handing(h, g, a) /\ (h.rows # None /\ h.current_row = 0 => h.row_idx = Len(a))
    BY DEF RowsInv, HandleRight
  <2> HIDE DEF h, g, a
  <2>2. /\ a \in Seq(Seq(Values)) /\ g \in Seq(Seq(Values))
        /\ Len(a) \in Nat /\ Len(g) \in Nat
        /\ g = [i \in 1 .. Len(g) |-> g[i]] /\ a = [i \in 1 .. Len(a) |-> a[i]]
    BY <2>1, LenProperties DEF Handing
  <2>3. Len(g) <= Len(a) /\ \A i \in 1 .. Len(g) : g[i] = a[i]
    <3>1. CASE h.rows = None
      BY <2>1, <3>1 DEF Handing
    <3>2. CASE h.rows # None
      BY <2>1, <2>2, <3>2 DEF Handing
    <3> QED
      BY <3>1, <3>2
  <2>4. IsPrefix(g, a)
    <3>1. SubSeq(g, 1, Len(g)) = [i \in 1 .. Len(g) |-> g[i]]
          /\ SubSeq(a, 1, Len(g)) = [i \in 1 .. Len(g) |-> a[i]]
      BY <2>2
    <3>2. SubSeq(g, 1, Len(g)) = SubSeq(a, 1, Len(g))
      BY <2>3, <3>1
    <3> QED
      BY <2>3, <3>2 DEF IsPrefix
  <2>5. ASSUME h.rows # None, h.current_row = 0
        PROVE  g = a
    <3>1. Len(g) = Len(a)
      BY <2>1, <2>5 DEF Handing
    <3>2. [i \in 1 .. Len(g) |-> g[i]] = [i \in 1 .. Len(a) |-> a[i]]
      BY <2>3, <3>1
    <3> QED
      BY <2>2, <3>2
  <2> QED
    BY <2>4, <2>5 DEF h, g, a
<1> QED
  BY <1>1, RowsHold, PTL

(* Tables stay rectangular, and rows are as wide as their names say,        *)
(* whichever thread replaced the table between a prepare and a step: in a   *)
(* callback, and in a step of a SELECT that lists its columns.  The names   *)
(* of a prepared SELECT * may be those of a table that is gone.             *)
THEOREM SoundRows == Spec => []RowsAreSound
<1>1. Shapes /\ RowsInv => RowsAreSound
  <2> SUFFICES ASSUME Shapes, RowsInv
               PROVE  RowsAreSound
    OBVIOUS
  <2>1. TypeOK /\ TablesAreRectangular
    BY DEF Shapes, RowsInv, TablesAreRectangular
  <2>2. ASSUME NEW t \in Threads
        PROVE  /\ pc[t] = "callback" =>
                    \A i \in DOMAIN call[t].rows :
                      Len(call[t].rows[i]) = Len(call[t].columns)
               /\ handle[t] # NoStmt /\ IsSelect(handle[t].stmt) /\ ~handle[t].stmt.all =>
                    \A i \in DOMAIN given[t] : Len(given[t][i]) = Len(handle[t].columns)
    <3>1. /\ CallRight(t) /\ (pc[t] = "callback" => call[t].kind = "exec")
          /\ handle[t] # NoStmt => Handing(handle[t], given[t], answer[t])
      BY DEF RowsInv, Shapes, HandleRight
    <3>2. pc[t] = "callback" =>
            \A i \in DOMAIN call[t].rows : Len(call[t].rows[i]) = Len(call[t].columns)
      BY <3>1 DEF CallRight
    <3>3. ASSUME handle[t] # NoStmt, IsSelect(handle[t].stmt), ~handle[t].stmt.all,
                 NEW i \in DOMAIN given[t]
          PROVE  Len(given[t][i]) = Len(handle[t].columns)
      <4> DEFINE h == handle[t]
                 g == given[t]
                 a == answer[t]
      <4>1. Handing(h, g, a) /\ IsSelect(h.stmt) /\ ~h.stmt.all /\ i \in DOMAIN g
        BY <3>1, <3>3
      <4> HIDE DEF h, g, a
      <4>2. /\ Len(a) \in Nat /\ DOMAIN a = 1 .. Len(a)
            /\ Len(g) \in Nat /\ DOMAIN g = 1 .. Len(g)
            /\ \A j \in DOMAIN a : Len(a[j]) = Len(h.columns)
        BY <4>1, LenProperties DEF Handing
      <4>3. h.rows # None
        BY <4>1, <4>2 DEF Handing
      <4>4. Len(g) <= Len(a) /\ g[i] = a[i]
        BY <4>1, <4>2, <4>3 DEF Handing
      <4>5. Len(g[i]) = Len(h.columns)
        BY <4>1, <4>2, <4>4
      <4> QED
        BY <4>5 DEF h, g
    <3> QED
      BY <3>2, <3>3
  <2> QED
    BY <2>1, <2>2 DEF RowsAreSound, WidthsFit
<1> QED
  BY <1>1, RowsHold, PTL

-----------------------------------------------------------------------------
(* Database, which the calls implement.                                     *)

(* Every statement is a SqliteStmt, and so none of them is a null one.      *)
HandlesTyped == \A t \in Threads : handle[t] # NoStmt => handle[t] \in Handles

(* HandOut and get_result_columns keep to the types of a SqliteStmt.        *)
LEMMA HandOutTyped ==
  ASSUME NEW h \in Handles
  PROVE  HandOut(h) \in Handles
<1>1. h.row_idx \in Nat /\ h.row_idx + 1 \in Nat /\ 0 \in Nat
  BY DEF Handles
<1>2. \A n, k \in Nat : /\ [h EXCEPT !.current_row = n, !.row_idx = k] \in Handles
                        /\ [h EXCEPT !.current_row = n] \in Handles
  BY DEF Handles
<1> QED
  BY <1>1, <1>2 DEF HandOut

LEMMA ResultColumns ==
  ASSUME IsSchema(schema), NEW stmt, IsStatement(stmt)
  PROVE  get_result_columns(stmt) \in Seq(Names)
BY DEF get_result_columns, IsSchema, IsStatement, IsSelect

LEMMA StatementTyped ==
  ASSUME Shapes, RowsInv, HandlesTyped, NEW t \in Threads,
         Prepare(t) \/ Execute(t) \/ reset(t)
  PROVE  handle'[t] \in Handles
<1>1. /\ CallRight(t) /\ ShapeOf(t) /\ t \in DOMAIN handle
      /\ handle[t] # NoStmt =>
           HandleRight(handle[t], given[t], answer[t]) /\ handle[t] \in Handles
      /\ IsSchema(schema)
  BY ShapesParts DEF RowsInv, Parts, HandlesTyped
<1>2. CASE Prepare(t)
  <2>1. call[t].sql \in Prepared /\ handle'[t] = NewStmt(call[t].sql)
    BY <1>1, <1>2 DEF Prepare, Locks, CallRight
  <2>2. get_result_columns(call[t].sql) \in Seq(Names)
    BY <1>1, <2>1, ResultColumns, SessionAssumption
  <2> QED
    BY <2>1, <2>2 DEF NewStmt, Handles, None
<1>3. CASE Execute(t)
  <2> DEFINE rows == Run(handle[t].stmt, schema).rows
             h == [handle[t] EXCEPT !.rows = Some(rows), !.row_idx = 0]
  <2>1. handle[t] \in Handles /\ handle[t].stmt \in Prepared
    BY <1>1, <1>3 DEF Execute, Locks, ShapeOf, HandleRight, Handing
  <2>2. rows \in Seq(Seq(Values))
    BY <1>3, <2>1, RunsSoundly, SessionAssumption DEF Execute, Ready
  <2>3. handle'[t] = HandOut(h)
    BY <1>1, <1>3 DEF Execute
  <2> HIDE DEF rows
  <2>4. h \in Handles
    <3>1. Some(rows) \in Seq(Seq(Seq(Values)))
      BY <2>2 DEF Some
    <3> QED
      BY <2>1, <3>1 DEF Handles
  <2> HIDE DEF h
  <2> QED
    BY <2>3, <2>4, HandOutTyped
<1>4. CASE reset(t)
  <2>1. handle[t] \in Handles
    BY <1>1, <1>4 DEF reset
  <2>2. handle'[t] = [handle[t] EXCEPT !.rows = None, !.row_idx = 0, !.current_row = 0]
    BY <1>1, <1>4 DEF reset
  <2>3. \A h \in Handles, r \in Seq(Seq(Seq(Values))) :
          [h EXCEPT !.rows = r, !.row_idx = 0, !.current_row = 0] \in Handles
    BY DEF Handles
  <2>4. None \in Seq(Seq(Seq(Values)))
    BY DEF None
  <2> QED
    BY <2>1, <2>2, <2>3, <2>4
<1> QED
  BY <1>2, <1>3, <1>4

LEMMA TypedStep ==
  ASSUME Shapes, RowsInv, HandlesTyped, NEW t \in Threads, Moves(t)
  PROVE  HandlesTyped'
<1>1. /\ t \in DOMAIN handle
      /\ \A u \in Threads : u # t => handle'[u] = handle[u]
  BY OnlySelf, ShapesParts DEF Parts, Only
<1>2. CASE handle'[t] \in Handles \cup {NoStmt}
  BY <1>1, <1>2 DEF HandlesTyped
<1>3. CASE handle' = handle
  BY <1>3 DEF HandlesTyped
<1>4. CASE Prepare(t) \/ Execute(t) \/ reset(t)
  BY <1>2, <1>4, StatementTyped
<1>5. CASE ClearMessage(t)
  <2>1. CASE call[t].kind = "step" /\ handle' = [handle EXCEPT ![t] = HandOut(@)]
    <3>1. handle'[t] = HandOut(handle[t]) /\ handle[t] # NoStmt
      BY <1>1, <2>1 DEF Shapes, TypeOK
    <3> QED
      BY <1>2, <3>1, HandOutTyped DEF HandlesTyped
  <2> QED
    BY <1>3, <1>5, <2>1 DEF ClearMessage, statement
<1>6. CASE finalize(t)
  BY <1>1, <1>2, <1>6 DEF finalize
<1>7. CASE prepare_v2(t) \/ step(t) \/ exec_sql(t)
  BY <1>3, <1>7 DEF prepare_v2, step, exec_sql, Begin, statement
<1>8. CASE /\ PrepareFails(t) \/ StepFails(t) \/ ExecFails(t) \/ ExecStatement(t)
              \/ CallbackReturns(t) \/ CallbackAborts(t) \/ SetCode(t) \/ SetMessage(t)
  BY <1>3, <1>8 DEF PrepareFails, StepFails, ExecFails, ExecStatement, CallbackReturns,
     CallbackAborts, SetCode, SetMessage, statement
<1> QED
  BY <1>4, <1>5, <1>6, <1>7, <1>8 DEF Moves

-----------------------------------------------------------------------------
(* What a client sees, its own views.                                       *)
SeenAt(t) ==
  /\ Opened[t] = IF handle[t] = NoStmt THEN NoStmt ELSE handle[t].stmt
  /\ Answered[t] = IF handle[t] = NoStmt THEN None ELSE handle[t].rows
  /\ Taken[t] = IF handle[t] = NoStmt THEN <<>> ELSE given[t]
  /\ Served[t] = IF pc[t] = "callback" THEN call[t].rows ELSE <<>>

OnlyOwn(t) ==
  /\ Opened' = [Opened EXCEPT ![t] = Opened'[t]]
  /\ Answered' = [Answered EXCEPT ![t] = Answered'[t]]
  /\ Taken' = [Taken EXCEPT ![t] = Taken'[t]]
  /\ Served' = [Served EXCEPT ![t] = Served'[t]]

(* Each view is what SeenAt says, before a step and after it, and a step of *)
(* one thread changes only its own.                                         *)
LEMMA Sees == ASSUME NEW t \in Threads PROVE SeenAt(t) /\ SeenAt(t)'
BY DEF SeenAt, Opened, Answered, Taken, Served

LEMMA ViewsAre ==
  /\ Opened = [t \in Threads |-> Opened[t]] /\ Answered = [t \in Threads |-> Answered[t]]
  /\ Taken = [t \in Threads |-> Taken[t]] /\ Served = [t \in Threads |-> Served[t]]
BY DEF Opened, Answered, Taken, Served

LEMMA ViewsAreNext ==
  /\ Opened' = [t \in Threads |-> Opened'[t]] /\ Answered' = [t \in Threads |-> Answered'[t]]
  /\ Taken' = [t \in Threads |-> Taken'[t]] /\ Served' = [t \in Threads |-> Served'[t]]
BY DEF Opened, Answered, Taken, Served

LEMMA OwnViews ==
  ASSUME Shapes, RowsInv, NEW t \in Threads, Moves(t)
  PROVE  OnlyOwn(t)
<1>1. \A u \in Threads : u # t => /\ pc'[u] = pc[u] /\ call'[u] = call[u]
                                 /\ handle'[u] = handle[u] /\ given'[u] = given[u]
  <2>1. given' = [given EXCEPT ![t] = given'[t]] /\ Only(t)
    BY OnlySelf, HandleStep
  <2> QED
    BY <2>1, ShapesParts DEF Parts, Only, RowsInv
<1>2. \A u \in Threads : u # t => /\ Opened'[u] = Opened[u] /\ Answered'[u] = Answered[u]
                                 /\ Taken'[u] = Taken[u] /\ Served'[u] = Served[u]
  BY <1>1, Sees DEF SeenAt
<1> QED
  BY <1>2, ViewsAre, ViewsAreNext DEF OnlyOwn

LEMMA SameViews ==
  ASSUME NEW t \in Threads, OnlyOwn(t)
  PROVE  /\ Opened'[t] = Opened[t] => Opened' = Opened
         /\ Answered'[t] = Answered[t] => Answered' = Answered
         /\ Taken'[t] = Taken[t] => Taken' = Taken
         /\ Served'[t] = Served[t] => Served' = Served
BY ViewsAre DEF OnlyOwn

(* A step that leaves a client's statement and its rows alone shows in what *)
(* it is served, or not at all.                                             *)
LEMMA StatementUnseen ==
  ASSUME NEW t \in Threads, OnlyOwn(t), UNCHANGED <<handle, given>>
  PROVE  UNCHANGED <<Opened, Answered, Taken>>
BY Sees, SameViews DEF SeenAt

(* Who runs a statement has the mutex, and then no callback is in progress. *)
LEMMA FreeMutex ==
  ASSUME Shapes, holder = Nobody
  PROVE  \A t \in Threads : pc[t] # "callback" /\ Served[t] = <<>>
BY SessionAssumption, Sees, ShapesParts DEF Parts, Mutex, SeenAt

(* What is known of every state of a connection.                            *)
Known == Shapes /\ RowsInv /\ RunShowsInRows /\ HandlesTyped

(* The calls that take or use up no row and change no schema show nothing.  *)
Unseen(t) ==
  \/ prepare_v2(t) \/ step(t) \/ exec_sql(t)
  \/ ClearMessage(t) /\ UNCHANGED statement
  \/ PrepareFails(t) \/ StepFails(t) \/ ExecFails(t) \/ SetCode(t) \/ SetMessage(t)

LEMMA UnseenStutters ==
  ASSUME Shapes, RowsInv, NEW t \in Threads, Moves(t), Unseen(t)
  PROVE  UNCHANGED <<schema, Opened, Answered, Taken, Served>>
<1>1. t \in DOMAIN pc
  BY ShapesParts DEF Parts
<1>2. /\ UNCHANGED <<schema, handle, given>>
      /\ pc[t] # "callback" /\ pc'[t] # "callback"
  BY <1>1 DEF Unseen, prepare_v2, step, exec_sql, Begin, ClearMessage, Fail, Return,
     PrepareFails, StepFails, ExecFails, FailHolding, Locks, SetCode, SetMessage, statement
<1>3. Served'[t] = Served[t]
  BY <1>2, Sees DEF SeenAt
<1> QED
  BY <1>2, <1>3, OwnViews, StatementUnseen, SameViews

(* The calls that show, one by one, and the step of Database that each is.  *)
LEMMA PrepareOpens ==
  ASSUME Shapes, RowsInv, HandlesTyped, NEW t \in Threads, Moves(t), Prepare(t)
  PROVE  Promise!Open(t)
<1> DEFINE stmt == call[t].sql
<1>1. /\ t \in DOMAIN handle /\ t \in DOMAIN pc /\ t \in DOMAIN given /\ t \in DOMAIN call
      /\ CallRight(t) /\ ShapeOf(t)
  BY ShapesParts DEF Parts, RowsInv
<1>2. handle'[t] # NoStmt
  BY StatementTyped, SessionAssumption
<1>3. stmt \in Prepared /\ handle[t] = NoStmt
  BY <1>1 DEF Prepare, Locks, CallRight, ShapeOf
<1>4. /\ handle'[t].stmt = stmt /\ handle'[t].rows = None /\ given'[t] = <<>>
      /\ pc[t] = "lock" /\ pc'[t] = "idle" /\ UNCHANGED schema
  BY <1>1 DEF Prepare, Locks, NewStmt, Return
<1> HIDE DEF stmt
<1>5. /\ Opened[t] = NoStmt /\ Opened'[t] = stmt /\ Answered'[t] = Answered[t]
      /\ Taken'[t] = Taken[t] /\ Served'[t] = Served[t]
  BY <1>2, <1>3, <1>4, Sees DEF SeenAt
<1>6. Opened' = [Opened EXCEPT ![t] = stmt] /\ UNCHANGED <<Answered, Taken, Served>>
  BY <1>5, OwnViews, SameViews DEF OnlyOwn
<1> QED
  BY <1>3, <1>4, <1>5, <1>6 DEF Promise!Open, AllStatements

(* What running a statement does is what Database says it may do.           *)
LEMMA RunsAsPromised ==
  ASSUME RowsInv, NEW stmt, IsStatement(stmt), Valid(stmt, schema), NEW result,
         result = Run(stmt, schema)
  PROVE  /\ Changes(stmt, schema, result.schema)
         /\ Answers(stmt, schema, result.rows)
         /\ result.rows \in Seq(Seq(Values))
<1>1. Sound(stmt, schema)
  BY DEF RowsInv, Sound
<1> QED
  BY <1>1, RunIsExact DEF Changes, Answers

(* Handing out the first row is taking the first row.                       *)
LEMMA HandOutFirst ==
  ASSUME NEW h, IsHandle(h), NEW a \in Seq(Seq(Values))
  PROVE  LET k == HandOut([h EXCEPT !.rows = Some(a), !.row_idx = 0])
         IN  k.stmt = h.stmt /\ k.rows = Some(a) /\ Handed(k) = Promise!First(a)
<1> DEFINE f == [h EXCEPT !.rows = Some(a), !.row_idx = 0]
           k == HandOut(f)
<1>1. IsHandle(f) /\ f.rows = Some(a) /\ f.row_idx = 0 /\ f.stmt = h.stmt
  <2>1. \A r : LET q == [h EXCEPT !.rows = r, !.row_idx = 0]
               IN IsHandle(q) /\ q.rows = r /\ q.row_idx = 0 /\ q.stmt = h.stmt
    BY DEF IsHandle
  <2> QED
    BY <2>1
<1> HIDE DEF f
<1>2. /\ k.stmt = f.stmt /\ k.rows = f.rows
      /\ k.current_row = IF f.row_idx < Len(f.rows[1]) THEN f.row_idx + 1 ELSE 0
  BY <1>1 DEF HandOut, IsHandle
<1> HIDE DEF k
<1>3. Some(a)[1] = a /\ Len(a) \in Nat /\ (a = <<>> <=> Len(a) = 0)
  BY EmptySeq, LenProperties DEF Some
<1>4. k.rows[1] = a /\ k.current_row = (IF a = <<>> THEN 0 ELSE 1)
  BY <1>1, <1>2, <1>3
<1>5. Handed(k) = Promise!First(a)
  BY <1>4 DEF Handed, Promise!First
<1> QED
  BY <1>1, <1>2, <1>5 DEF f, k

LEMMA ExecuteRuns ==
  ASSUME Shapes, RowsInv, RunShowsInRows, HandlesTyped, NEW t \in Threads, Moves(t), Execute(t)
  PROVE  Promise!Run(t)
<1> DEFINE h == handle[t]
           stmt == h.stmt
           result == Run(stmt, schema)
<1>1. /\ t \in DOMAIN handle /\ t \in DOMAIN pc /\ t \in DOMAIN given
      /\ ShapeOf(t) /\ (h # NoStmt => HandleRight(h, given[t], answer[t]))
  BY ShapesParts DEF Parts, RowsInv
<1>2. handle'[t] # NoStmt
  BY StatementTyped, SessionAssumption
<1>3. /\ pc[t] = "lock" /\ call[t].kind = "step" /\ holder = Nobody /\ Ready(stmt)
      /\ schema' = result.schema
      /\ handle'[t] = HandOut([h EXCEPT !.rows = Some(result.rows), !.row_idx = 0])
      /\ given'[t] = Handed(handle'[t]) /\ pc'[t] = "idle"
  BY <1>1 DEF Execute, Locks, Return
<1>4. h # NoStmt /\ IsHandle(h) /\ h.rows = None /\ stmt \in Prepared
  BY <1>1, <1>3 DEF ShapeOf, RunShowsInRows, HandleRight, Handing
<1>5. IsStatement(stmt) /\ Valid(stmt, schema) /\ stmt # NoStmt
  BY <1>3, <1>4, SessionAssumption DEF Ready
<1> HIDE DEF h, stmt, result
<1>6. /\ Changes(stmt, schema, schema') /\ Answers(stmt, schema, result.rows)
      /\ result.rows \in Seq(Seq(Values))
  BY <1>3, <1>5, RunsAsPromised DEF result
<1>7. /\ handle'[t].stmt = stmt /\ handle'[t].rows = Some(result.rows)
      /\ given'[t] = Promise!First(result.rows)
  <2> DEFINE rows == result.rows
             k == HandOut([h EXCEPT !.rows = Some(rows), !.row_idx = 0])
  <2>1. k.stmt = h.stmt /\ k.rows = Some(rows) /\ Handed(k) = Promise!First(rows)
    BY <1>4, <1>6, HandOutFirst
  <2>2. handle'[t] = k /\ given'[t] = Handed(k)
    BY <1>3
  <2> HIDE DEF rows, k
  <2> QED
    BY <2>1, <2>2 DEF stmt, rows
<1>8. /\ Opened[t] = stmt /\ Opened'[t] = stmt
      /\ Answered[t] = <<>> /\ Answered'[t] = Some(result.rows)
      /\ Taken'[t] = Promise!First(result.rows) /\ Served'[t] = Served[t]
  BY <1>2, <1>3, <1>4, <1>7, Sees DEF SeenAt, h, stmt, None
<1>9. Some(result.rows) # <<>> /\ Some(result.rows)[1] = result.rows
  BY DEF Some
<1>10. /\ Answered' = [Answered EXCEPT ![t] = Answered'[t]]
       /\ Taken' = [Taken EXCEPT ![t] = Taken'[t]] /\ UNCHANGED <<Opened, Served>>
  BY <1>8, OwnViews, SameViews DEF OnlyOwn
<1>11. \A u \in Threads : Served[u] = <<>>
  BY <1>3, FreeMutex
<1> QED
  BY <1>5, <1>6, <1>8, <1>9, <1>10, <1>11
     DEF Promise!Run, Promise!NothingServed, Promise!NoAnswer

(* A later step takes the next row, or finds that there is none.            *)
LEMMA ClearingTakes ==
  ASSUME Shapes, RowsInv, HandlesTyped, NEW t \in Threads, Moves(t), ClearMessage(t),
         ~UNCHANGED statement
  PROVE  Promise!Take(t) \/ UNCHANGED <<schema, Opened, Answered, Taken, Served>>
<1> DEFINE h == handle[t]
           g == given[t]
           a == answer[t]
           k == HandOut(h)
<1>1. /\ t \in DOMAIN handle /\ t \in DOMAIN pc /\ t \in DOMAIN given
      /\ ShapeOf(t) /\ (h # NoStmt => HandleRight(h, g, a))
  BY ShapesParts DEF Parts, RowsInv
<1>2. /\ pc[t] = "clear" /\ pc'[t] = "idle" /\ UNCHANGED schema
      /\ call[t].kind = "step" /\ h.rows # None
      /\ handle'[t] = k /\ given'[t] = g \o Handed(k)
  BY <1>1 DEF ClearMessage, Return, Fail, statement
<1>3. /\ h # NoStmt /\ IsHandle(h) /\ Handing(h, g, a)
      /\ h \in Handles /\ k # NoStmt
  <2>1. h # NoStmt /\ IsHandle(h) /\ Handing(h, g, a) /\ h \in Handles
    BY <1>1, <1>2 DEF ShapeOf, HandleRight, HandlesTyped
  <2>2. k \in Handles
    BY <2>1, HandOutTyped
  <2> QED
    BY <2>1, <2>2, SessionAssumption
<1>4. k.stmt = h.stmt /\ k.rows = h.rows
  BY <1>3 DEF HandOut, IsHandle
<1>5. /\ Opened'[t] = Opened[t] /\ Answered[t] = h.rows /\ Answered'[t] = Answered[t]
      /\ Taken[t] = g /\ Taken'[t] = g \o Handed(k) /\ Served'[t] = Served[t]
  <2> HIDE DEF h, g, k
  <2>1. handle[t] = h /\ given[t] = g /\ handle'[t] = k /\ given'[t] = g \o Handed(k)
    BY <1>2 DEF h, g
  <2> QED
    BY <1>2, <1>3, <1>4, <2>1, Sees DEF SeenAt
<1>6. /\ h.rows = Some(a) /\ h.rows[1] = a /\ Len(a) \in Nat
      /\ h.row_idx \in 0 .. Len(a) /\ Len(g) = h.row_idx /\ g \in Seq(Seq(Values))
      /\ a \in Seq(Seq(Values))
  BY <1>2, <1>3, LenProperties DEF Handing, Some
<1>7. /\ Taken' = [Taken EXCEPT ![t] = Taken'[t]] /\ UNCHANGED <<Opened, Answered, Served>>
      /\ Taken'[t] = Taken[t] => UNCHANGED Taken
  BY <1>5, OwnViews, SameViews DEF OnlyOwn
<1>8. CASE h.row_idx < Len(a)
  <2>1. k.current_row = Len(g) + 1
    BY <1>3, <1>6, <1>8 DEF HandOut, IsHandle
  <2>2. Handed(k) = <<a[Len(g) + 1]>> /\ Len(g) + 1 \in 1 .. Len(a)
    BY <1>4, <1>6, <1>8, <2>1 DEF Handed
  <2>3. a[Len(g) + 1] \in Seq(Values)
    BY <1>6, <2>2, ElementOfSeq
  <2> HIDE DEF a, g, h, k
  <2>4. g \o Handed(k) = Append(g, a[Len(g) + 1])
    BY <1>6, <2>2, <2>3
  <2>5. Answered[t] # <<>> /\ Len(Taken[t]) < Len(Answered[t][1]) /\ Answered[t][1] = a
    BY <1>5, <1>6, <1>8 DEF Some
  <2>6. Taken' = [Taken EXCEPT ![t] = Append(@, Answered[t][1][Len(@) + 1])]
    BY <1>5, <1>7, <2>4, <2>5
  <2>7. Promise!Take(t)
    BY <1>2, <1>7, <2>5, <2>6 DEF Promise!Take, Promise!NoAnswer
  <2> QED
    BY <2>7
<1>9. CASE ~(h.row_idx < Len(a))
  <2>1. k.current_row = 0
    BY <1>3, <1>6, <1>9 DEF HandOut, IsHandle
  <2>2. g \o Handed(k) = g
    BY <1>6, <2>1 DEF Handed
  <2> HIDE DEF a, g, h, k
  <2> QED
    BY <1>2, <1>5, <1>7, <2>2
<1> QED
  BY <1>8, <1>9

LEMMA ResetRewinds ==
  ASSUME Shapes, RowsInv, HandlesTyped, NEW t \in Threads, Moves(t), reset(t)
  PROVE  Promise!Rewind(t)
<1> DEFINE h == handle[t]
<1>1. /\ t \in DOMAIN handle /\ t \in DOMAIN given
      /\ h # NoStmt /\ IsHandle(h) /\ HandleRight(h, given[t], answer[t])
  BY ShapesParts DEF Parts, RowsInv, ShapeOf, reset
<1>2. handle'[t] # NoStmt /\ h.stmt # NoStmt
  BY <1>1, StatementTyped, SessionAssumption DEF HandleRight, Handing
<1>3. /\ handle'[t] = [h EXCEPT !.rows = None, !.row_idx = 0, !.current_row = 0]
      /\ given'[t] = <<>> /\ UNCHANGED <<schema, pc, call>>
  BY <1>1 DEF reset, thread
<1>4. handle'[t].rows = None /\ handle'[t].stmt = h.stmt
  <2> HIDE DEF h
  <2> QED
    BY <1>1, <1>3 DEF IsHandle
<1>5. /\ Opened[t] # NoStmt /\ Opened'[t] = Opened[t] /\ Answered'[t] = None
      /\ Taken'[t] = <<>> /\ Served'[t] = Served[t]
  BY <1>1, <1>2, <1>3, <1>4, Sees DEF SeenAt
<1>6. /\ Answered' = [Answered EXCEPT ![t] = None] /\ Taken' = [Taken EXCEPT ![t] = <<>>]
      /\ UNCHANGED <<Opened, Served>>
  BY <1>5, OwnViews, SameViews DEF OnlyOwn
<1> QED
  BY <1>3, <1>5, <1>6 DEF Promise!Rewind, Promise!NoAnswer, None

LEMMA FinalizeCloses ==
  ASSUME Shapes, RowsInv, NEW t \in Threads, Moves(t), finalize(t)
  PROVE  Promise!Close(t)
<1>1. /\ t \in DOMAIN handle /\ handle[t] # NoStmt
      /\ handle[t] # NoStmt => HandleRight(handle[t], given[t], answer[t])
  BY ShapesParts DEF Parts, RowsInv, finalize
<1>2. handle[t].stmt # NoStmt
  BY <1>1, SessionAssumption DEF HandleRight, Handing
<1>3. handle'[t] = NoStmt /\ UNCHANGED <<schema, pc, call>>
  BY <1>1 DEF finalize, thread
<1>4. /\ Opened[t] # NoStmt /\ Opened'[t] = NoStmt /\ Answered'[t] = None
      /\ Taken'[t] = <<>> /\ Served'[t] = Served[t]
  BY <1>1, <1>2, <1>3, Sees DEF SeenAt
<1>5. /\ Opened' = [Opened EXCEPT ![t] = NoStmt] /\ Answered' = [Answered EXCEPT ![t] = None]
      /\ Taken' = [Taken EXCEPT ![t] = <<>>] /\ UNCHANGED Served
  BY <1>4, OwnViews, SameViews DEF OnlyOwn
<1> QED
  BY <1>3, <1>4, <1>5 DEF Promise!Close, Promise!NoAnswer, None

(* The statement that exec comes to answers rows, and stays in its callback *)
(* to serve them, or none, which may change nothing either.                 *)
LEMMA ExecExecutes ==
  ASSUME Shapes, RowsInv, NEW t \in Threads, Moves(t), ExecStatement(t)
  PROVE  Promise!Execute(t) \/ UNCHANGED <<schema, Opened, Answered, Taken, Served>>
<1> DEFINE stmt == Head(call[t].rest)
           result == Run(stmt, schema)
<1>1. /\ t \in DOMAIN pc /\ t \in DOMAIN call /\ ShapeOf(t) /\ CallRight(t)
  BY ShapesParts DEF Parts, RowsInv
<1>2. /\ pc[t] = "lock" /\ holder = Nobody /\ call[t].kind = "exec"
      /\ Valid(stmt, schema) /\ schema' = result.schema /\ UNCHANGED <<handle, given>>
  BY DEF ExecStatement, Locks, statement
<1>3. IsScript(call[t].rest) /\ IsCall(call[t])
  BY <1>1, <1>2 DEF CallRight, ShapeOf
<1>4. IsStatement(stmt) /\ stmt \in Texts
  BY <1>3, ScriptParts, HeadTailProperties DEF IsScript
<1>5. /\ Changes(stmt, schema, schema') /\ Answers(stmt, schema, result.rows)
      /\ result.rows \in Seq(Seq(Values))
  <2> HIDE DEF result, stmt
  <2> QED
    BY <1>2, <1>4, RunsAsPromised DEF result
<1>6. Served'[t] = result.rows
  <2>1. CASE result.rows = <<>>
    <3>1. pc'[t] # "callback"
      BY <1>1, <2>1 DEF ExecStatement, ExecGoesOn, Return
    <3> QED
      BY <2>1, <3>1, Sees DEF SeenAt
  <2>2. CASE result.rows # <<>>
    <3> DEFINE columns == get_result_columns(stmt)
    <3>1. /\ pc'[t] = "callback"
          /\ call' = [call EXCEPT ![t].rows = result.rows, ![t].columns = columns]
      BY <1>1, <2>2 DEF ExecStatement
    <3> HIDE DEF result, columns
    <3>2. call'[t] = [call[t] EXCEPT !.rows = result.rows, !.columns = columns]
      BY <1>1, <3>1
    <3>3. call'[t].rows = result.rows
      BY <1>2, <1>3, <3>2 DEF IsCall
    <3> QED
      BY <3>1, <3>3, Sees DEF SeenAt
  <2> QED
    BY <2>1, <2>2
<1> HIDE DEF stmt, result
<1>7. Served' = [Served EXCEPT ![t] = Served'[t]] /\ UNCHANGED <<Opened, Answered, Taken>>
  BY <1>2, OwnViews, StatementUnseen DEF OnlyOwn
<1>8. \A u \in Threads : Served[u] = <<>>
  BY <1>2, FreeMutex
<1>9. CASE schema' # schema \/ result.rows # <<>>
  <2>1. stmt \in AllStatements
    BY <1>4 DEF AllStatements, Texts
  <2>2. Promise!Execute(t)
    BY <1>5, <1>6, <1>7, <1>8, <1>9, <2>1 DEF Promise!Execute, Promise!NothingServed
  <2> QED
    BY <2>2
<1>10. CASE schema' = schema /\ result.rows = <<>>
  <2>1. Served' = Served
    BY <1>6, <1>8, <1>10, OwnViews, SameViews
  <2> QED
    BY <1>7, <1>10, <2>1
<1> QED
  BY <1>9, <1>10

LEMMA CallbackServes ==
  ASSUME Shapes, RowsInv, NEW t \in Threads, Moves(t), CallbackReturns(t) \/ CallbackAborts(t)
  PROVE  Promise!Serve(t)
<1> DEFINE rows == call[t].rows
<1>1. /\ t \in DOMAIN pc /\ t \in DOMAIN call /\ ShapeOf(t) /\ CallRight(t)
  BY ShapesParts DEF Parts, RowsInv
<1>2. pc[t] = "callback" /\ UNCHANGED <<schema, handle, given>>
  BY DEF CallbackReturns, CallbackAborts, statement
<1>3. /\ rows \in Seq(Seq(Values)) /\ rows # <<>>
      /\ call[t].kind = "exec" /\ IsCall(call[t])
  BY <1>1, <1>2 DEF CallRight, ShapeOf
<1>4. Served[t] = rows /\ rows # <<>>
  BY <1>2, <1>3, Sees DEF SeenAt
<1>5. Served'[t] = Tail(rows) \/ Served'[t] = <<>>
  <2>1. CASE CallbackReturns(t) /\ Tail(rows) # <<>>
    <3>1. /\ pc'[t] = "callback" /\ call'[t] = [call[t] EXCEPT !.rows = Tail(rows)]
      BY <1>1, <1>2, <2>1 DEF CallbackReturns
    <3>2. call'[t].rows = Tail(rows)
      BY <1>3, <3>1 DEF IsCall
    <3> QED
      BY <3>1, <3>2, Sees DEF SeenAt
  <2>2. CASE pc'[t] # "callback"
    BY <2>2, Sees DEF SeenAt
  <2>3. CallbackAborts(t) \/ (CallbackReturns(t) /\ Tail(rows) = <<>>) => pc'[t] # "callback"
    BY <1>1 DEF CallbackReturns, CallbackAborts, ExecGoesOn, Return, Fail
  <2> QED
    BY <2>1, <2>2, <2>3
<1>6. Served' = [Served EXCEPT ![t] = Served'[t]] /\ UNCHANGED <<Opened, Answered, Taken>>
  BY <1>2, OwnViews, StatementUnseen DEF OnlyOwn
<1> HIDE DEF rows
<1> QED
  BY <1>2, <1>4, <1>5, <1>6 DEF Promise!Serve

LEMMA StepImplements ==
  ASSUME Known, [Next]_vars
  PROVE  [Promise!Next]_(Promise!vars)
<1>1. CASE UNCHANGED vars
  BY <1>1 DEF vars, thread, statement, Opened, Answered, Taken, Served, Promise!vars
<1>2. ASSUME NEW t \in Threads, Moves(t)
      PROVE  Promise!Next \/ UNCHANGED Promise!vars
  <2> USE <1>2 DEF Known
  <2>1. CASE Unseen(t)
    BY <2>1, UnseenStutters DEF Promise!vars
  <2>2. CASE ClearMessage(t) /\ ~UNCHANGED statement
    BY <2>2, ClearingTakes DEF Promise!Next, Promise!vars
  <2>3. CASE Prepare(t)
    BY <2>3, PrepareOpens DEF Promise!Next
  <2>4. CASE Execute(t)
    BY <2>4, ExecuteRuns DEF Promise!Next
  <2>5. CASE ExecStatement(t)
    BY <2>5, ExecExecutes DEF Promise!Next, Promise!vars
  <2>6. CASE CallbackReturns(t) \/ CallbackAborts(t)
    BY <2>6, CallbackServes DEF Promise!Next
  <2>7. CASE finalize(t)
    BY <2>7, FinalizeCloses DEF Promise!Next
  <2>8. CASE reset(t)
    BY <2>8, ResetRewinds DEF Promise!Next
  <2> QED
    BY <2>1, <2>2, <2>3, <2>4, <2>5, <2>6, <2>7, <2>8 DEF Moves, Unseen
<1> QED
  BY <1>1, <1>2 DEF Next, Moves

(* The calls of any number of threads on one connection implement Database: *)
(* statements take effect one at a time, as a whole or not at all, and the  *)
(* rows a client takes or is served come in order from one answer, which    *)
(* nothing changes on its way (sqlite3_prepare_v2 to sqlite3_exec of        *)
(* api.rs).                                                                 *)
THEOREM Implements == Spec => ImplementsDatabase
<1>1. Init => Promise!Init
  <2>1. ASSUME Init
        PROVE  /\ schema = <<>> /\ Opened = [t \in Threads |-> NoStmt]
               /\ Answered = [t \in Threads |-> <<>>] /\ Taken = [t \in Threads |-> <<>>]
               /\ Served = [t \in Threads |-> <<>>]
    BY <2>1 DEF Init, Opened, Answered, Taken, Served, None
  <2> QED
    BY <2>1 DEF Promise!Init, Promise!NoAnswer
<1>2. Init => HandlesTyped
  BY DEF Init, HandlesTyped
<1>3. Shapes /\ RowsInv /\ HandlesTyped /\ [Next]_vars => HandlesTyped'
  <2>1. UNCHANGED vars /\ HandlesTyped => HandlesTyped'
    BY DEF vars, statement, HandlesTyped
  <2> QED
    BY <2>1, TypedStep DEF Next, Moves
<1>4. Shapes /\ RowsInv /\ RunShowsInRows /\ HandlesTyped /\ [Next]_vars =>
        [Promise!Next]_(Promise!vars)
  BY StepImplements DEF Known
<1> QED
  BY <1>1, <1>2, <1>3, <1>4, RowsHold, RunsHold, PTL DEF Spec, ImplementsDatabase, Promise!Spec
=============================================================================
