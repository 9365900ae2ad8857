------------------------------ MODULE Database ------------------------------
(***************************************************************************)
(* What the C interface of rust-port/src/api.rs promises the clients of    *)
(* one connection.  Statements take effect one at a time, as a whole or    *)
(* not at all.  A client's open statement runs once until it is rewound,   *)
(* and the client takes the rows of its answer, which is fixed when it     *)
(* runs, from first to last.  The rows of a statement that is executed at  *)
(* once are served one by one, and nothing changes until they are served.  *)
(*                                                                         *)
(* A change of one client is one of the statement's whole effects, and     *)
(* which these are, and which rows it answers, is left to the parameters.  *)
(***************************************************************************)
EXTENDS Naturals, Sequences

CONSTANTS
  Clients,
  Closed,          \* no statement
  Statements,
  Changes(_, _, _),  \* a statement may turn an old state into a new one
  Answers(_, _, _)   \* a statement may answer these rows in a state

VARIABLES
  db,
  opened,   \* every client's statement
  answer,   \* what it has answered: nothing yet, or << rows >>
  given,    \* the rows its client has taken
  serving   \* the rows that are still to be served to a client

vars == <<db, opened, answer, given, serving>>

NoAnswer == <<>>

First(rows) == IF rows = <<>> THEN <<>> ELSE <<rows[1]>>

Init ==
  /\ db = <<>>
  /\ opened = [c \in Clients |-> Closed]
  /\ answer = [c \in Clients |-> NoAnswer]
  /\ given = [c \in Clients |-> <<>>]
  /\ serving = [c \in Clients |-> <<>>]

NothingServed == \A c \in Clients : serving[c] = <<>>

Open(c) ==
  /\ opened[c] = Closed
  /\ opened'[c] \in Statements
  /\ opened' = [opened EXCEPT ![c] = opened'[c]]
  /\ UNCHANGED <<db, answer, given, serving>>

(* The statement runs, and its client takes the first row.                  *)
Run(c) ==
  /\ opened[c] # Closed /\ answer[c] = NoAnswer
  /\ NothingServed
  /\ Changes(opened[c], db, db')
  /\ answer'[c] # NoAnswer /\ Answers(opened[c], db, answer'[c][1])
  /\ answer' = [answer EXCEPT ![c] = answer'[c]]
  /\ given' = [given EXCEPT ![c] = First(answer'[c][1])]
  /\ UNCHANGED <<opened, serving>>

Take(c) ==
  /\ answer[c] # NoAnswer /\ Len(given[c]) < Len(answer[c][1])
  /\ given' = [given EXCEPT ![c] = Append(@, answer[c][1][Len(@) + 1])]
  /\ UNCHANGED <<db, opened, answer, serving>>

Rewind(c) ==
  /\ opened[c] # Closed
  /\ answer' = [answer EXCEPT ![c] = NoAnswer]
  /\ given' = [given EXCEPT ![c] = <<>>]
  /\ UNCHANGED <<db, opened, serving>>

Close(c) ==
  /\ opened[c] # Closed
  /\ opened' = [opened EXCEPT ![c] = Closed]
  /\ answer' = [answer EXCEPT ![c] = NoAnswer]
  /\ given' = [given EXCEPT ![c] = <<>>]
  /\ UNCHANGED <<db, serving>>

(* A statement without a change and without rows is not noticed.           *)
Execute(c) ==
  /\ NothingServed
  /\ db' # db \/ serving'[c] # <<>>
  /\ \E stmt \in Statements : /\ Changes(stmt, db, db')
                              /\ Answers(stmt, db, serving'[c])
  /\ serving' = [serving EXCEPT ![c] = serving'[c]]
  /\ UNCHANGED <<opened, answer, given>>

(* A row is served, or the client wants no more.                            *)
Serve(c) ==
  /\ serving[c] # <<>>
  /\ \/ serving' = [serving EXCEPT ![c] = Tail(@)]
     \/ serving' = [serving EXCEPT ![c] = <<>>]
  /\ UNCHANGED <<db, opened, answer, given>>

Next ==
  \E c \in Clients :
    Rewind(c) \/ Close(c) \/ Take(c) \/ Serve(c) \/ Open(c) \/ Run(c) \/ Execute(c)

Spec == Init /\ [][Next]_vars
=============================================================================
