------------------------------- MODULE MCQuery -------------------------------
(* Every comparison, and the ANDs and ORs of some, over tables of up to     *)
(* three rows of two columns with NULLs; a table with two columns of one    *)
(* name; statements on tables, columns and widths that do not exist.        *)
EXTENDS Query

Table(columns, rows) == [columns |-> columns, rows |-> rows]
Rows == {Null, 1, 2} \X {Null, 1}
OfRows(rows) == [t |-> Table(<<"a", "b">>, rows)]
MCSchemas ==
  {OfRows(<<>>), [t |-> Table(<<"a", "a">>, <<<<1, 2>>>>)], <<>>,
   [t |-> Table(<<"b">>, <<<<2>>, <<Null>>>>), u |-> Table(<<"a">>, <<<<1>>>>)],
   OfRows(<<<<1, 2>>, <<Null, 1>>, <<2, Null>>>>)}
  \cup {OfRows(<<r>>) : r \in Rows}
  \cup {OfRows(<<r, <<1, 1>>>>) : r \in Rows}

Cmp(op, column, value) == [op |-> op, column |-> column, value |-> value]
Cmps == {Cmp(op, c, v) : op \in {"=", "<>", "<", "<=", ">", ">="}, c \in {"a", "b"},
                         v \in {Null, 1, 2}}
Some == {Cmp("=", "a", 1), Cmp("<", "b", 2), Cmp("<>", "a", 2), Cmp("=", "b", Null)}
Wheres ==
  {<<>>} \cup {<<<<x>>>> : x \in Cmps}
         \cup {<<<<x, y>>>> : x \in Some, y \in Some}
         \cup {<<<<x>>, <<y>>>> : x \in Some, y \in Some}
         \cup {<<<<x>>, <<y, z>>>> : x \in Some, y \in Some, z \in Some}
         \cup {<<<<Cmp("=", "a", Identifier)>>>>, <<<<Cmp("=", "c", 1)>>>>}

Select(all, columns, where) ==
  [kind |-> "select", all |-> all, columns |-> columns, from |-> "t", where |-> where]
Insert(values) == [kind |-> "insert", table |-> "t", values |-> values]
MCStatements ==
  {Select(TRUE, <<>>, w) : w \in Wheres}
  \cup {Select(FALSE, <<"b", "a">>, w) : w \in Wheres}
  \cup {Select(FALSE, <<"c">>, w) : w \in {<<>>, <<<<Cmp("=", "a", 1)>>>>}}
  \cup {Insert(<<1, Null>>), Insert(<<1>>), Insert(<<1, Identifier>>)}
  \cup {[kind |-> "create", table |-> "t", columns |-> <<"a", "b">>],
        [kind |-> "drop", table |-> "t"]}
=============================================================================
