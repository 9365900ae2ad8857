------------------------------ MODULE MCSession ------------------------------
(* Two threads on one table that is dropped and created again with other    *)
(* columns, with prepared SELECTs and INSERTs of either width.              *)
EXTENDS Session

Select(all, columns, where) ==
  [kind |-> "select", all |-> all, columns |-> columns, from |-> "t", where |-> where]
Insert(values) == [kind |-> "insert", table |-> "t", values |-> values]
Create(columns) == [kind |-> "create", table |-> "t", columns |-> columns]
Drop == [kind |-> "drop", table |-> "t"]
WhereB1 == <<<<[op |-> "=", column |-> "b", value |-> 1]>>>>

MCPrepared == {Select(TRUE, <<>>, <<>>), Select(FALSE, <<"a">>, WhereB1), Insert(<<1>>)}
MCScripts ==
  {<<Create(<<"a">>), Insert(<<2>>), Insert(<<1>>)>>,
   <<Drop, Create(<<"b", "a">>), Insert(<<1, 2>>)>>,
   <<Select(TRUE, <<>>, <<>>), Insert(<<1>>), Select(TRUE, <<>>, <<>>)>>}
Symmetry == Permutations(Threads)
=============================================================================
