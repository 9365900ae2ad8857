------------------------------- MODULE MCBtree -------------------------------
(* Files of three pages, every combination of the shapes below.  A length that *)
(* is wrong but stays within the page shows other bytes and is not among them. *)
EXTENDS Btree

Leaf(rows) == [kind |-> "leaf", rows |-> rows, child |-> 0]
Interior(c) == [kind |-> "interior", rows |-> <<>>, child |-> c]
Damaged(kind, rows) == [kind |-> kind, rows |-> rows, child |-> 0]
BadLength(rows, n) == [kind |-> "badlength", rows |-> rows, length |-> n]
Row(id, bytes) == [rowid |-> id, payload |-> bytes]

\* Rowids of one, two and three bytes, negative ones included; a payload of 0.
Rows == << Row(127, <<7>>), Row(-1, <<>>), Row(128, <<9, 9>>) >>
LongRows == << Row(16384, <<1>>), Row(-2097152, <<255>>), Row(16383, <<>>) >>

\* The last row of Rows has eight bytes of its page left: a length of 9 is one
\* more.
BadLengths == {BadLength(Rows, 9), BadLength(Rows, -1)}

Shapes ==
    { Leaf(<<>>), Leaf(SubSeq(Rows, 1, 2)), Leaf(Rows), Leaf(LongRows),
      Damaged("nocell", <<>>), Damaged("other", <<>>), Damaged("farcell", <<>>),
      Damaged("badcell", Rows) }
    \cup BadLengths
    \cup { Interior(c) : c \in 0 .. 4 }

MCTrees == [1 .. 3 -> Shapes]
MCRoots == 0 .. 4
=============================================================================
