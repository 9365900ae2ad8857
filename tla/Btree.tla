------------------------------- MODULE Btree -------------------------------
(***************************************************************************)
(* The read-only B-tree cursor of btree/mod.rs.  first follows the first   *)
(* child pointer of each interior page down to a leaf, then next walks the *)
(* cells of that one leaf.  Pages are the bytes the pager returns; offsets *)
(* are the code's, counted from 0.                                         *)
(***************************************************************************)
EXTENDS Integers, Sequences, SequencesExt, FiniteSetsExt

CONSTANTS
    Trees,          \* the databases: sequences of page shapes (see Layout)
    Roots,          \* the root pages a cursor is opened on
    PageSize,       \* bytes of a page
    VarintBytes     \* the longest varint (9 in the code)

ASSUME SizesAssumption == PageSize \in Nat /\ PageSize > 14 /\ VarintBytes \in Nat \ {0, 1}

VARIABLES
    tree,           \* what the file is meant to hold: a sequence of page shapes
    file,           \* the file: a sequence of pages
    pc,             \* where the cursor is
    pgno,           \* the page number the descent asks for next
    page,           \* current_page
    cell_idx,       \* the cell under the cursor, from 0
    cell_count,     \* the cells of current_page
    row,            \* rowid and payload of the current cell
    code,           \* the error first returned, 0 for none
    returned        \* the rows shown to the caller since first

vars == <<tree, file, pc, pgno, page, cell_idx, cell_count, row, code, returned>>
database == <<tree, file>>

PTYPE_LEAF_TABLE == 13
PTYPE_INTERIOR_TABLE == 5
SQLITE_IOERR == 10
SQLITE_CORRUPT == 11
SQLITE_NOTADB == 26

----------------------------------------------------------------------------
(* Reading a page.                                                         *)

\* Whether data holds the n bytes at offset i; the code panics when it does not.
Has(data, i, n) == i >= 0 /\ i + n <= Len(data)
Byte(data, i) == data[i + 1]

read_u16(data, i) == 256 * Byte(data, i) + Byte(data, i + 1)
read_u32(data, i) == 65536 * read_u16(data, i) + read_u16(data, i + 2)

\* An unsigned value of a full-length varint as the signed integer of its width.
ValueBits == 7 * (VarintBytes - 1) + 8
Signed(v) == IF v >= 2 ^ (ValueBits - 1) THEN v - 2 ^ ValueBits ELSE v
Unsigned(v) == IF v < 0 THEN v + 2 ^ ValueBits ELSE v

\* The low bits come first: seven of each byte, and all eight of the last
\* byte of a varint of full length.  A varint that runs off the data is 0 and
\* takes no bytes.
DataBits(b, i) == IF i = VarintBytes - 1 THEN b ELSE b % 128

read_varint(data, offset) ==
    LET last == Min({i \in 0 .. VarintBytes - 1 :
                        \/ i = VarintBytes - 1
                        \/ ~Has(data, offset + i, 1)
                        \/ Byte(data, offset + i) < 128})
        Part(i) == DataBits(Byte(data, offset + i), i) * 2 ^ (7 * i)
    IN IF ~Has(data, offset + last, 1)
       THEN [value |-> 0, next |-> offset]
       ELSE [value |-> Signed(MapThenSumSet(Part, 0 .. last)), next |-> offset + last + 1]

\* The pager's answer for a page number: the page, or SQLITE_NOTADB.
InFile_Unchecked(p) == p >= 1
InFile(p) == p >= 1 /\ p <= Len(file)
ZeroPage == [i \in 1 .. PageSize |-> 0]
get(p) == IF p \in DOMAIN file THEN file[p] ELSE ZeroPage

----------------------------------------------------------------------------
(* The format the cursor is meant to read, as the tests lay it out: a leaf *)
(* has its cell pointers at 8 and its cells after them, an interior page   *)
(* its first cell pointer at 12 and the child it names at 14.              *)

encode_varint(v) ==
    LET u == Unsigned(v)
        Group(i) == (u \div 2 ^ (7 * i)) % 128
        n == Min({i \in 1 .. VarintBytes : i = VarintBytes \/ u < 2 ^ (7 * i)})
    IN [i \in 1 .. n |->
          CASE i = VarintBytes -> u \div 2 ^ (7 * (VarintBytes - 1))
            [] i = n           -> Group(i - 1)
            [] OTHER           -> 128 + Group(i - 1)]

Be16(v) == <<v \div 256, v % 256>>
Padded(bytes) == bytes \o [i \in 1 .. PageSize - Len(bytes) |-> 0]
Cell(r, length) == encode_varint(length) \o encode_varint(r.rowid) \o r.payload
Header(type, n, start) == <<type, 0, 0>> \o Be16(n) \o Be16(start) \o <<0>>

leaf_page(cells) ==
    LET start == 8 + 2 * Len(cells)
        Offset(i) == start + Len(FlattenSeq(SubSeq(cells, 1, i - 1)))
        pointers == [i \in 1 .. Len(cells) |-> Be16(Offset(i))]
    IN Padded(Header(PTYPE_LEAF_TABLE, Len(cells), start)
              \o FlattenSeq(pointers) \o FlattenSeq(cells))

Cells(rows) == [i \in 1 .. Len(rows) |-> Cell(rows[i], Len(rows[i].payload))]
build_leaf_page(rows) == leaf_page(Cells(rows))

interior_page(pointer, child) ==
    Padded(Header(PTYPE_INTERIOR_TABLE, 1, 0) \o <<0, 0, 0, 0>> \o Be16(pointer)
           \o <<0, 0>> \o Be16(child))

\* A page shape is a leaf with its rows, an interior page with its first child,
\* or one of the damages: no first cell, another page type, a cell pointer of
\* an interior page or of a leaf that leaves the page, a last cell with another
\* length than its payload's.
Layout(shape) ==
    CASE shape.kind = "leaf"     -> build_leaf_page(shape.rows)
      [] shape.kind = "interior" -> interior_page(14, shape.child)
      [] shape.kind = "nocell"   -> interior_page(0, 0)
      [] shape.kind = "farcell"  -> interior_page(PageSize - 1, 0)
      [] shape.kind = "other"    -> Padded(<<255>>)
      [] shape.kind = "badcell"  ->
           LET n == Len(shape.rows)
           IN [build_leaf_page(shape.rows) EXCEPT ![9 + 2 * (n - 1)] = 255]
      [] shape.kind = "badlength" ->
           LET n == Len(shape.rows)
           IN leaf_page([Cells(shape.rows) EXCEPT ![n] = Cell(shape.rows[n], shape.length)])

----------------------------------------------------------------------------
(* The cursor.                                                             *)

NoRow == [rowid |-> 0, payload |-> <<>>]

Init ==
    /\ tree \in Trees
    /\ file = [p \in DOMAIN tree |-> Layout(tree[p])]
    /\ pc = "closed"
    /\ pgno = 0
    /\ page = <<>>
    /\ cell_idx = -1
    /\ cell_count = 0
    /\ row = NoRow
    /\ code = 0
    /\ returned = <<>>

\* A new cursor on a root: nothing of an earlier one is left.
first ==
    /\ pc \notin {"load", "loaded"}
    /\ \E root \in Roots : pgno' = root
    /\ pc' = "load"
    /\ page' = <<>>
    /\ cell_idx' = -1
    /\ cell_count' = 0
    /\ row' = NoRow
    /\ code' = 0
    /\ returned' = <<>>
    /\ UNCHANGED database

Fail(c) ==
    /\ pc' = "failed"
    /\ code' = c
    /\ UNCHANGED <<pgno, cell_idx, cell_count, row, returned, database>>

Panic ==
    /\ pc' = "panicked"
    /\ UNCHANGED <<pgno, cell_idx, cell_count, row, code, returned, database>>

\* One round of the loop of load_leftmost_leaf, for each thing the page can be.
GetRefuses ==
    /\ pc = "load"
    /\ ~InFile(pgno)
    /\ Fail(SQLITE_NOTADB)
    /\ UNCHANGED page

\* The file may fail to be read at any time.
ReadFails ==
    /\ pc = "load"
    /\ InFile(pgno)
    /\ Fail(SQLITE_IOERR)
    /\ UNCHANGED page

PageType(p) == Byte(get(p), 0)

Load ==
    /\ pc = "load"
    /\ InFile(pgno)
    /\ page' = get(pgno)

Child_CountField(data) == read_u16(data, 3)
Child(data) == read_u32(data, read_u16(data, 12))

Descend ==
    /\ Load
    /\ PageType(pgno) = PTYPE_INTERIOR_TABLE
    /\ read_u16(page', 12) # 0
    /\ \/ /\ Has(page', read_u16(page', 12), 4)
          /\ pgno' = Child(page')
          /\ UNCHANGED <<pc, cell_idx, cell_count, row, code, returned, database>>
       \/ /\ ~Has(page', read_u16(page', 12), 4)
          /\ Panic

LoadCorrupt ==
    /\ Load
    /\ \/ PageType(pgno) = PTYPE_INTERIOR_TABLE /\ read_u16(page', 12) = 0
       \/ PageType(pgno) \notin {PTYPE_LEAF_TABLE, PTYPE_INTERIOR_TABLE}
    /\ Fail(SQLITE_CORRUPT)

LoadLeaf ==
    /\ Load
    /\ PageType(pgno) = PTYPE_LEAF_TABLE
    /\ pc' = "loaded"
    /\ cell_count' = read_u16(page', 3)
    /\ UNCHANGED <<pgno, cell_idx, row, code, returned, database>>

\* read_current_cell: the row the cell pointer leads to; ok is FALSE where the
\* code indexes or slices past the page, or down from a negative length.
read_current_cell(data, idx) ==
    LET ptr_offset == (IF Byte(data, 0) = PTYPE_INTERIOR_TABLE THEN 12 ELSE 8) + 2 * idx
        length == read_varint(data, read_u16(data, ptr_offset))
        id == read_varint(data, length.next)
        slice == Has(data, id.next, length.value) /\ length.value >= 0
    IN IF ~Has(data, ptr_offset, 2) THEN [ok |-> FALSE]
       ELSE IF ~slice THEN [ok |-> FALSE]
       ELSE [ok |-> TRUE, rowid |-> id.value,
             payload |-> SubSeq(data, id.next + 1, id.next + length.value)]

InPage_OneMore(idx, count) == idx <= count
InPage(idx, count) == idx < count

\* advance: the next cell of the page, the end, or a panic.
Advance ==
    /\ cell_idx' = cell_idx + 1
    /\ \/ /\ InPage(cell_idx', cell_count)
          /\ LET cell == read_current_cell(page, cell_idx')
             IN \/ /\ cell.ok
                   /\ pc' = "row"
                   /\ row' = [rowid |-> cell.rowid, payload |-> cell.payload]
                   /\ returned' = Append(returned, row')
                \/ /\ ~cell.ok
                   /\ pc' = "panicked"
                   /\ UNCHANGED <<row, returned>>
       \/ /\ ~InPage(cell_idx', cell_count)
          /\ pc' = "eof"
          /\ UNCHANGED <<row, returned>>
    /\ UNCHANGED <<pgno, page, cell_count, code, database>>

\* first goes to the first cell of the leaf, next to the cell after this one.
FirstCell == pc = "loaded" /\ Advance
next == pc = "row" /\ Advance

\* next on an exhausted cursor returns false and changes nothing.
NextAtEof == pc = "eof" /\ UNCHANGED vars

load_leftmost_leaf == GetRefuses \/ Descend \/ LoadCorrupt \/ LoadLeaf

Next == first \/ load_leftmost_leaf \/ ReadFails \/ FirstCell \/ next \/ NextAtEof

\* The descent is one loop of one call: once entered, it runs on.  No read has
\* to fail.
Spec == Init /\ [][Next]_vars /\ WF_vars(load_leftmost_leaf)

----------------------------------------------------------------------------

\* The pages the descent meets from page p in at most n steps, by the shapes.
ChildOf(p) == IF tree[p].kind = "interior" THEN tree[p].child ELSE p
Path[n \in Nat] ==
    [p \in 0 .. Len(tree) + 1 |->
        IF n = 0 \/ p \notin DOMAIN tree THEN p ELSE Path[n - 1][ChildOf(p)]]
EndOf(p) == Path[Len(tree)][p]
Ends(p) == EndOf(p) \in DOMAIN tree => tree[EndOf(p)].kind # "interior"

\* The rows the cursor has shown are the first rows of the leaf that the first
\* children lead to, in its order and none twice, and at the end they are all
\* of them; rowids of every varint length survive the bytes.  (advance and
\* read_current_cell, src/rust-port/src/btree/mod.rs:149-184.)
ScanIsLeftmostLeaf ==
    /\ pc \in {"row", "eof"} => EndOf(pgno) \in DOMAIN tree
    /\ pc = "row" => /\ IsPrefix(returned, tree[EndOf(pgno)].rows)
                     /\ returned # <<>> /\ Last(returned) = row
    /\ pc = "eof" => returned = tree[EndOf(pgno)].rows

\* first fails with NOTADB only where a page number leaves the file, with
\* CORRUPT only on a damaged page, and the code panics only on a page with a
\* cell pointer, or the length of a payload, that leaves it, or a negative
\* length.  (read_current_cell slices without a check, 180-182.)
FailuresAreTheFiles ==
    /\ code = SQLITE_NOTADB => pgno \notin DOMAIN tree
    /\ code = SQLITE_CORRUPT => pgno \in DOMAIN tree /\ tree[pgno].kind \in {"nocell", "other"}
    /\ pc = "panicked" => tree[pgno].kind \in {"badcell", "farcell", "badlength"}

\* A descent ends unless the first children form a cycle: nothing else bounds
\* the loop of src/rust-port/src/btree/mod.rs:117.
DescentEnds == (pc = "load" /\ Ends(pgno)) ~> pc # "load"
=============================================================================
