------------------------------- MODULE Parser -------------------------------
(***************************************************************************)
(* The statement parser of parse/mod.rs over the tokens of tokenize, and   *)
(* parse_sql, which runs one after the other.  The calls of the recursive  *)
(* descent that are still to come are a stack, plan; each step takes the   *)
(* first of them and at most one token.                                    *)
(***************************************************************************)
EXTENDS Tokenizer

CONSTANT MaxInteger     \* the largest i64

VARIABLES
    pos,            \* the token looked at, from 0
    plan,           \* what the running parse functions still expect
    stmt,           \* the statement being built
    stmts,          \* the statements parsed so far
    parser          \* "waiting" for the tokens, "running", "done" or "error"

parsevars == <<pos, plan, stmt, stmts, parser>>

\* The synthetic token behind the last one is a keyword that is none.
EOF == [kind |-> "NotKeyword", text |-> <<>>]
peek == IF pos < Len(tokens) THEN tokens[pos + 1] ELSE EOF
is(kind) == peek.kind = kind

KeywordKinds == Range(Keywords) \cup {"NotKeyword"}
Operators == {"=", "<>", "<", "<=", ">", ">="}

NoStmt == [kind |-> "empty"]
Blank_stmt(kind) ==
    CASE kind = "select" -> [kind |-> kind, all |-> FALSE, columns |-> <<>>, from |-> <<>>, where |-> <<>>]
      [] kind = "insert" -> [kind |-> kind, table |-> <<>>, values |-> <<>>]
      [] kind = "create" -> [kind |-> kind, table |-> <<>>, columns |-> <<>>]
      [] kind = "drop"   -> [kind |-> kind, table |-> <<>>]

\* What parse_select, parse_insert, parse_create_table and parse_drop_table
\* call after the keyword that chose them.
PlanOf(kind) ==
    CASE kind = "select" -> <<"columns", "FROM", "from", "where">>
      [] kind = "insert" -> <<"INTO", "table", "VALUES", "(", "value", ")">>
      [] kind = "create" -> <<"TABLE", "table", "(", "coldef", ")">>
      [] kind = "drop"   -> <<"TABLE", "table">>
StmtKind == [SELECT |-> "select", INSERT |-> "insert", CREATE |-> "create", DROP |-> "drop"]

ParserInit ==
    /\ pos = 0
    /\ plan = <<>>
    /\ stmt = NoStmt
    /\ stmts = <<>>
    /\ parser = "waiting"

\* parse_sql goes on to the parser only when tokenize returned Ok.
StartParser ==
    /\ parser = "waiting" /\ lexer = "done"
    /\ parser' = "running"
    /\ UNCHANGED <<lexvars, pos, plan, stmt, stmts>>

TokenizeFailed ==
    /\ parser = "waiting" /\ lexer = "error"
    /\ parser' = "error"
    /\ UNCHANGED <<lexvars, pos, plan, stmt, stmts>>

Running == parser = "running"
Expecting(call) == Running /\ plan # <<>> /\ Head(plan) = call

ParseError ==
    /\ parser' = "error"
    /\ UNCHANGED <<lexvars, pos, plan, stmt, stmts>>

\* Take a token, go on with the calls next, and the statement as it is now.
Take(next, s) ==
    /\ pos' = pos + 1
    /\ plan' = next
    /\ stmt' = s
    /\ UNCHANGED <<lexvars, stmts, parser>>

\* Go on without a token.
Pass(next) ==
    /\ plan' = next
    /\ UNCHANGED <<lexvars, pos, stmt, stmts, parser>>

----------------------------------------------------------------------------
(* parse and parse_one_stmt: the loop over statements.                     *)

BetweenStmts == Running /\ plan = <<>> /\ stmt = NoStmt

skip_optional_semi == BetweenStmts /\ is(";") /\ Take(<<>>, NoStmt)

parse_one_stmt ==
    /\ BetweenStmts /\ pos < Len(tokens) /\ ~is(";")
    /\ IF peek.kind \in DOMAIN StmtKind
       THEN LET kind == StmtKind[peek.kind] IN Take(PlanOf(kind), Blank_stmt(kind))
       ELSE ParseError

\* A semicolon after a statement is optional.
StmtParsed ==
    /\ Running /\ plan = <<>> /\ stmt # NoStmt
    /\ stmts' = Append(stmts, stmt)
    /\ stmt' = NoStmt
    /\ UNCHANGED <<lexvars, pos, plan, parser>>

Parsed ==
    /\ BetweenStmts /\ pos >= Len(tokens)
    /\ parser' = "done"
    /\ UNCHANGED <<lexvars, pos, plan, stmt, stmts>>

----------------------------------------------------------------------------
(* The calls.  Each of the operators below is one of them.                 *)

Terminals == {"FROM", "INTO", "VALUES", "TABLE", "(", ")"}
Rest == Tail(plan)

\* expect_keyword and expect_punct
expect ==
    \E terminal \in Terminals :
       /\ Expecting(terminal)
       /\ IF is(terminal) THEN Take(Rest, stmt) ELSE ParseError

\* parse_identifier takes an identifier, never a keyword.
IdentifierInto(call, s) ==
    /\ Expecting(call)
    /\ IF is("id") THEN Take(Rest, s) ELSE ParseError
parse_identifier ==
    \/ IdentifierInto("from", [stmt EXCEPT !.from = peek.text])
    \/ IdentifierInto("table", [stmt EXCEPT !.table = peek.text])

Columns ==
    /\ Expecting("columns")
    /\ IF is("*") THEN Take(Rest, [stmt EXCEPT !.all = TRUE])
                  ELSE Pass(<<"column">> \o Rest)

Column ==
    /\ Expecting("column")
    /\ IF is("id")
       THEN Take(<<"columns,">> \o Rest, [stmt EXCEPT !.columns = Append(@, peek.text)])
       ELSE ParseError

\* A comma makes the loop of a list go round again.
Comma(list, member) ==
    /\ Expecting(list)
    /\ IF is(",") THEN Take(<<member>> \o Rest, stmt) ELSE Pass(Rest)

----------------------------------------------------------------------------
(* Values.                                                                 *)

DigitValue(d) == (CHOOSE n \in DOMAIN DigitSeq : DigitSeq[n] = d) - 1
NumberOf(digits) == FoldLeft(LAMBDA n, d : 10 * n + DigitValue(d), 0, digits)

\* A float token that Rust cannot read as f64 ends in an exponent without digits.
ReadsAsReal(digits) == Last(digits) \notin {"e", "E", "+", "-"}

IsValue(t) ==
    \/ t.kind \in {"string", "NULL", "id"}
    \/ t.kind = "integer" /\ NumberOf(t.text) <= MaxInteger
    \/ t.kind = "float" /\ ReadsAsReal(t.text)

ValueOf(t) ==
    CASE t.kind = "integer" -> [kind |-> "integer", value |-> NumberOf(t.text)]
      [] t.kind = "NULL"    -> [kind |-> "null"]
      [] t.kind \in {"float", "string", "id"} -> [kind |-> t.kind, value |-> t.text]

parse_value ==
    /\ Expecting("value")
    /\ IF IsValue(peek)
       THEN Take(<<"values,">> \o Rest, [stmt EXCEPT !.values = Append(@, ValueOf(peek))])
       ELSE ParseError

\* A column of CREATE TABLE: a name, and a type when a name or any keyword
\* follows, which must then be a name.
ColumnName ==
    /\ Expecting("coldef")
    /\ IF is("id")
       THEN Take(<<"type">> \o Rest,
                 [stmt EXCEPT !.columns = Append(@, [name |-> peek.text, type |-> <<>>])])
       ELSE ParseError

is_id_or_keyword == is("id") \/ peek.kind \in KeywordKinds

ColumnType ==
    /\ Expecting("type")
    /\ CASE is("id") -> Take(<<"coldefs,">> \o Rest,
                             [stmt EXCEPT !.columns[Len(stmt.columns)].type = UpperWord(peek.text)])
         [] is_id_or_keyword /\ ~is("id") -> ParseError
         [] OTHER -> Pass(<<"coldefs,">> \o Rest)

----------------------------------------------------------------------------
(* WHERE: an OR of ANDs of comparisons, each built from the left; the      *)
(* clause is the sequence of its ANDs, an AND the sequence of its          *)
(* comparisons.                                                            *)

Where ==
    /\ Expecting("where")
    /\ IF is("WHERE") THEN Take(<<"cmp", "op", "rhs", "and", "or">> \o Rest, [stmt EXCEPT !.where = << <<>> >>])
                      ELSE Pass(Rest)

\* The last AND of the clause with the comparison cmp at its end.
Conjoined(where, cmp) == [where EXCEPT ![Len(where)] = Append(@, cmp)]

CmpColumn ==
    /\ Expecting("cmp")
    /\ IF is("id")
       THEN Take(Rest, [stmt EXCEPT !.where = Conjoined(@, [column |-> peek.text])])
       ELSE ParseError

parse_where_op ==
    /\ Expecting("op")
    /\ IF peek.kind \in Operators
       THEN Take(Rest, [stmt EXCEPT !.where[Len(stmt.where)] =
                          Append(Front(@), [column |-> Last(@).column, op |-> peek.kind])])
       ELSE ParseError

CmpValue ==
    /\ Expecting("rhs")
    /\ IF IsValue(peek)
       THEN Take(Rest, [stmt EXCEPT !.where[Len(stmt.where)] =
                          Append(Front(@), [column |-> Last(@).column, op |-> Last(@).op,
                                            value |-> ValueOf(peek)])])
       ELSE ParseError

\* parse_where_and goes round while there is an AND, parse_where_expr while
\* there is an OR.
AfterOr_SameAnd(where) == where
AfterOr(where) == Append(where, <<>>)

parse_where_and ==
    /\ Expecting("and")
    /\ IF is("AND") THEN Take(<<"cmp", "op", "rhs", "and">> \o Rest, stmt) ELSE Pass(Rest)

parse_where_expr ==
    /\ Expecting("or")
    /\ IF is("OR") THEN Take(<<"cmp", "op", "rhs", "and", "or">> \o Rest,
                             [stmt EXCEPT !.where = AfterOr(@)])
                   ELSE Pass(Rest)

parse ==
    \/ StartParser \/ TokenizeFailed \/ skip_optional_semi \/ parse_one_stmt \/ StmtParsed \/ Parsed
    \/ expect \/ parse_identifier \/ Columns \/ Column \/ parse_value
    \/ Comma("columns,", "column") \/ Comma("values,", "value") \/ Comma("coldefs,", "coldef")
    \/ ColumnName \/ ColumnType \/ Where \/ CmpColumn \/ parse_where_op \/ CmpValue
    \/ parse_where_and \/ parse_where_expr

parse_sql == (tokenize /\ UNCHANGED parsevars) \/ parse

----------------------------------------------------------------------------
(* The other way round: the tokens of a statement, as the grammar of the   *)
(* module's comment has it.                                                *)

\* A token by what counts of it: its kind, the text of a name or a literal,
\* the number of an integer.  Names are compared in upper case, which is how
\* CREATE TABLE keeps the types.
Sign(kind, word, number) == <<[kind |-> kind, text |-> word, number |-> number]>>
Word(kind) == Sign(kind, <<>>, 0)
Name(word) == Sign("id", UpperWord(word), 0)
Literal(v) ==
    CASE v.kind = "integer" -> Sign(v.kind, <<>>, v.value)
      [] v.kind = "null"    -> Word("NULL")
      [] v.kind = "id"      -> Name(v.value)
      [] v.kind \in {"float", "string"} -> Sign(v.kind, v.value, 0)

\* The sign of a token, and the signs of it that are part of a statement.
SignOf(t) ==
    CASE t.kind = "id" -> Name(t.text)
      [] t.kind = "integer" -> Sign(t.kind, <<>>, NumberOf(t.text))
      [] t.kind \in {"float", "string", "blob", "variable"} -> Sign(t.kind, t.text, 0)
      [] OTHER -> Word(t.kind)
Significant(t) == IF t.kind = ";" THEN <<>> ELSE SignOf(t)

\* The phrases of a list with a separator between each two.
Joined(phrases, kind) ==
    FoldLeft(LAMBDA out, phrase : out \o Word(kind) \o phrase, Head(phrases), Tail(phrases))
Each(Phrase(_), list) == [k \in DOMAIN list |-> Phrase(list[k])]
InFull(Phrase(_), list) == FlattenSeq(Each(Phrase, list))

Comparison(c) == Name(c.column) \o Word(c.op) \o Literal(c.value)
Conjunction(cmps) == Joined(Each(Comparison, cmps), "AND")
Definition(d) == Name(d.name) \o (IF d.type = <<>> THEN <<>> ELSE Name(d.type))

Written(s) ==
    CASE s.kind = "select" ->
           Word("SELECT") \o (IF s.all THEN Word("*") ELSE Joined(Each(Name, s.columns), ","))
           \o Word("FROM") \o Name(s.from)
           \o (IF s.where = <<>> THEN <<>>
               ELSE Word("WHERE") \o Joined(Each(Conjunction, s.where), "OR"))
      [] s.kind = "insert" ->
           Word("INSERT") \o Word("INTO") \o Name(s.table) \o Word("VALUES")
           \o Word("(") \o Joined(Each(Literal, s.values), ",") \o Word(")")
      [] s.kind = "create" ->
           Word("CREATE") \o Word("TABLE") \o Name(s.table)
           \o Word("(") \o Joined(Each(Definition, s.columns), ",") \o Word(")")
      [] s.kind = "drop" -> Word("DROP") \o Word("TABLE") \o Name(s.table)

Terminated(s) == Written(s) \o Word(";")

\* What a program is written as: a semicolon after each statement or after none.
Writings(p) == {InFull(Written, p), InFull(Terminated, p)}

\* What parse accepts is what it says: the statements it returns are written as the
\* tokens it was given, each token once and in order, AND binding tighter than
\* OR; and what the grammar has it accepts: a token sequence that ends in an
\* error is none of the writings of programs.  (Every parse function moves pos
\* itself, src/rust-port/src/parse/mod.rs:179-415.)
ParseInvertsWriting(writings) ==
    /\ parser = "done" => InFull(Written, stmts) = InFull(Significant, tokens)
    /\ parser = "error" /\ lexer = "done" => InFull(SignOf, tokens) \notin writings
=============================================================================
