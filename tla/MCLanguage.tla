----------------------------- MODULE MCLanguage -----------------------------
(* The pure parts of the SQL engine on bounded inputs: texts of a few bytes,  *)
(* the programs below written out with each blank, their tokens with one      *)
(* changed, triples of values, and patterns.                                  *)
EXTENDS Parser, Eval

VARIABLE probe      \* what the state checks beside the text: a pattern, or values

Chars(string) == [k \in 1 .. Len(string) |-> SubSeq(string, k, k)]

Backslash == 92

Lower == Chars("abcdefghijklmnopqrstuvwxyz")
Upp == Chars("ABCDEFGHIJKLMNOPQRSTUVWXYZ")
\* The byte of a code point, where one occurs in a value.
CharOf == [c \in {32, Apostrophe, Dash, Point} \cup (48 .. 57) \cup (65 .. 90) \cup (97 .. 122) |->
             CASE c = 32 -> " " [] c = Apostrophe -> "'" [] c = Dash -> "-" [] c = Point -> "."
               [] c \in 48 .. 57 -> DigitSeq[c - 47]
               [] c \in 65 .. 90 -> Upp[c - 64]
               [] c \in 97 .. 122 -> Lower[c - 96]]
MCLetters == Range(Lower) \cup Range(Upp)
MCUpper == [c \in MCLetters |->
              IF c \in Range(Lower) THEN Upp[CHOOSE k \in DOMAIN Lower : Lower[k] = c] ELSE c]
Words == {"SELECT", "FROM", "WHERE", "AND", "OR", "INSERT", "INTO", "VALUES",
          "CREATE", "TABLE", "DROP", "NULL", "KEY"}
MCKeywords == [w \in {Chars(word) : word \in Words} |->
                 CHOOSE word \in Words : Chars(word) = w]

\* Programs: each shape of statement, lists of one and two, AND inside OR.
a == Chars("a")
x == Chars("X_1")
Number1(n) == [kind |-> "integer", value |-> n]
Null1 == [kind |-> "null"]
Const(kind, string) == [kind |-> kind, value |-> Chars(string)]
Cmp(op, v) == [column |-> x, op |-> op, value |-> v]
Wheres == { <<>>, << <<Cmp("<=", Number1(9))>> >>,
            << <<Cmp("=", Const("string", "b''-")), Cmp("<>", Null1)>>, <<Cmp("<", Const("float", "1.5e+2"))>> >>,
            << <<Cmp(">", Const("id", "x"))>>, <<Cmp(">=", Number1(10)), Cmp("=", Number1(0))>> >> }
Statements ==
    { [kind |-> "select", all |-> TRUE, columns |-> <<>>, from |-> a, where |-> w] : w \in Wheres }
    \cup { [kind |-> "select", all |-> FALSE, columns |-> c, from |-> x, where |-> <<>>] : c \in {<<a>>, <<x, a>>} }
    \cup { [kind |-> "insert", table |-> a, values |-> v] :
             v \in {<<Null1>>, <<Number1(12), Const("string", "/*")>>} }
    \cup { [kind |-> "create", table |-> x, columns |-> c] :
             c \in {<<[name |-> a, type |-> Chars("INT")]>>,
                    <<[name |-> a, type |-> <<>>], [name |-> x, type |-> Chars("T")]>>} }
    \cup { [kind |-> "drop", table |-> a] }
Programs == {<<>>} \cup {<<s>> : s \in Statements} \cup {<<[kind |-> "drop", table |-> a], s>> : s \in Statements}

\* The bytes of a token.
DigitsOf(n) == Chars(ToString(n))
BytesOf(t) ==
    CASE t.kind = "integer" -> DigitsOf(t.number)
      [] t.kind = "string" -> <<Quote>> \o t.text \o <<Quote>>
      [] t.kind \in {"id", "float"} -> t.text
      [] OTHER -> Chars(t.kind)
Blanks == {<<" ">>, <<Newline>>, Chars("/*-'*/"), Chars("--/*") \o <<Newline>>}
TextOf(p, blank) ==
    FlattenSeq([k \in DOMAIN InFull(Written, p) |-> BytesOf(InFull(Written, p)[k]) \o blank])

Upto(n, S) == UNION {[1 .. k -> S] : k \in 0 .. n}
Alphabet == {"o", "r", "X", "e", "1", ".", "'", "\n", " ", "-", "/", "*", "<", "=", "!", "?", "^"}
Texts == Upto(3, Alphabet)
         \cup [1 .. 4 -> {"'", "-", "/", "*", "\n"}] \cup [1 .. 5 -> {"/", "*", "1"}]
         \cup [1 .. 5 -> {"1", ".", "e", "-"}]
         \cup {TextOf(p, blank) : p \in Programs, blank \in Blanks}

\* The tokens of a program as tokenize would push them, and one token changed.
TokenOf(sign) ==
    [kind |-> sign.kind, line |-> 1, col |-> 0, offset |-> 0,
     text |-> IF sign.kind = "integer" THEN DigitsOf(sign.number) ELSE sign.text]
TokensOf(p) == [k \in DOMAIN InFull(Written, p) |-> TokenOf(InFull(Written, p)[k])]
Strays == {TokenOf(Word(kind)[1]) : kind \in {";", ",", "(", "*", "AND", "KEY", "SELECT", "<"}}
          \cup {TokenOf(Name(a)[1]), TokenOf(Sign("integer", <<>>, MaxInteger + 1)[1]),
                TokenOf(Sign("float", Chars("1e"), 0)[1])}
Changed(list) ==
    {RemoveAt(list, k) : k \in DOMAIN list}
    \cup {InsertAt(list, k, t) : k \in 1 .. Len(list) + 1, t \in Strays}
    \cup {ReplaceAt(list, k, t) : k \in DOMAIN list, t \in Strays}
Lists == UNION {Changed(TokensOf(p)) : p \in Programs}

----------------------------------------------------------------------------

\* Values of every class: the boundaries of an integer, texts that read as
\* numbers and texts that do not, blobs with and without ASCII, infinities.
CodeOfChar(char1) == CHOOSE c \in DOMAIN CharOf : CharOf[c] = char1
Code(string) == [k \in 1 .. Len(string) |-> CodeOfChar(Chars(string)[k])]
Values ==
    {Null}
    \cup {Integer(n) : n \in {MinInt, MinInt + 1, -2, -1, 0, 1, 2, 7, MaxInt}}
    \cup {Real(n, 2) : n \in {-3, 0, 1, 2, 5}} \cup {Real(-1, 0), Real(1, 0)}
    \cup {Text(Code(string)) : string \in {"", "a", "1", "-1", "1.5", "0", "b' a", "-128"}}
    \cup {Blob(bytes) : bytes \in {<<>>, <<65>>, <<200>>, <<200, 1>>}}

\* a, b, A, an e with an accent, and what is special in a pattern.
Small == {97, 98}
MCCodePoints == Small \cup {65, 233, Star, Question, Open, Close, Caret, Dash, Percent, Underscore, Backslash}
Strings == Upto(3, Small) \cup Upto(2, {65, 233, Close, Star, Dash})
Patterns ==
    Upto(2, MCCodePoints)
    \cup {<<Open>> \o body \o <<Close>> : body \in [1 .. 3 -> Small \cup {Close, Caret, Dash}]}
    \cup [1 .. 4 -> {97, Star, Question, Open, Close}]
    \cup [1 .. 4 -> {97, 65, Percent, Underscore, Backslash}]

\* The literals quote writes, a negative number and a real aside: they are two tokens, or another class.
Quotable == {v \in Values : v.type \in {"null", "text", "blob"} \/ (v.type = "integer" /\ v.int >= 0)}
QuotedText(v) == [k \in DOMAIN quote_fn(v).str |-> CharOf[quote_fn(v).str[k]]]

NoProbe == [kind |-> "none"]
Init ==
    /\ ParserInit
    /\ \/ \E input \in Texts : TokenizerInit(input) /\ probe = NoProbe
       \/ \E v \in Quotable : TokenizerInit(QuotedText(v)) /\ probe = [kind |-> "quoted", value |-> v]
       \/ /\ text = <<>> /\ i = 0 /\ line = 1 /\ col = 0
          /\ tokens \in Lists
          /\ lexer = "done"
          /\ probe = NoProbe
       \/ /\ TokenizerInit(<<>>)
          /\ probe \in [kind : {"value"}, x : Values] \cup [kind : {"prefix"}, x : MCCodePoints]

\* The value with two more, and the patterns that begin with the code point.
Probe ==
    /\ \/ probe.kind = "value" /\ probe' \in [kind : {"values"}, x : {probe.x}, y : Values, z : Values]
       \/ /\ probe.kind = "prefix"
          /\ probe' \in [kind : {"pattern"}, pattern : {pat \in Patterns : Next1(pat) \in {0, probe.x}}]
    /\ UNCHANGED <<lexvars, parsevars>>

Probing == probe.kind \in {"value", "values", "prefix", "pattern"}
Run == ~Probing /\ parse_sql /\ UNCHANGED probe
Ended == (Probing \/ parser \in {"done", "error"}) /\ UNCHANGED <<lexvars, parsevars, probe>>

Spec == Init /\ [][Run \/ Probe \/ Ended]_<<lexvars, parsevars, probe>>

----------------------------------------------------------------------------

\* The tokens of a text lie in it in order with only blanks between
\* (src/rust-port/src/tokenize/mod.rs:206-421).
TokenizeTilesTheText == text # <<>> => TokensTileTheText

AllWritings == UNION {Writings(p) : p \in Programs}

\* The statements parse_sql returns are written as its input, and every
\* program is one it accepts (src/rust-port/src/parse/mod.rs:138-423).
ParseIsTheGrammar == ParseInvertsWriting(AllWritings)

\* The forms and operators of an expression agree with each other
\* (src/rust-port/src/expr/mod.rs:310-731).
EvaluationAgrees == probe.kind = "values" => OperatorsAgree(probe.x, probe.y, probe.z)

\* What quote writes is one token, which stands for the value.
QuotesReadBack ==
    LET v == probe.value
        t == tokens[1]
        body == [k \in DOMAIN t.text |-> CodeOfChar(t.text[k])]
    IN lexer = "done" =>
         /\ Len(tokens) = 1
         /\ CASE IsNull(v) -> t.kind = "NULL"
              [] v.type = "integer" -> t.kind = "integer" /\ NumberOf(t.text) = v.int
              [] v.type = "text" -> t.kind = "string" /\ body = Replaced(v.str, <<Apostrophe>>, <<Apostrophe, Apostrophe>>)
              [] v.type = "blob" -> t.kind = "blob" /\ body = HexBytes(v.bytes, 97)

\* The functions agree with each other and with the evaluator, and what quote
\* writes the tokenizer reads (src/rust-port/src/func/mod.rs:81-472).
ScalarFunctionsAgree ==
    /\ probe.kind = "values" /\ IsNull(probe.z) => FunctionsAgree(probe.x, probe.y)
    /\ probe.kind = "quoted" => lexer # "error" /\ QuotesReadBack

\* GLOB and LIKE match what their patterns mean
\* (src/rust-port/src/util/pattern.rs:125-359).
MatchIsMeaning == probe.kind = "pattern" => PatternsMean(probe.pattern, Strings, Backslash)
=============================================================================
