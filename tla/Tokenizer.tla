----------------------------- MODULE Tokenizer -----------------------------
(***************************************************************************)
(* tokenize of tokenize/mod.rs: one pass over the bytes of a statement     *)
(* with an index, a line and a column, one action per branch of the loop.  *)
(* Offsets are the code's, from 0; a byte is a one-character string.       *)
(***************************************************************************)
EXTENDS Integers, Sequences, SequencesExt, FiniteSetsExt

CONSTANTS
    Letters,        \* the letters that occur, of both cases
    Upper,          \* to_ascii_uppercase on them
    Keywords        \* the words match_keyword knows, and the keyword of each

VARIABLES
    text,           \* the input
    i,              \* the byte looked at
    line, col,      \* the position the code keeps
    tokens,         \* the tokens pushed so far
    lexer           \* "running", "done" or "error"

lexvars == <<text, i, line, col, tokens, lexer>>

Newline == "\n"
Quote == "'"
DigitSeq == <<"0", "1", "2", "3", "4", "5", "6", "7", "8", "9">>
Digits == Range(DigitSeq)
Spaces == {" ", "\t", "\r", "\f"}
Alpha == Letters \cup {"_"}
Alnum == Alpha \cup Digits

Len0 == Len(text)
At(k) == IF k < Len0 THEN text[k + 1] ELSE ""
Slice(from, to) == SubSeq(text, from + 1, to)

\* The first index from k on that is outside S, or the end of the text.
SkipOver(S, k) == Min({j \in k .. Len0 : j = Len0 \/ At(j) \notin S})
\* The first index from k on that is in S, or the end of the text.
SkipTo(S, k) == Min({j \in k .. Len0 : j = Len0 \/ At(j) \in S})

Newlines(from, to) == Cardinality({k \in from .. to - 1 : At(k) = Newline})
\* The column after the bytes from .. to - 1, each but a newline counted.
ColumnAfter(from, to) ==
    LET breaks == {k \in from .. to - 1 : At(k) = Newline}
    IN IF breaks = {} THEN col + to - from ELSE to - Max(breaks) - 1

TokenizerInit(input) ==
    /\ text = input
    /\ i = 0
    /\ line = 1
    /\ col = 0
    /\ tokens = <<>>
    /\ lexer = "running"

Reading(c) == lexer = "running" /\ i < Len0 /\ At(i) = c
MoveTo(k, l, c) == i' = k /\ line' = l /\ col' = c

LexError ==
    /\ lexer' = "error"
    /\ UNCHANGED <<text, i, line, col, tokens>>

\* A token of the bytes at the index, which is left at next.
Push(kind, body, next, c) ==
    /\ tokens' = Append(tokens, [kind |-> kind, text |-> body, line |-> line, col |-> col, offset |-> i])
    /\ MoveTo(next, line, c)
    /\ UNCHANGED <<text, lexer>>

Skip(k, l, c) == MoveTo(k, l, c) /\ UNCHANGED <<text, tokens, lexer>>

----------------------------------------------------------------------------
(* Whitespace and comments.                                                *)

SkipNewline == Reading(Newline) /\ Skip(i + 1, line + 1, 0)

SkipSpace == \E c \in Spaces : Reading(c) /\ Skip(i + 1, line, col + 1)

LineComment_OpenerOnly ==
    /\ Reading("-") /\ At(i + 1) = "-"
    /\ Skip(i + 2, line, col + 2)

\* Up to the newline, whose turn resets the column.
LineComment ==
    /\ Reading("-") /\ At(i + 1) = "-"
    /\ Skip(SkipTo({Newline}, i), line, col)

\* Where the loop stops: at the closing */, or at the last byte when there is
\* none, and that byte is then read as if it were outside.
CommentStop(from) ==
    Min({k \in from .. Len0 : k + 1 >= Len0 \/ (At(k) = "*" /\ At(k + 1) = "/")})

\* /*/ has no room for its end, and its last byte is read again.
BlockComment ==
    /\ Reading("/") /\ At(i + 1) = "*"
    /\ LET stop == CommentStop(i + 2)
           next == IF stop + 1 < Len0 THEN stop + 2 ELSE stop
       IN Skip(next, line + Newlines(i, stop), ColumnAfter(i, stop) + next - stop)

----------------------------------------------------------------------------
(* Literals, names, numbers and variables.                                 *)

\* The closing quote of the string whose body starts at from: quotes in pairs
\* belong to the body.  Its end is a newline or Len0 when it is not closed.
Closing(from) ==
    LET Run(k) == SkipOver({Quote}, k) - k
        Starts(k) == At(k) = Quote /\ (k = from \/ At(k - 1) # Quote)
        ends == {k + Run(k) - 1 : k \in {j \in from .. Len0 - 1 : Starts(j) /\ Run(j) % 2 = 1}}
    IN Min(ends \cup {SkipTo({Newline}, from)})

\* The column moves once per byte of the body, and by the whole body again at
\* the closing quote.
StringLiteral ==
    /\ Reading(Quote)
    /\ LET from == i + 1
           end == Closing(from)
           body == end - from
       IN IF At(end) = Quote
          THEN Push("string", Slice(from, end), end + 1, col + 1 + body + body + 2)
          ELSE LexError

\* A blob may hold newlines, which the line does not count.
BlobLiteral ==
    /\ \E c \in {"X", "x"} : Reading(c)
    /\ At(i + 1) = Quote
    /\ LET from == i + 2
           end == SkipTo({Quote}, from)
       IN IF end < Len0
          THEN Push("blob", Slice(from, end), end + 1, col + 2 + end - from + 2)
          ELSE LexError

match_keyword(word) == IF word \in DOMAIN Keywords THEN Keywords[word] ELSE "id"

\* to_ascii_uppercase
UpperWord(name) == [k \in DOMAIN name |-> IF name[k] \in Letters THEN Upper[name[k]] ELSE name[k]]

Identifier ==
    /\ lexer = "running" /\ At(i) \in Alpha
    /\ ~(At(i) \in {"X", "x"} /\ At(i + 1) = Quote)
    /\ LET end == SkipOver(Alnum, i)
           name == Slice(i, end)
       IN Push(match_keyword(UpperWord(name)), name, end, col + end - i)

\* Digits, then a point with digits, then an exponent, whose digits may be missing.
IntegerEnd == SkipOver(Digits, i)
FractionEnd == IF At(IntegerEnd) = "." THEN SkipOver(Digits, IntegerEnd + 1) ELSE IntegerEnd
NumberEnd ==
    IF At(FractionEnd) \in {"e", "E"}
    THEN LET k == FractionEnd + 1
         IN SkipOver(Digits, IF At(k) \in {"+", "-"} THEN k + 1 ELSE k)
    ELSE FractionEnd

Number ==
    /\ lexer = "running" /\ At(i) \in Digits
    /\ LET kind == IF NumberEnd = IntegerEnd THEN "integer" ELSE "float"
       IN Push(kind, Slice(i, NumberEnd), NumberEnd, col + NumberEnd - i)

Variable ==
    /\ \E c \in {"?", "$", ":", "@"} : Reading(c)
    /\ LET end == SkipOver(Alnum, i + 1)
       IN Push("variable", Slice(i, end), end, col + end - i)

----------------------------------------------------------------------------
(* Punctuation.                                                            *)

OneByte == {"(", ")", ",", ";", ".", "+", "-", "*", "/", "%", "=", "<", ">", "~", "|", "&"}
TwoBytes == {<<"<", "=">>, <<"<", ">">>, <<"<", "<">>, <<">", "=">>, <<">", ">">>,
             <<"!", "=">>, <<"|", "|">>}
Kind(pair) ==
    CASE pair = <<"<", "=">> -> "<="
      [] pair \in {<<"<", ">">>, <<"!", "=">>} -> "<>"
      [] pair = <<"<", "<">> -> "<<"
      [] pair = <<">", "=">> -> ">="
      [] pair = <<">", ">">> -> ">>"
      [] pair = <<"|", "|">> -> "||"

StartsElsewhere ==
    \/ At(i) \in Alnum \cup Spaces \cup {Newline, Quote, "?", "$", ":", "@"}
    \/ <<At(i), At(i + 1)>> \in {<<"-", "-">>, <<"/", "*">>}

match_punct ==
    /\ lexer = "running" /\ i < Len0
    /\ ~StartsElsewhere
    /\ LET pair == <<At(i), At(i + 1)>>
       IN CASE pair \in TwoBytes  -> Push(Kind(pair), Slice(i, i + 2), i + 2, col + 2)
            [] pair \notin TwoBytes /\ At(i) \in OneByte ->
                 Push(At(i), Slice(i, i + 1), i + 1, col + 1)
            [] OTHER -> LexError

Tokenized ==
    /\ lexer = "running" /\ i = Len0
    /\ lexer' = "done"
    /\ UNCHANGED <<text, i, line, col, tokens>>

tokenize ==
    \/ SkipNewline \/ SkipSpace \/ LineComment \/ BlockComment
    \/ StringLiteral \/ BlobLiteral \/ Identifier \/ Number \/ Variable
    \/ match_punct \/ Tokenized

----------------------------------------------------------------------------

\* The bytes of the text a token stands for.
EndOf(t) ==
    t.offset + Len(t.text) + (CASE t.kind = "string" -> 2 [] t.kind = "blob" -> 3 [] OTHER -> 0)

\* The bytes from .. to - 1 are spaces, newlines and whole comments, written from
\* what a comment is: nothing begins inside of one.  Of a block comment that the
\* text does not close, the last byte alone may begin something.
RECURSIVE Blank(_, _)
Blank(from, to) ==
    \/ from = to
    \/ /\ from < to /\ At(from) \in Spaces \cup {Newline}
       /\ Blank(from + 1, to)
    \/ /\ from < to /\ <<At(from), At(from + 1)>> = <<"-", "-">>
       /\ Blank(SkipTo({Newline}, from), to)
    \/ /\ from < to /\ <<At(from), At(from + 1)>> = <<"/", "*">>
       /\ LET closes == {k \in from + 3 .. Len0 - 1 : At(k - 1) = "*" /\ At(k) = "/"}
          IN IF closes = {} THEN from + 2 <= to /\ to \in {Len0 - 1, Len0} ELSE Blank(Min(closes) + 1, to)

\* The tokens lie in the text in order, and what is between and after them is
\* blank: no byte is dropped, none is read twice, none of a comment is a
\* token, except the last byte of a text that ends inside a block comment.
\* (The index runs on by hand in each branch of src/rust-port/src/tokenize/mod.rs:206-421.)
TokensTileTheText ==
    /\ \A k \in DOMAIN tokens :
          LET t == tokens[k]
              from == IF k = 1 THEN 0 ELSE EndOf(tokens[k - 1])
          IN /\ from <= t.offset /\ EndOf(t) <= Len0
             /\ Blank(from, t.offset)
             /\ IF t.kind \in {"string", "blob"}
                THEN At(EndOf(t) - 1) = Quote
                ELSE Slice(t.offset, EndOf(t)) = t.text
    /\ lexer = "done" => Blank(IF tokens = <<>> THEN 0 ELSE EndOf(Last(tokens)), Len0)
=============================================================================
