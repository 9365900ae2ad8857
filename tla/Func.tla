-------------------------------- MODULE Func --------------------------------
(***************************************************************************)
(* The built-in scalar functions of func/mod.rs and the dispatch to them.  *)
(* hex of a real, which prints its bits, is left out.                      *)
(***************************************************************************)
EXTENDS Expr

\* func/mod.rs has an equality and a to_text of its own, beside those of expr/mod.rs.
eq_sql(a, b) ==
    CASE Numeric(a) /\ Numeric(b) -> sql_eq(a, b)
      [] Both(a, b, "text") -> a = b
      [] OTHER -> FALSE
NameOfInfinite(f) ==
    CASE f = NaN -> <<78, 97, 78>>
      [] f # NaN -> (IF f.num < 0 THEN <<Dash>> ELSE <<>>) \o <<105, 110, 102>>
to_text(v) == IF v.type = "real" /\ ~Finite(v) THEN NameOfInfinite(v) ELSE value_to_text(v)

AnyNull(args) == \E k \in DOMAIN args : IsNull(args[k])
NullOr(args, v) == IF AnyNull(args) THEN Null ELSE v

\* The smallest integer has no absolute value and stays.
wrapping_abs(n) == Wrapped(Magnitude(n))
abs(v) ==
    LET ints == ParseInt(to_text(v))
        reals == ParseReal(to_text(v))
        Absolute(f) == Real(Magnitude(f.num), f.den)
    IN CASE IsNull(v) -> Null
         [] v.type = "integer" -> Integer(wrapping_abs(v.int))
         [] v.type = "real" -> Absolute(v)
         [] v.type \in {"text", "blob"} ->
              CASE ints # {} -> Integer(wrapping_abs(OrElse(ints, 0)))
                [] ints = {} /\ reals # {} -> Absolute(OrElse(reals, 0))
                [] OTHER -> Null

TypeNames == [null |-> <<110, 117, 108, 108>>, integer |-> <<105, 110, 116, 101, 103, 101, 114>>,
              real |-> <<114, 101, 97, 108>>, text |-> <<116, 101, 120, 116>>, blob |-> <<98, 108, 111, 98>>]
typeof(v) == Text(TypeNames[v.type])

length(v) == Integer(IF v.type = "blob" THEN Len(v.bytes) ELSE Len(to_text(v)))

to_upper(c) == IF c \in 97 .. 122 THEN c - 32 ELSE c
Mapped(v, Op(_)) == Text([k \in DOMAIN to_text(v) |-> Op(to_text(v)[k])])
upper(v) == Mapped(v, to_upper)
lower(v) == Mapped(v, ascii_to_lower)

\* The integer an argument stands for.
IntArg(v, other) == IF v.type = "integer" THEN v.int ELSE OrElse(ParseInt(to_text(v)), other)

\* The index, from 0, of the first character taken.
StartIndex_ZeroBased(start, n) == IF start >= 0 THEN start ELSE Max({n + start, 0})
StartIndex(start, n) ==
    CASE start > 0 -> start - 1
      [] start < 0 -> Max({n + start, 0})
      [] OTHER -> 0

\* s_idx + l overflows for the largest lengths: a panic, in a release build at
\* the slice, whose end it makes immense.
substr(args) ==
    LET str == to_text(args[1])
        n == Len(str)
        first == StartIndex(IntArg(args[2], 1), n)
        l == IntArg(args[3], 0)
        end == CASE Len(args) = 2 -> n
                 [] Len(args) = 3 /\ l >= 0 -> Min({first + l, n})
                 [] Len(args) = 3 /\ l < 0 -> Max({n + l, first})
    IN CASE first >= n -> Text(<<>>)
         [] first < n /\ Len(args) = 3 /\ first + l > MaxInt -> Panic
         [] OTHER -> Text(SubSeq(str, first + 1, end))

\* trim, ltrim and rtrim; without a second argument they take spaces.
trim(args, left, right) ==
    LET str == to_text(args[1])
        cut == IF Len(args) = 2 THEN Range(to_text(args[2])) ELSE {32}
        kept == {k \in DOMAIN str : str[k] \notin cut}
        from == IF left THEN (IF kept = {} THEN Len(str) + 1 ELSE Min(kept)) ELSE 1
        to == IF right THEN (IF kept = {} THEN 0 ELSE Max(kept)) ELSE Len(str)
    IN Text(SubSeq(str, from, to))

\* str::replace: the occurrences from the left that do not overlap.
RECURSIVE Replaced(_, _, _)
Replaced(str, from, to) ==
    CASE str = <<>> -> <<>>
      [] IsPrefix(from, str) /\ str # <<>> -> to \o Replaced(From(str, Len(from) + 1), from, to)
      [] OTHER -> <<Head(str)>> \o Replaced(Tail(str), from, to)
replace(args) ==
    LET str == to_text(args[1])
        from == to_text(args[2])
    IN Text(IF from = <<>> THEN str ELSE Replaced(str, from, to_text(args[3])))

\* The digit of a hexadecimal number, the letters from a on.
HexDigit(n, a) == IF n < 10 THEN 48 + n ELSE a + n - 10
HexBytes(bytes, a) ==
    FlattenSeq([k \in DOMAIN bytes |-> <<HexDigit(bytes[k] \div 16, a), HexDigit(bytes[k] % 16, a)>>])
RECURSIVE HexNumber(_)
HexNumber(n) == IF n < 16 THEN <<HexDigit(n, 65)>> ELSE HexNumber(n \div 16) \o <<HexDigit(n % 16, 65)>>
hex(v) ==
    CASE v.type = "blob" -> Text(HexBytes(v.bytes, 65))
      [] v.type = "integer" -> Text(HexNumber(Unsigned(v.int)))
      [] v.type = "text" -> Text(HexBytes(Utf8(v.str), 65))

Apostrophe == 39
Escaped(str) == Replaced(str, <<Apostrophe>>, <<Apostrophe, Apostrophe>>)
quote_fn(v) ==
    Text(CASE IsNull(v) -> <<78, 85, 76, 76>>
           [] v.type \in {"integer", "real"} -> to_text(v)
           [] v.type = "text" -> <<Apostrophe>> \o Escaped(v.str) \o <<Apostrophe>>
           [] v.type = "blob" -> <<88, Apostrophe>> \o HexBytes(v.bytes, 97) \o <<Apostrophe>>)

coalesce(args) == IF \A k \in DOMAIN args : IsNull(args[k]) THEN Null ELSE args[SelectInSeq(args, LAMBDA v : ~IsNull(v))]
ifnull(args) == IF IsNull(args[1]) THEN args[2] ELSE args[1]
nullif(args) == IF eq_sql(args[1], args[2]) THEN Null ELSE args[1]

\* A number of digits divides where it should multiply: round(x, 1) rounds to tens.
round_half_away(f) ==
    IF Finite(f) THEN Real(Signum(f.num) * ((2 * Magnitude(f.num) + f.den) \div (2 * f.den)), 1) ELSE f
round(args) ==
    LET digits == IF Len(args) = 2 THEN IntArg(args[2], 0) ELSE 0
        up == 10 ^ Max({digits, 0})
        down == 10 ^ Max({-digits, 0})
        x == coerce_real(IF args[1].type = "blob" THEN Text(to_text(args[1])) ELSE args[1])
        rounded == round_half_away(Real(x.num * down, x.den * up))
    IN IF digits = 0 THEN Integer(RealAsInt(rounded))
                     ELSE Real(rounded.num * up, rounded.den * down)

unicode(v) == IF to_text(v) = <<>> THEN Null ELSE Integer(to_text(v)[1])

\* n as u32 makes a negative number of few bits no code point.
CodeOf(v) ==
    CASE v.type = "integer" -> {v.int}
      [] v.type = "real" -> {RealAsInt(v)}
      [] v.type \in {"text", "blob"} -> ParseInt(to_text(v))
char(args) ==
    IF \E k \in DOMAIN args : \A n \in CodeOf(args[k]) : n < 0 THEN Null
    ELSE Text([k \in DOMAIN args |-> CHOOSE n \in CodeOf(args[k]) : TRUE])

zeroblob(v) == IF v.type = "integer" /\ v.int >= 0 THEN Blob([k \in 1 .. v.int |-> 0]) ELSE Null

\* The numbers of arguments a function takes.
Arity(name) ==
    CASE name \in {"abs", "typeof", "length", "upper", "lower", "hex", "quote", "unicode", "zeroblob"} -> {1}
      [] name \in {"trim", "ltrim", "rtrim", "round"} -> {1, 2}
      [] name \in {"ifnull", "nullif"} -> {2}
      [] name = "substr" -> {2, 3}
      [] name = "replace" -> {3}
      [] name \in {"coalesce", "char"} -> Nat \ {0}
      [] OTHER -> {}

\* BuiltinRegistry::call
call_func(name, args) ==
    IF Len(args) \notin Arity(name) THEN Error
    ELSE LET v == args[1]
         IN CASE name = "typeof" -> typeof(v)
              [] name = "quote" -> quote_fn(v)
              [] name = "coalesce" -> coalesce(args)
              [] name = "ifnull" -> ifnull(args)
              [] name = "nullif" -> nullif(args)
              [] OTHER -> NullOr(args,
                   CASE name = "abs" -> abs(v)
                     [] name = "length" -> length(v)
                     [] name = "upper" -> upper(v)
                     [] name = "lower" -> lower(v)
                     [] name = "substr" -> substr(args)
                     [] name = "trim" -> trim(args, TRUE, TRUE)
                     [] name = "ltrim" -> trim(args, TRUE, FALSE)
                     [] name = "rtrim" -> trim(args, FALSE, TRUE)
                     [] name = "replace" -> replace(args)
                     [] name = "hex" -> hex(v)
                     [] name = "round" -> round(args)
                     [] name = "unicode" -> unicode(v)
                     [] name = "char" -> char(args)
                     [] name = "zeroblob" -> zeroblob(v))
=============================================================================
