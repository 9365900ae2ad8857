-------------------------------- MODULE Expr --------------------------------
(***************************************************************************)
(* The values and operators of expr/mod.rs.  An i64 has Width bits, a text *)
(* is the sequence of its code points, a blob of its bytes, and an f64 is  *)
(* a fraction: rounding is left out, a zero denominator is an infinity or, *)
(* under a zero, NaN, and zero has no sign.  Texts that Rust reads as f64  *)
(* have no exponent here and name no infinity.                             *)
(***************************************************************************)
EXTENDS Pattern

LOCAL INSTANCE Bitwise

CONSTANT Width

MaxInt == 2 ^ (Width - 1) - 1
MinInt == -MaxInt - 1
Wrapped(n) == ((n - MinInt) % 2 ^ Width) + MinInt
Unsigned(n) == n % 2 ^ Width

Null == [type |-> "null"]
Integer(n) == [type |-> "integer", int |-> n]
Text(str) == [type |-> "text", str |-> str]
Blob(bytes) == [type |-> "blob", bytes |-> bytes]
Truth(b) == Integer(IF b THEN 1 ELSE 0)
IsNull(v) == v.type = "null"

\* What is no value: the Err of an eval, and a panic.
Error == [type |-> "error"]
Panic == [type |-> "panic"]
Fails(v) == v.type \in {"error", "panic"}

Magnitude(n) == IF n < 0 THEN -n ELSE n
Signum(n) == IF n < 0 THEN -1 ELSE 1
RECURSIVE Gcd(_, _)
Gcd(m, n) == IF n = 0 THEN m ELSE Gcd(n, m % n)
Real(num, den) ==
    LET g == Gcd(Magnitude(num), Magnitude(den))
    IN IF g = 0 THEN [type |-> "real", num |-> 0, den |-> 0]
       ELSE [type |-> "real", num |-> Signum(den) * (num \div g), den |-> Magnitude(den) \div g]
NaN == Real(0, 0)
Finite(f) == f.den # 0

\* Rust's / and % on integers: the quotient goes towards zero.
Quotient(x, y) == LET q == Magnitude(x) \div Magnitude(y) IN IF (x < 0) = (y < 0) THEN q ELSE -q
Remainder(x, y) == x - y * Quotient(x, y)

----------------------------------------------------------------------------
(* Text and numbers.                                                       *)

IsDigits(str) == str # <<>> /\ \A k \in DOMAIN str : str[k] \in 48 .. 57
NumberOfDigits(str) == FoldLeft(LAMBDA n, c : 10 * n + c - 48, 0, str)
SignOfText(str) == IF Next1(str) = Dash THEN -1 ELSE 1
Unsigned_text(str) == IF Next1(str) \in {Dash, 43} THEN Tail(str) ELSE str

\* str::parse, the set of the number it returns, empty for Err.
ParseInt(str) ==
    LET digits == Unsigned_text(str)
    IN IF IsDigits(digits) /\ SignOfText(str) * NumberOfDigits(digits) \in MinInt .. MaxInt
       THEN {SignOfText(str) * NumberOfDigits(digits)} ELSE {}
Point == 46
ParseReal(str) ==
    LET body == Unsigned_text(str)
        points == {k \in DOMAIN body : body[k] = Point}
        at == IF points = {} THEN Len(body) + 1 ELSE Min(points)
        digits == SubSeq(body, 1, at - 1) \o From(body, at + 1)
        places == Len(digits) - (at - 1)
    IN IF IsDigits(digits) THEN {Real(SignOfText(str) * NumberOfDigits(digits), 10 ^ places)} ELSE {}
OrElse(parsed, other) == IF parsed = {} THEN other ELSE CHOOSE n \in parsed : TRUE

RECURSIVE Decimal(_)
Decimal(n) ==
    CASE n < 0 -> <<Dash>> \o Decimal(-n)
      [] n \in 0 .. 9 -> <<48 + n>>
      [] OTHER -> Decimal(n \div 10) \o <<48 + (n % 10)>>
RECURSIVE Places(_, _)
Places(num, den) == IF num = 0 THEN <<>> ELSE <<48 + ((10 * num) \div den)>> \o Places((10 * num) % den, den)
\* The fractions that end: a real without a fractional part prints as an integer.
DecimalReal(v) ==
    LET n == Magnitude(v.num)
    IN (IF v.num < 0 THEN <<Dash>> ELSE <<>>) \o Decimal(n \div v.den)
       \o (IF n % v.den = 0 THEN <<>> ELSE <<Point>> \o Places(n % v.den, v.den))

\* String::from_utf8_lossy, where each byte that is not ASCII is alone.
from_utf8_lossy(bytes) == [k \in DOMAIN bytes |-> IF bytes[k] < 128 THEN bytes[k] ELSE 65533]

value_to_text(v) ==
    CASE v.type = "null" -> <<>>
      [] v.type = "integer" -> Decimal(v.int)
      [] v.type = "real" -> IF Finite(v) THEN DecimalReal(v) ELSE <<>>
      [] v.type = "text" -> v.str
      [] v.type = "blob" -> from_utf8_lossy(v.bytes)

----------------------------------------------------------------------------
(* Coercions.                                                              *)

\* f as i64: towards zero, to the nearest i64, and NaN to zero.
RealAsInt(v) ==
    CASE v = NaN -> 0
      [] v # NaN /\ ~Finite(v) -> IF v.num > 0 THEN MaxInt ELSE MinInt
      [] Finite(v) -> Max({MinInt, Min({MaxInt, Quotient(v.num, v.den)})})

BigEndian(bytes) == Wrapped(FoldLeft(LAMBDA n, b : 256 * n + b, 0, bytes))

coerce_integer(v) ==
    CASE v.type = "real" -> Integer(RealAsInt(v))
      [] v.type = "text" -> Integer(OrElse(ParseInt(v.str), 0))
      [] v.type = "blob" -> Integer(IF 8 * Len(v.bytes) = Width THEN BigEndian(v.bytes) ELSE 0)
      [] OTHER -> v

coerce_real(v) ==
    CASE v.type = "integer" -> Real(v.int, 1)
      [] v.type = "text" -> OrElse(ParseReal(v.str), Real(0, 1))
      [] v.type = "blob" -> Real(0, 1)
      [] OTHER -> v

IsZeroReal(v) == v.type = "real" /\ v.num = 0 /\ Finite(v)
is_zero(v) == v = Integer(0) \/ IsZeroReal(v)

to_bool(v) ==
    CASE v.type = "null" -> Null
      [] v.type \in {"integer", "real"} -> Truth(~is_zero(v))
      [] v.type = "text" -> Truth(\E f \in ParseReal(v.str) : ~IsZeroReal(f))
      [] v.type = "blob" -> Truth(v.bytes # <<>>)

----------------------------------------------------------------------------
(* Comparison.                                                             *)

Numeric(v) == v.type \in {"integer", "real"}
Both(a, b, type) == a.type = type /\ b.type = type
\* An integer and a text that reads as one compare as integers.
AsInts(v) == IF v.type = "integer" THEN {v.int} ELSE ParseInt(v.str)
IntAndText(a, b) == {a.type, b.type} = {"integer", "text"}

sql_eq(a, b) ==
    CASE Numeric(a) /\ Numeric(b) ->
           LET p == coerce_real(a)
               q == coerce_real(b)
           IN p = q /\ p # NaN
      [] Both(a, b, "text") \/ Both(a, b, "blob") -> a = b
      [] IntAndText(a, b) -> AsInts(a) = AsInts(b) /\ AsInts(a) # {}
      [] OTHER -> FALSE

\* The order of the bytes of UTF-8 is that of the code points.
TextLess(s, t) ==
    \E k \in 1 .. Len(t) :
       /\ \A j \in 1 .. k - 1 : j <= Len(s) /\ s[j] = t[j]
       /\ k > Len(s) \/ s[k] < t[k]

sql_lt(a, b) ==
    CASE Numeric(a) /\ Numeric(b) ->
           LET p == coerce_real(a)
               q == coerce_real(b)
           IN p.num * q.den < q.num * p.den \/ (p.num < 0 /\ 0 < q.num)
      [] Both(a, b, "text") -> TextLess(a.str, b.str)
      [] IntAndText(a, b) -> \E m \in AsInts(a), n \in AsInts(b) : m < n
      [] OTHER -> FALSE

sql_le(a, b) == sql_lt(a, b) \/ sql_eq(a, b)

----------------------------------------------------------------------------
(* The operators on values, as eval_unary and eval_binary apply them.      *)

eval_unary(op, v) ==
    LET n == coerce_integer(v)
    IN IF IsNull(v) THEN Null
       ELSE CASE op = "plus" -> n
              [] op = "minus" -> Integer(Wrapped(-n.int))
              [] op = "bitnot" -> Integer(-n.int - 1)
              [] op = "not" -> Truth(to_bool(v) = Integer(0))

Opposite(f) == Real(-f.num, f.den)
Plus(f, g) ==
    IF Finite(f) \/ Finite(g) THEN Real(f.num * g.den + g.num * f.den, f.den * g.den)
    ELSE IF f = g THEN f ELSE NaN
Ratio(f, g) == Real(f.num * g.den * Signum(g.num), f.den * Magnitude(g.num))
\* What is left of f, which keeps its sign; all of it, under an infinite g.
RestOf(f, g) ==
    CASE ~Finite(f) \/ g.num = 0 -> NaN
      [] Finite(f) /\ g.num # 0 /\ ~Finite(g) -> f
      [] OTHER -> LET q == Ratio(f, g)
                  IN Plus(f, Opposite(Real(g.num * Quotient(q.num, q.den), g.den)))

\* x / y and x % y on integers panic where the quotient is no i64, in every build.
Arith(op, l, r) ==
    LET x == IF Both(l, r, "integer") THEN l.int ELSE 0
        y == IF Both(l, r, "integer") THEN r.int ELSE 0
        a == coerce_real(l)
        b == coerce_real(r)
    IN CASE IsNull(l) \/ IsNull(r) -> Null
         [] op \in {"div", "mod"} /\ is_zero(r) -> Null
         [] Both(l, r, "integer") /\ op \in {"add", "sub", "mul"} ->
              Integer(Wrapped(CASE op = "add" -> x + y [] op = "sub" -> x - y [] op = "mul" -> x * y))
         [] Both(l, r, "integer") /\ op \in {"div", "mod"} ->
              IF x = MinInt /\ y = -1 THEN Panic
              ELSE Integer(IF op = "div" THEN Quotient(x, y) ELSE Remainder(x, y))
         [] OTHER ->
              CASE op = "add" -> Plus(a, b)
                [] op = "sub" -> Plus(a, Opposite(b))
                [] op = "mul" -> Real(a.num * b.num, a.den * b.den)
                [] op = "div" -> Ratio(a, b)
                [] op = "mod" -> RestOf(a, b)

\* A shift takes its count modulo the width.
bit_op(op, l, r) ==
    LET x == coerce_integer(l).int
        y == coerce_integer(r).int
    IN IF IsNull(l) \/ IsNull(r) THEN Null
       ELSE Integer(CASE op = "bitand" -> Wrapped(Unsigned(x) & Unsigned(y))
                      [] op = "bitor"  -> Wrapped(Unsigned(x) | Unsigned(y))
                      [] op = "lshift" -> Wrapped(x * 2 ^ (y % Width))
                      [] op = "rshift" -> x \div 2 ^ (y % Width))

\* AND and OR take anything but NULL and the integer 0 for true.
Holds(v) == v \notin {Null, Integer(0)}
Logic(op, l, r) ==
    LET other == IF IsNull(l) THEN r ELSE l
        unknown == IsNull(l) \/ IsNull(r)
    IN CASE op = "and" /\ unknown -> IF other = Integer(0) THEN Integer(0) ELSE Null
         [] op = "or" /\ unknown -> IF Holds(other) THEN Integer(1) ELSE Null
         [] op = "and" /\ ~unknown -> Truth(Holds(l) /\ Holds(r))
         [] op = "or" /\ ~unknown -> Truth(Holds(l) \/ Holds(r))

Compare(op, l, r) ==
    IF IsNull(l) \/ IsNull(r) THEN Null
    ELSE Truth(CASE op = "eq" -> sql_eq(l, r)
                 [] op = "ne" -> ~sql_eq(l, r)
                 [] op = "lt" -> sql_lt(l, r)
                 [] op = "le" -> sql_le(l, r)
                 [] op = "gt" -> sql_lt(r, l)
                 [] op = "ge" -> sql_le(r, l))

ArithOps == {"add", "sub", "mul", "div", "mod"}
BitOps == {"bitand", "bitor", "lshift", "rshift"}
CompareOps == {"eq", "ne", "lt", "le", "gt", "ge"}

eval_binary(op, l, r) ==
    CASE op \in ArithOps -> Arith(op, l, r)
      [] op \in BitOps -> bit_op(op, l, r)
      [] op \in CompareOps -> Compare(op, l, r)
      [] op \in {"and", "or"} -> Logic(op, l, r)
      [] op = "concat" -> IF IsNull(l) \/ IsNull(r) THEN Null ELSE Text(value_to_text(l) \o value_to_text(r))
      [] op = "is" -> Truth((IsNull(l) /\ IsNull(r)) \/ sql_eq(l, r))

\* The UTF-8 bytes of code points below 2048.
Utf8(str) ==
    FlattenSeq([k \in DOMAIN str |->
        IF str[k] < 128 THEN <<str[k]>> ELSE <<192 + (str[k] \div 64), 128 + (str[k] % 64)>>])
\* The escape is the first byte of a text or a blob, and 0 without one.
EscapeOf(esc) ==
    CASE esc.type = "text" /\ esc.str # <<>> -> Utf8(esc.str)[1]
      [] esc.type = "blob" /\ esc.bytes # <<>> -> esc.bytes[1]
      [] OTHER -> 0
eval_like(v, pat, esc) ==
    IF IsNull(v) \/ IsNull(pat) THEN Null
    ELSE Truth(sqlite3_strlike(value_to_text(pat), value_to_text(v), EscapeOf(esc)))
eval_glob(v, pat) ==
    IF IsNull(v) \/ IsNull(pat) THEN Null
    ELSE Truth(sqlite3_strglob(value_to_text(pat), value_to_text(v)))
=============================================================================
