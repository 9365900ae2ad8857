-------------------------------- MODULE Eval --------------------------------
(***************************************************************************)
(* The evaluator of expr/mod.rs over its expression trees, and what its    *)
(* forms, operators and functions owe each other.                          *)
(***************************************************************************)
EXTENDS Func

Lit(v) == [form |-> "literal", value |-> v]
ColumnRef(name) == [form |-> "column", name |-> name]
UnaryOf(op, e) == [form |-> "unary", op |-> op, expr |-> e]
Binary(op, l, r) == [form |-> "binary", op |-> op, left |-> l, right |-> r]
Call(name, args) == [form |-> "function", name |-> name, args |-> args]
In(e, values, negated) == [form |-> "in", expr |-> e, values |-> values, negated |-> negated]
Between(e, lo, hi, negated) == [form |-> "between", expr |-> e, lo |-> lo, hi |-> hi, negated |-> negated]
\* operand and otherwise hold one expression or none.
CaseOf(operand, whens, otherwise) ==
    [form |-> "case", operand |-> operand, whens |-> whens, otherwise |-> otherwise]

\* A failure among the values, in the order they are evaluated, or the result.
Strict(values, result) ==
    LET failed == {k \in DOMAIN values : Fails(values[k])}
    IN IF failed = {} THEN result ELSE values[Min(failed)]

\* A column of the row by its first occurrence, NULL when it has none.
lookup(row, name) ==
    LET found == {k \in DOMAIN row : row[k].name = name}
    IN IF found = {} THEN Null ELSE row[Min(found)].value

\* Whether a list without a match leaves IN unknown.
InUnknown_TargetOnly(target, values) == IsNull(target)
InUnknown(target, values) == IsNull(target) \/ AnyNull(values)

\* A match ends the evaluation of the list.
EvalIn(target, values, negated) ==
    LET ends == {k \in DOMAIN values : Fails(values[k]) \/ sql_eq(target, values[k])}
    IN CASE ends # {} -> IF Fails(values[Min(ends)]) THEN values[Min(ends)] ELSE Truth(~negated)
         [] ends = {} /\ InUnknown(target, values) -> Null
         [] OTHER -> Truth(negated)

EvalBetween(v, lo, hi, negated) ==
    IF AnyNull(<<v, lo, hi>>) THEN Null
    ELSE Truth((sql_le(lo, v) /\ sql_le(v, hi)) # negated)

\* A searched WHEN holds unless it is NULL or zero.
SearchedHolds(v) == ~IsNull(v) /\ ~is_zero(v)

RECURSIVE eval(_, _)
RECURSIVE EvalWhens(_, _, _, _)
\* The first WHEN that holds; the ones behind it are not evaluated.
EvalWhens(operand, whens, otherwise, row) ==
    IF whens = <<>> THEN (IF otherwise = <<>> THEN Null ELSE eval(otherwise[1], row))
    ELSE LET w == eval(Head(whens).when, row)
             holds == IF operand = <<>> THEN SearchedHolds(w) ELSE sql_eq(operand[1], w)
         IN CASE Fails(w) -> w
              [] ~Fails(w) /\ holds -> eval(Head(whens).then, row)
              [] OTHER -> EvalWhens(operand, Tail(whens), otherwise, row)

eval(e, row) ==
    LET All(exprs) == [k \in DOMAIN exprs |-> eval(exprs[k], row)]
    IN CASE e.form = "literal" -> e.value
         [] e.form = "column" -> lookup(row, e.name)
         [] e.form = "unary" ->
              LET v == eval(e.expr, row) IN Strict(<<v>>, eval_unary(e.op, v))
         [] e.form = "binary" ->
              LET v == All(<<e.left, e.right>>) IN Strict(v, eval_binary(e.op, v[1], v[2]))
         [] e.form = "function" ->
              LET v == All(e.args) IN Strict(v, call_func(e.name, v))
         [] e.form = "in" ->
              LET v == eval(e.expr, row) IN Strict(<<v>>, EvalIn(v, All(e.values), e.negated))
         [] e.form = "between" ->
              LET v == All(<<e.expr, e.lo, e.hi>>)
              IN Strict(v, EvalBetween(v[1], v[2], v[3], e.negated))
         [] e.form = "case" ->
              LET v == All(e.operand) IN Strict(v, EvalWhens(v, e.whens, e.otherwise, row))

----------------------------------------------------------------------------
(* What holds of any three values, as laws: where given holds, two         *)
(* expressions have one value.                                             *)

Law(given, left, right) == [given |-> given, sides |-> {left, right}]
Lawful(laws, row) ==
    \A law \in laws : law.given => Cardinality({eval(e, row) : e \in law.sides}) = 1
Panicking(exprs, row) == {e \in exprs : eval(e, row) = Panic}
Num(n) == Lit(Integer(n))

\* The truth values AND, OR and NOT agree on: reals and texts have two readings.
Logical(v) == v.type \in {"null", "integer"}
Comparable(a, b) ==
    \/ Numeric(a) /\ Numeric(b)
    \/ Both(a, b, "text")
    \/ IntAndText(a, b) /\ AsInts(a) # {} /\ AsInts(b) # {}
Ordered(S) == (\A v \in S : Numeric(v)) \/ (\A v \in S : v.type = "text")

Connectives(x, y, z) ==
    LET Or(p, q) == Binary("or", p, q)
        And(p, q) == Binary("and", p, q)
        Not(p) == UnaryOf("not", p)
        Eq(p, q) == Binary("eq", p, q)
        a == ColumnRef("a")
        b == ColumnRef("b")
        c == Lit(z)
        Case(w, operand) == CaseOf(operand, <<[when |-> w, then |-> b]>>, <<c>>)
    IN { \* IN is the OR of equalities, and NOT IN its negation.
         Law(TRUE, In(a, <<b, c>>, FALSE), Or(Eq(a, b), Eq(a, c))),
         Law(TRUE, In(a, <<b, c>>, TRUE), Not(Or(Eq(a, b), Eq(a, c)))),
         \* BETWEEN is two comparisons, unless a NULL makes it NULL.
         Law(~AnyNull(<<x, y, z>>), Between(a, b, c, FALSE),
             And(Binary("le", b, a), Binary("le", a, c))),
         Law(TRUE, Between(a, b, c, TRUE), Not(Between(a, b, c, FALSE))),
         \* A simple CASE is the searched CASE of the equality.
         Law(TRUE, Case(b, <<a>>), Case(Eq(a, b), <<>>)),
         \* ifnull is the CASE of IS NULL.
         Law(TRUE, Call("ifnull", <<a, b>>),
             CaseOf(<<>>, <<[when |-> Binary("is", a, ColumnRef("none")), then |-> b]>>, <<a>>)),
         \* De Morgan, with three truth values.
         Law(Logical(x) /\ Logical(y), Not(And(a, b)), Or(Not(a), Not(b))),
         \* IS is = made two-valued.
         Law(TRUE, Binary("is", a, b),
             CaseOf(<<>>, <<[when |-> Eq(a, b), then |-> Num(1)]>>,
                    <<Lit(Truth(IsNull(x) /\ IsNull(y)))>>)) }

\* Arithmetic on reals keeps the order, infinities included, where it has a
\* result; subtracting is adding the opposite; and the remainder is what the
\* quotient without its fraction leaves, all of it under an infinity.
Reals(x, y, z) ==
    LET Do(op, p, q) == Binary(op, Lit(p), Lit(q))
        Le(p, q) == Binary("le", p, q)
        Infinite(v) == ~Finite(coerce_real(v))
        increasing == Ordered({x, y}) /\ Numeric(x) /\ z.type = "real" /\ sql_le(x, y)
        cancelling == \E v \in {x, y} : v.type = "real" /\ Infinite(v) /\ z = Opposite(v)
        quotient == Infinite(z) => ~Infinite(x) /\ ~Infinite(y)
        Finites == Numeric(x) /\ y.type = "real" /\ ~is_zero(y) /\ ~Infinite(x)
        cut == RealAsInt(Ratio(coerce_real(x), y))
    IN { Law(increasing /\ ~cancelling, Le(Do("add", x, z), Do("add", y, z)), Num(1)),
         Law(increasing /\ quotient /\ sql_lt(Integer(0), z), Le(Do("div", x, z), Do("div", y, z)), Num(1)),
         Law(increasing /\ quotient /\ sql_lt(z, Integer(0)), Le(Do("div", y, z), Do("div", x, z)), Num(1)),
         Law(Numeric(x) /\ y.type = "real",
             Do("sub", x, y), Binary("add", Lit(x), Do("sub", Integer(0), y))),
         Law(Finites /\ ~Infinite(y) /\ cut \in MinInt + 1 .. MaxInt - 1, Do("mod", x, y),
             Binary("sub", Lit(x), Binary("mul", UnaryOf("plus", Do("div", x, y)), Lit(y)))),
         Law(Finites /\ Infinite(y), Do("mod", x, y), Lit(coerce_real(x))) }

\* The six comparisons are those of one total order, and NULL takes no part.
Comparisons(x, y, z) ==
    LET Is(op, p, q) == Binary(op, Lit(p), Lit(q))
        Sum(p, q) == Binary("add", p, q)
        chain == Binary("and", Is("lt", x, y), Is("lt", y, z))
    IN { Law(Comparable(x, y), Sum(Is("lt", x, y), Sum(Is("eq", x, y), Is("gt", x, y))), Num(1)),
         Law(Comparable(x, y), Is("le", x, y), UnaryOf("not", Is("gt", x, y))),
         Law(Ordered({x, y, z}), Binary("and", chain, Is("lt", x, z)), chain) }
       \cup { Law(IsNull(x), Is(op, y, x), Lit(Null)) : op \in ArithOps \cup BitOps \cup CompareOps }

\* Only the one quotient that is no integer panics, with its remainder.
Panics(op, x, y) == op \in {"div", "mod"} /\ x = Integer(MinInt) /\ y = Integer(-1)

\* Wrapped arithmetic undoes itself.
Arithmetic(x, y) ==
    LET Do(op, p, q) == Binary(op, p, q)
        a == Lit(x)
        b == Lit(y)
        ints == Both(x, y, "integer")
    IN { Law(ints, Do("sub", Do("add", a, b), b), a),
         Law(ints, Do("add", Do("bitand", a, b), Do("bitor", a, b)), Do("add", a, b)),
         Law(ints, Do("sub", a, b), Do("add", a, UnaryOf("minus", b))),
         Law(ints /\ ~is_zero(y) /\ ~Panics("div", x, y),
             Do("add", Do("mul", Do("div", a, b), b), Do("mod", a, b)), a) }

\* IN, BETWEEN, CASE, IS and ifnull are what SQL defines them by; AND, OR and NOT obey
\* De Morgan on NULL and integers; the six comparisons are one order; wrapped
\* arithmetic undoes itself, that of reals keeps the order, and nothing panics but the one quotient that is
\* no integer.  (Each form has its own treatment of NULL and of mixed types,
\* src/rust-port/src/expr/mod.rs:327-731.)
OperatorsAgree(x, y, z) ==
    LET row == <<[name |-> "a", value |-> x], [name |-> "b", value |-> y], [name |-> "b", value |-> x]>>
    IN /\ Lawful(Connectives(x, y, z) \cup Comparisons(x, y, z) \cup Arithmetic(x, y) \cup Reals(x, y, z), row)
       /\ Panicking({Binary(op, Lit(x), Lit(y)) : op \in ArithOps}, row)
          = {Binary(op, Lit(x), Lit(y)) : op \in {o \in ArithOps : Panics(o, x, y)}}

\* typeof of a sum, product or quotient: one real makes it real.  round is
\* odd, cuts off behind a half more, and leaves integers alone; with digits it
\* rounds to multiples of a power of ten, where SQL rounds to places.
Rounding(x, y) ==
    LET a == Lit(x)
        ten == Lit(Real(10, 1))
        Round(args) == Call("round", args)
        Minus(p, q) == Binary("sub", p, q)
        finite == Numeric(x) /\ Finite(coerce_real(x))
        Opposed(e) == Minus(Lit(Real(0, 1)), e)
    IN { Law(Numeric(x) /\ Numeric(y) /\ ~is_zero(y) /\ ~Panics(op, x, y),
             Call("typeof", <<Binary(op, a, Lit(y))>>),
             Call("typeof", <<IF Both(x, y, "integer") THEN Num(0) ELSE ten>>)) : op \in ArithOps }
       \cup { Law(x.type = "integer", Round(<<a>>), a),
              Law(x.type = "real" /\ finite, Round(<<Opposed(a)>>), UnaryOf("minus", Round(<<a>>))),
              Law(finite /\ sql_lt(Integer(0), x), Round(<<a>>),
                  UnaryOf("plus", Binary("add", a, Lit(Real(1, 2))))),
              Law(finite, Binary("is", Round(<<a, Num(1)>>),
                                 Binary("mul", Round(<<Binary("div", a, ten)>>), ten)), Num(1)) }

\* The case of letters: the last change counts and the length stays.
\* replace of a text by itself changes nothing, of the whole by another gives
\* the other, and of one character by nothing leaves the others.  hex writes
\* two digits a byte, a text's as its bytes', the digits of quote, and those of
\* the integer a blob reads as.  A zeroblob has the length asked for.
Rewriting(x, y) ==
    LET a == Lit(x)
        b == Lit(y)
        str == to_text(x)
        none == Lit(Text(<<>>))
        Up(e) == Call("upper", <<e>>)
        Low(e) == Call("lower", <<e>>)
        Hex(e) == Call("hex", <<e>>)
        Length(e) == Call("length", <<e>>)
        Replace(e, from, to) == Call("replace", <<e, from, to>>)
        Joined(e, f) == Binary("concat", e, f)
        some == ~AnyNull(<<x, y>>)
        blob == x.type = "blob"
    IN { Law(TRUE, Up(Low(a)), Up(a)),
         Law(TRUE, Low(Up(a)), Low(a)),
         Law(~IsNull(x), Length(Up(a)), Num(Len(str))),
         Law(some, Replace(a, b, b), Lit(Text(str))),
         Law(some /\ str # <<>>, Replace(a, a, b), Lit(Text(to_text(y)))),
         Law(some, Replace(a, none, b), Lit(Text(str))),
         Law(blob, Length(Hex(a)), Binary("mul", Num(2), Length(a))),
         Law(blob, Joined(Lit(Text(<<88, Apostrophe>>)), Joined(Low(Hex(a)), Lit(Text(<<Apostrophe>>)))),
             Call("quote", <<a>>)),
         Law(x.type = "text", Hex(a), Hex(Lit(Blob(Utf8(str))))),
         Law(blob /\ 8 * Len(x.bytes) = Width /\ coerce_integer(x) # Integer(0),
             Call("ltrim", <<Hex(a), Num(0)>>), Hex(Binary("bitor", a, Num(0)))),
         Law(x.type = "integer" /\ x.int >= 0, Length(Call("zeroblob", <<a>>)), a) }
       \cup { Law(TRUE, Replace(a, Lit(Text(<<c>>)), none), Lit(Text(SelectSeq(str, LAMBDA d : d # c))))
              : c \in Range(str) }

\* A text without wildcards is GLOB only itself, and LIKE what differs in case.
Matching(x, y) ==
    LET s == value_to_text(x)
        t == value_to_text(y)
    IN IF AnyNull(<<x, y>>) THEN {eval_like(x, y, Null), eval_glob(x, y)} = {Null}
       ELSE Range(t) \cap {Star, Question, Open, Percent, Underscore} = {} =>
              /\ eval_glob(x, y) = Truth(s = t)
              /\ eval_like(x, y, Null) = Truth(lower(Text(s)) = lower(Text(t)))

Starts == {MinInt, -1, 1, 2, MaxInt}
Lengths == {MinInt, -1, 0, 1, MaxInt}

\* The functions take texts apart and put them together again: a text cut in
\* two at any place is the two parts, from either end; trimming both ends is
\* trimming one and then the other; ifnull, coalesce and CASE choose alike;
\* char undoes unicode; only the smallest integer has a negative absolute value;
\* and typeof, round, upper, lower, replace, hex, zeroblob, GLOB and LIKE obey
\* the laws above.
\* (Indices from one, negative ones and lengths are turned into slices in
\* src/rust-port/src/func/mod.rs:179-281, each function has its own way with a
\* number, a text and a blob, and so has LIKE, src/rust-port/src/expr/mod.rs:736.)
FunctionsAgree(x, y) ==
    LET a == Lit(x)
        b == Lit(y)
        str == to_text(x)
        Substr(start, l) == Call("substr", <<a, Num(start), Num(l)>>)
        Ending(k) == Call("substr", <<a, Num(k)>>)
        trimmed == Call("trim", <<a, b>>)
        some == ~IsNull(x)
        smallest == MinInt \in (IF x.type = "integer" THEN {x.int} ELSE ParseInt(str))
    IN /\ Matching(x, y)
       /\ Lawful(
            Rounding(x, y) \cup Rewriting(x, y)
            \cup { Law(some, Binary("concat", Substr(1, k), Ending(k + 1)), Lit(Text(str))) : k \in 0 .. Len(str) }
            \cup { Law(some, Ending(-k), Ending(Len(str) - k + 1)) : k \in 1 .. Len(str) }
            \cup { Law(some, Call("length", <<Ending(1)>>), Num(Len(str))),
                   Law(some /\ str # <<>>, Call("char", <<Call("unicode", <<a>>)>>), Substr(1, 1)),
                   Law(TRUE, Call("ltrim", <<Call("rtrim", <<a, b>>), b>>), trimmed),
                   Law(TRUE, Call("trim", <<trimmed, b>>), trimmed),
                   Law(TRUE, Call("ifnull", <<a, b>>), Call("coalesce", <<a, b>>)),
                   Law(Ordered({x, y}), Call("nullif", <<a, b>>),
                       CaseOf(<<a>>, <<[when |-> b, then |-> Lit(Null)]>>, <<a>>)),
                   Law(~smallest, Call("coalesce", <<Binary("lt", Call("abs", <<a>>), Num(0)), Num(0)>>), Num(0)) },
            <<>>)
       /\ some =>
            Panicking({Substr(start, l) : start \in Starts, l \in Lengths}, <<>>)
            = {Substr(start, MaxInt) : start \in {n \in Starts : StartIndex(n, Len(str)) \in 1 .. Len(str) - 1}}
=============================================================================
