------------------------------ MODULE Pattern ------------------------------
(***************************************************************************)
(* The matcher of util/pattern.rs, which GLOB and LIKE share.  A string is *)
(* the sequence of its code points; the cursor on a string is what is left *)
(* of it, and a string of sqlite3_strglob holds no NUL.                    *)
(***************************************************************************)
EXTENDS Integers, Sequences, SequencesExt, FiniteSetsExt

Star == 42   Dash == 45   Question == 63   Open == 91   Close == 93   Caret == 94
Percent == 37   Underscore == 95

\* GLOB_INFO and LIKE_INFO_NORM with match_other, and the cursor's escaped flag.
Glob == [all |-> Star, one |-> Question, sets |-> TRUE, no_case |-> FALSE,
         other |-> Open, escaped |-> FALSE]
Like(esc) == [all |-> Percent, one |-> Underscore, sets |-> FALSE, no_case |-> TRUE,
              other |-> esc, escaped |-> FALSE]

\* read_utf8: the next code point, 0 behind the last.
Next1(str) == IF str = <<>> THEN 0 ELSE Head(str)
After(str) == IF str = <<>> THEN <<>> ELSE Tail(str)
From(str, k) == SubSeq(str, k, Len(str))

ascii_to_lower(c) == IF c \in 65 .. 90 THEN c + 32 ELSE c
Same(c, d, how) ==
    c = d \/ (how.no_case /\ c < 128 /\ d < 128 /\ ascii_to_lower(c) = ascii_to_lower(d))

\* The walk over a set from behind its bracket, caret and leading bracket:
\* whether ch was seen in it, whether it was closed, and what follows.
RECURSIVE WalkSet(_, _, _, _)
WalkSet(pat, ch, prior, seen) ==
    LET c == Next1(pat)
        rest == After(pat)
    IN CASE c = 0 -> [closed |-> FALSE, seen |-> seen, rest |-> <<>>]
         [] c = Close -> [closed |-> TRUE, seen |-> seen, rest |-> rest]
         [] c = Dash /\ prior > 0 /\ Next1(rest) \notin {Close, 0} ->
              WalkSet(After(rest), ch, 0, seen \/ ch \in prior .. Next1(rest))
         [] OTHER -> WalkSet(rest, ch, c, seen \/ ch = c)

InvertedBy(pat) == Next1(pat) = Caret
Walk(pat, ch) ==
    LET body == IF InvertedBy(pat) THEN Tail(pat) ELSE pat
    IN IF Next1(body) = Close THEN WalkSet(Tail(body), ch, 0, ch = Close)
                              ELSE WalkSet(body, ch, 0, FALSE)

\* The verdict that lets the search behind an earlier match_all go on.
Mismatch_GivesUp == "nowildcard"
Mismatch == "nomatch"

RECURSIVE compare(_, _, _)

\* Behind a match_all: one more character for each match_one, then the places
\* from which the rest of the pattern may match, until one does not say nomatch.
RECURSIVE AfterAll(_, _, _)
AfterAll(pat, str, how) ==
    LET c == Next1(pat)
        rest == After(pat)
        Try(places, next, ahead) ==
            LET Result(k) == compare(next, From(str, k + ahead), how)
                ends == {k \in places : Result(k) # "nomatch"}
            IN IF ends = {} THEN "nowildcard" ELSE Result(Min(ends))
    IN CASE c = how.all -> AfterAll(rest, str, how)
         [] c = how.one /\ c # how.all ->
              IF str = <<>> THEN "nowildcard" ELSE AfterAll(rest, Tail(str), how)
         [] c = 0 -> "match"
         [] c = how.other /\ c \notin {how.all, how.one, 0} ->
              IF how.sets
              THEN Try(DOMAIN str, pat, 0)
              ELSE IF rest = <<>> THEN "nowildcard"
              ELSE IF Same(Head(rest), Next1(str), how) THEN compare(Tail(rest), After(str), how)
              ELSE Mismatch
         [] OTHER -> Try({k \in DOMAIN str : Same(c, str[k], how)}, rest, 1)

\* pattern_compare_inner
compare(pat, str, how) ==
    LET c == Next1(pat)
        d == Next1(str)
        rest == After(pat)
    IN CASE c = 0 -> IF str = <<>> THEN "match" ELSE Mismatch
         [] c = how.all -> AfterAll(rest, str, how)
         [] c = how.other /\ c \notin {how.all, 0} ->
              IF how.sets
              THEN LET set == Walk(rest, d)
                   IN IF d # 0 /\ set.closed /\ set.seen # InvertedBy(rest)
                      THEN compare(set.rest, After(str), how) ELSE Mismatch
              ELSE IF rest # <<>> /\ Same(Head(rest), d, how)
                   THEN compare(Tail(rest), After(str), [how EXCEPT !.escaped = TRUE])
                   ELSE Mismatch
         [] OTHER ->
              IF Same(c, d, how) \/ (c = how.one /\ ~how.escaped /\ d # 0)
              THEN compare(rest, After(str), how) ELSE Mismatch

sqlite3_strglob(pat, str) == compare(pat, str, Glob) = "match"
sqlite3_strlike(pat, str, esc) == compare(pat, str, Like(esc)) = "match"

----------------------------------------------------------------------------
(* What a pattern means: a sequence of items, each a set of code points    *)
(* that one character may be, or Anything for any number of characters.    *)

CONSTANT CodePoints     \* the code points that occur, and 0 is none of them

Anything == {0}
Never == {}
Folded(c) == {d \in CodePoints : Same(c, d, Like(0))}

\* The characters of the body of a set: single ones, and ranges from the left.
\* A range that runs backwards holds its first character.
RECURSIVE Members(_)
Members(body) ==
    CASE body = <<>> -> {}
      [] Len(body) >= 3 /\ body[2] = Dash -> {body[1]} \cup (body[1] .. body[3]) \cup Members(From(body, 4))
      [] OTHER -> {body[1]} \cup Members(Tail(body))

\* The end of the set whose first character is at k, the leading bracket aside.
SetEnd(pat, k) ==
    LET ends == {j \in k + 1 .. Len(pat) : pat[j] = Close}
    IN IF ends = {} THEN 0 ELSE Min(ends)

\* A leading bracket is a member and begins no range.
BodyMembers(body) ==
    IF body # <<>> /\ body[1] = Close THEN {Close} \cup Members(Tail(body)) ELSE Members(body)

RECURSIVE GlobItems(_)
GlobItems(pat) ==
    IF pat = <<>> THEN <<>>
    ELSE CASE pat[1] = Star -> <<Anything>> \o GlobItems(Tail(pat))
           [] pat[1] = Question -> <<CodePoints>> \o GlobItems(Tail(pat))
           [] pat[1] = Open ->
                LET inverted == Len(pat) > 1 /\ pat[2] = Caret
                    first == IF inverted THEN 3 ELSE 2
                    end == SetEnd(pat, first)       \* never the first character
                    members == BodyMembers(SubSeq(pat, first, end - 1)) \cap CodePoints
                IN IF end = 0 THEN <<Never>>
                   ELSE <<IF inverted THEN CodePoints \ members ELSE members>> \o GlobItems(From(pat, end + 1))
           [] OTHER -> <<{pat[1]}>> \o GlobItems(Tail(pat))

RECURSIVE LikeItems(_, _)
LikeItems(pat, esc) ==
    IF pat = <<>> THEN <<>>
    ELSE CASE pat[1] = Percent -> <<Anything>> \o LikeItems(Tail(pat), esc)
           [] pat[1] = esc ->
                IF Len(pat) = 1 THEN <<Never>> ELSE <<Folded(pat[2])>> \o LikeItems(From(pat, 3), esc)
           [] pat[1] = Underscore -> <<CodePoints>> \o LikeItems(Tail(pat), esc)
           [] OTHER -> <<Folded(pat[1])>> \o LikeItems(Tail(pat), esc)

RECURSIVE Denotes(_, _)
Denotes(items, str) ==
    CASE items = <<>> -> str = <<>>
      [] items # <<>> /\ Head(items) = Anything -> \E k \in 1 .. Len(str) + 1 : Denotes(Tail(items), From(str, k))
      [] OTHER -> str # <<>> /\ Head(str) \in Head(items) /\ Denotes(Tail(items), Tail(str))

\* An escape behind a match_all is compared with one place only, and a
\* match_one behind an escape is none: the code means something else there.
PlainEscapes(pat, esc) ==
    \A k \in DOMAIN pat :
       pat[k] = esc => /\ \A j \in 1 .. k - 1 : pat[j] # Percent
                       /\ \A j \in k + 1 .. Len(pat) : pat[j] # Underscore

\* The matcher finds a match exactly when the pattern means one: a search that
\* gave up early, or said nomatch where no later start can help, loses none,
\* and a set or a range cut short by the end of the pattern matches nothing.
\* (The three verdicts of src/rust-port/src/util/pattern.rs:125-345.)
PatternsMean(pat, strs, esc) ==
    \A str \in strs :
       /\ sqlite3_strglob(pat, str) = Denotes(GlobItems(pat), str)
       /\ sqlite3_strlike(pat, str, 0) = Denotes(LikeItems(pat, 0), str)
       /\ PlainEscapes(pat, esc) => sqlite3_strlike(pat, str, esc) = Denotes(LikeItems(pat, esc), str)
=============================================================================
