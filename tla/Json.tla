--------------------------------- MODULE Json ---------------------------------
(* The recursive parser of src/json.c.  A text is a sequence of symbols: the      *)
(* punctuation, blanks, and one symbol for a string, a number or a literal.  The  *)
(* tokens are what the callback gets; it may stop the parser at any token.        *)
(* Numbers have their own operator, on characters.                                *)
EXTENDS Integers, Sequences, FiniteSetsExt, Functions

CONSTANTS
    DEPTH_MAX,
    ExpMax,         \* 100000, the largest exponent
    W,              \* bits of an int64_t; half as many has an int32_t
    ZeroExponent    \* the number 0 may have an exponent

Str == "s"          \* the symbols for a string, and for a value of another kind
Atom == "n"
Blanks == {" "}

At(t, i) == IF i > Len(t) THEN "end" ELSE t[i]
Skip(t, p) == [p EXCEPT !.i = Min({k \in p.i..(Len(t) + 1) : At(t, k) \notin Blanks})]
Bad(p) == [p EXCEPT !.rc = "SYNTAX_ERROR"]

\* emit: the callback stops the parser at the limit-th token.
Emit(p, op) ==
    LET q == [p EXCEPT !.out = Append(@, op)] IN
    IF Len(q.out) = q.limit THEN [q EXCEPT !.rc = "ABORTED"] ELSE q

\* The next call of a function that returns at the first error
Then(p, Step(_)) == IF p.rc # "OK" THEN p ELSE Step(p)

Advance(p) == [p EXCEPT !.i = @ + 1]

\* parse_string; the callback is called before the closing quote is passed.
ParseString(t, p, op) ==
    IF At(t, p.i) # Str THEN Bad(p)
    ELSE LET q == Emit(p, op) IN IF q.rc # "OK" THEN q ELSE Skip(t, Advance(q))

Leave(p) == [p EXCEPT !.depth = @ - 1]
Enter(p) == [p EXCEPT !.depth = @ + 1]

Begin(t, p, op) ==
    LET q == Enter(p) IN
    IF q.depth > DEPTH_MAX THEN Bad(q) ELSE Then(Emit(q, op), LAMBDA r : Skip(t, Advance(r)))

End(p, op) == LET q == Emit(p, op) IN IF q.rc # "OK" THEN q ELSE Leave(Advance(q))

\* Behind a comma
Trailing(t, p, close) == IF At(t, p.i) = close THEN Bad(p) ELSE p

RECURSIVE ParseValue(_, _), ObjectLoop(_, _), ArrayLoop(_, _)

ObjectLoop(t, p) ==
    LET value(k) == IF At(t, k.i) # ":" THEN Bad(k) ELSE ParseValue(t, Advance(k))
        comma(e) == IF At(t, e.i) = "," THEN Trailing(t, Advance(e), "}") ELSE e
        keyed == Then(ParseString(t, Skip(t, p), "key"), LAMBDA k : value(Skip(t, k))) IN
    IF At(t, p.i) = "}" THEN End(p, "obj_end")
    ELSE Then(Then(keyed, LAMBDA v : comma(Skip(t, v))), LAMBDA n : ObjectLoop(t, n))

ArrayLoop(t, p) ==
    LET comma(e) == IF At(t, e.i) = "," THEN Trailing(t, Skip(t, Advance(e)), "]") ELSE e IN
    IF At(t, p.i) = "]" THEN End(p, "array_end")
    ELSE Then(Then(ParseValue(t, Skip(t, p)), LAMBDA v : comma(Skip(t, v))), LAMBDA n : ArrayLoop(t, n))

ParseValue(t, p0) ==
    LET p == Skip(t, p0) IN
    CASE At(t, p.i) = "{" -> Then(Begin(t, p, "obj_start"), LAMBDA r : ObjectLoop(t, r))
      [] At(t, p.i) = "[" -> Then(Begin(t, p, "array_start"), LAMBDA r : ArrayLoop(t, r))
      [] At(t, p.i) = Str -> ParseString(t, p, "value")
      [] At(t, p.i) = Atom -> Advance(Emit(p, "value"))
      [] OTHER -> Bad(p)

\* jsdrv_json_parse
Parse(t, limit) ==
    LET r == ParseValue(t, [i |-> 1, depth |-> 0, out |-> <<>>, rc |-> "OK", limit |-> limit]) IN
    [r EXCEPT !.rc = IF @ = "ABORTED" THEN "OK" ELSE @]

------------------------------------------------------------------------------
(* parse_number, on characters                                               *)

Digits == <<"0", "1", "2", "3", "4", "5", "6", "7", "8", "9">>
D(c) == (CHOOSE k \in 1..10 : Digits[k] = c) - 1
IsDigit(c) == c \in Range(Digits)
DigitsEnd(s, i) == Min({k \in i..(Len(s) + 1) : ~IsDigit(At(s, k))})

MaxI64 == 2^(W - 1) - 1
MaxI32 == 2^((W \div 2) - 1) - 1

\* The digits from i to j - 1 as a number, without the ones that Drop leaves out
Whole(s, i, j, Drop(_, _)) ==
    LET acc[k \in (i - 1)..(j - 1)] ==
            IF k = i - 1 THEN 0
            ELSE IF Drop(acc[k - 1], D(s[k])) THEN acc[k - 1] ELSE acc[k - 1] * 10 + D(s[k]) IN
    acc[j - 1]

Never(v, d) == FALSE

\* A digit that would overflow is dropped, and is_overflow set.
Overflows(v, d) == v > (MaxI64 - d) \div 10
IsOverflow(s, i, j) == \E k \in i..(j - 1) : Overflows(Whole(s, i, k, Overflows), D(s[k]))

Refused == [rc |-> 1, end |-> 0, type |-> "none", m |-> 0, e |-> 0, root |-> 0]

\* The result is m * 10^e (e has a fraction of root digits), of the type; end is the
\* first character that is left.
ParseNumber(s) ==
    LET neg == At(s, 1) = "-"
        a == IF At(s, 1) \in {"-", "+"} THEN 2 ELSE 1
        b == IF At(s, a) = "0" THEN a + 1 ELSE DigitsEnd(s, a)
        w == Whole(s, a, b, Overflows)
        sign(v) == IF neg THEN -v ELSE v
        point == At(s, b) = "."
        c == IF point THEN DigitsEnd(s, b + 1) ELSE b
        frac == IF point THEN Whole(s, b + 1, c, Never) ELSE 0
        pow == IF point THEN c - b - 1 ELSE 0
        \* the exponent: the character that is tested is the last one read
        x == (IF point \/ At(s, a) # "0" THEN At(s, c) ELSE "0") \in {"e", "E"}
        d == IF ~x THEN c ELSE IF At(s, c + 1) \in {"-", "+"} THEN c + 2 ELSE c + 1
        f == IF x THEN DigitsEnd(s, d) ELSE c
        ex == IF x THEN Min({Whole(s, d, f, Never), ExpMax}) ELSE 0
        g == IF x /\ At(s, f) = "." THEN DigitsEnd(s, f + 1) ELSE f IN
    CASE ~IsDigit(At(s, a)) -> Refused
      [] IsDigit(At(s, a)) /\ At(s, b) \notin {".", "e", "E"} ->
           IF IsOverflow(s, a, b) THEN Refused
           ELSE [rc |-> 0, end |-> b, m |-> sign(w), e |-> 0, root |-> 0,
                 type |-> IF -MaxI32 - 1 <= sign(w) /\ sign(w) <= MaxI32 THEN "i32" ELSE "i64"]
      [] IsDigit(At(s, a)) /\ At(s, b) \in {".", "e", "E"} ->
           IF x /\ f = d THEN Refused
           ELSE [rc |-> 0, end |-> g, type |-> "f64", m |-> sign(w * 10^pow + frac), root |-> IF g > f THEN g - f - 1 ELSE 0,
                 e |-> (IF x /\ At(s, c + 1) = "-" THEN -ex ELSE ex) - pow]

------------------------------------------------------------------------------
(* What a text is, without a parser                                          *)

\* The values of at most the given depth and width: <<"atom">>, <<"obj", ...>>, ...
RECURSIVE Trees(_, _), Render(_), Tokens(_), JoinAll(_, _, _)
Trees(depth, n) ==
    {<<"str">>, <<"atom">>} \cup
    (IF depth = 0 THEN {}
     ELSE UNION {{<<k>> \o s : k \in {"obj", "array"}, s \in [1..m -> Trees(depth - 1, n)]} : m \in 0..n})

JoinAll(s, sep, pre) == IF s = <<>> THEN <<>> ELSE pre \o Head(s) \o (IF Len(s) > 1 THEN sep ELSE <<>>) \o JoinAll(Tail(s), sep, pre)

Render(v) ==
    CASE Head(v) = "str" -> <<Str>>
      [] Head(v) = "atom" -> <<Atom>>
      [] Head(v) = "obj" -> <<"{">> \o JoinAll([k \in 1..(Len(v) - 1) |-> Render(v[k + 1])], <<",", " ">>, <<Str, ":", " ">>) \o <<"}">>
      [] Head(v) = "array" -> <<"[">> \o JoinAll([k \in 1..(Len(v) - 1) |-> Render(v[k + 1])], <<",">>, <<" ">>) \o <<" ", "]">>

Tokens(v) ==
    CASE Head(v) \in {"str", "atom"} -> <<"value">>
      [] Head(v) = "obj" -> <<"obj_start">> \o JoinAll([k \in 1..(Len(v) - 1) |-> Tokens(v[k + 1])], <<>>, <<"key">>) \o <<"obj_end">>
      [] Head(v) = "array" -> <<"array_start">> \o JoinAll([k \in 1..(Len(v) - 1) |-> Tokens(v[k + 1])], <<>>, <<>>) \o <<"array_end">>

\* The objects and arrays that are open after the tokens
Nesting(out) ==
    LET open[k \in 0..Len(out)] ==
            IF k = 0 THEN <<>>
            ELSE IF out[k] \in {"obj_start", "array_start"} THEN Append(open[k - 1], out[k])
            ELSE IF out[k] \in {"obj_end", "array_end"} THEN SubSeq(open[k - 1], 1, Len(open[k - 1]) - 1)
            ELSE open[k - 1] IN
    open

\* A value is reported token by token, in order, wherever the callback stops; the
\* nesting that the parser counts is the one of the tokens, and none is left at the end.
ValueExact(v) ==
    LET text == Render(v)
        tokens == Tokens(v) IN
    \A n \in 0..Len(tokens) :
        LET r == Parse(text, n) IN
        r.rc = "OK" /\ IF n = 0 THEN r.out = tokens /\ r.depth = 0 ELSE r.out = SubSeq(tokens, 1, n)

\* Whatever the text, the tokens reported are those of a value or of its beginning:
\* ends match their starts, keys are in objects, values of objects follow a key, and
\* the nesting stays within DEPTH_MAX.
TokensFormed(t) ==
    LET r == Parse(t, 0)
        o == r.out
        open == Nesting(o)
        top(k) == IF open[k] = <<>> THEN "none" ELSE open[k][Len(open[k])] IN
    /\ \A k \in DOMAIN o :
         /\ Len(open[k]) <= DEPTH_MAX
         /\ o[k] \in {"obj_end"} => top(k - 1) = "obj_start"
         /\ o[k] \in {"array_end"} => top(k - 1) = "array_start"
         /\ o[k] = "key" => top(k - 1) = "obj_start"
         /\ o[k] \in {"value", "obj_start", "array_start"} /\ top(k - 1) = "obj_start" => o[k - 1] = "key"
         /\ k > 1 => open[k - 1] # <<>>
    /\ r.rc = "OK" => o # <<>> /\ open[Len(o)] = <<>> /\ r.depth = 0

\* An integer has its value or is refused; a number with a fraction or an exponent is
\* m * 10^e; nothing of a number is left.
NumberExact(i, f, e) ==
    LET body(s) == (IF s = <<>> THEN 0 ELSE MapThenSumSet(LAMBDA k : D(s[k]) * 10^(Len(s) - k), DOMAIN s))
        plain == i # <<>> /\ (i[1] = "0" => Len(i) = 1)
        text == i \o (IF f = <<>> THEN <<>> ELSE <<".">> \o f) \o (IF e = <<>> THEN <<>> ELSE <<"e">> \o e)
        v == body(i) * 10^Len(f) + body(f)
        r == ParseNumber(text)
        n == ParseNumber(<<"-">> \o text) IN
    plain /\ (ZeroExponent \/ i[1] # "0" \/ e = <<>> \/ f # <<>>) =>
        IF body(i) > MaxI64 THEN f = <<>> /\ e = <<>> => r.rc # 0
        ELSE /\ r.rc = 0 /\ r.end = Len(text) + 1 /\ r.m = v /\ r.e = body(e) - Len(f)
             /\ n = [r EXCEPT !.m = -v, !.end = @ + 1, !.type = n.type]
             /\ f = <<>> /\ e = <<>> => r.type = (IF v <= MaxI32 THEN "i32" ELSE "i64") /\ n.type # "f64"
==============================================================================
