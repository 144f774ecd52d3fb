--------------------------------- MODULE Cstr ---------------------------------
(* The string functions of src/cstr.c and the topic builder of src/topic.c.  A   *)
(* string is a sequence of characters without its terminator.  Integers have W    *)
(* bits; W is a parameter, so that the overflow tests of the 64-bit conversions   *)
(* come within reach.                                                             *)
EXTENDS Integers, Sequences, FiniteSetsExt, Functions

CONSTANTS
    W,          \* bits of an integer, even and more than 8
    FullRange,  \* the range of a conversion is checked to its very end
    JSDRV_TOPIC_LENGTH_MAX

R == 2^W
Space == " "
Digits == <<"0", "1", "2", "3", "4", "5", "6", "7", "8", "9">>
Nibbles == Digits \o <<"a", "b", "c", "d", "e", "f">>
Capitals == Digits \o <<"A", "B", "C", "D", "E", "F">>
IsDigit(c) == c \in Range(Digits)
ValueOf(c) == (CHOOSE k \in 1..16 : c \in {Nibbles[k], Capitals[k]}) - 1
IsNibble(c) == c \in Range(Nibbles) \cup Range(Capitals)

\* The first place from i on that is not in the set S of characters
After(s, i, S) == Min({k \in i..(Len(s) + 1) : k > Len(s) \/ s[k] \notin S})

Failed == [rc |-> 1, v |-> 0]

------------------------------------------------------------------------------
(* Numbers                                                                   *)

\* The overflow tests of jsdrv_cstr_to_u64, before the next digit
HexOverflow(v) == v >= 2^(W - 8)
DecOverflow(v) == (v \div 2^(W \div 2)) * 10 >= 2^(W \div 2)

\* The digits of s from i to j - 1 in the given base; over(v) is the overflow test.
Accumulate(s, i, j, base, Over(_)) ==
    LET acc[k \in (i - 1)..(j - 1)] ==
            IF k = i - 1 THEN [rc |-> 0, v |-> 0]
            ELSE LET p == acc[k - 1] IN
                 IF s[k] = "_" \/ p.rc # 0 THEN p
                 ELSE IF Over(p.v) THEN Failed
                 ELSE [rc |-> 0, v |-> (p.v * base + ValueOf(s[k])) % R] IN
    acc[j - 1]

Unsigned(s, HexOver(_), DecOver(_)) ==
    LET i == After(s, 1, {Space})
        hex == i < Len(s) /\ s[i] = "0" /\ s[i + 1] = "x"
        j == IF hex THEN After(s, i + 2, Range(Nibbles) \cup Range(Capitals) \cup {"_"}) ELSE After(s, i, Range(Digits))
        r == IF hex THEN Accumulate(s, i + 2, j, 16, HexOver) ELSE Accumulate(s, i, j, 10, DecOver) IN
    IF i > Len(s) \/ r.rc # 0 \/ After(s, j, {Space}) <= Len(s) THEN Failed ELSE r

Never(v) == FALSE

\* jsdrv_cstr_to_u32, jsdrv_cstr_to_u64
ToU32(s) == Unsigned(s, Never, Never)
ToU64(s) == Unsigned(s, HexOverflow, DecOverflow)

Signed(w) == IF w >= R \div 2 THEN w - R ELSE w

\* What is behind the sign
Sign(s) ==
    LET i == After(s, 1, {Space}) IN
    IF i <= Len(s) /\ s[i] \in {"-", "+"} THEN [neg |-> s[i] = "-", rest |-> SubSeq(s, i + 1, Len(s))]
    ELSE [neg |-> FALSE, rest |-> SubSeq(s, i, Len(s))]

\* jsdrv_cstr_to_i32
ToI32(s) ==
    LET n == Sign(s)  r == ToU32(n.rest) IN
    IF r.rc # 0 THEN Failed ELSE [rc |-> 0, v |-> Signed((IF n.neg THEN -Signed(r.v) ELSE Signed(r.v)) % R)]

\* jsdrv_cstr_to_i64
ToI64(s) ==
    LET n == Sign(s)  r == ToU64(n.rest) IN
    IF r.rc # 0 \/ r.v >= R \div 2 THEN Failed ELSE [rc |-> 0, v |-> IF n.neg THEN -r.v ELSE r.v]

\* jsdrv_cstr_to_i32s: a number with a decimal point, times 10^exponent.  In a round
\* of the loop p is the place, d the digits behind the point or -1.
ToI32s(s, exponent) ==
    LET n == Sign(s)
        t == n.rest
        limit == 2 * (Len(t) + exponent + 1)
        at(p) == IF p > Len(t) THEN "end" ELSE t[p]
        loop[k \in 0..limit] ==
            IF k = 0 THEN [p |-> 1, d |-> -1, v |-> 0, rc |-> 0, on |-> TRUE]
            ELSE LET x == loop[k - 1]  c == at(x.p) IN
                 IF ~x.on \/ x.d >= exponent THEN [x EXCEPT !.on = FALSE]
                 ELSE IF c = "." THEN [x EXCEPT !.d = 0, !.p = @ + 1]
                 ELSE IF c \in {"end", ","} THEN
                      IF x.d < 0 THEN [x EXCEPT !.on = FALSE] ELSE [x EXCEPT !.v = (@ * 10) % R, !.d = @ + 1]
                 ELSE IF ~IsDigit(c) THEN [x EXCEPT !.rc = 1, !.on = FALSE]
                 ELSE [x EXCEPT !.v = (@ * 10 + ValueOf(c)) % R, !.d = IF @ >= 0 THEN @ + 1 ELSE @, !.p = @ + 1]
        z == loop[limit]
        more == exponent - (IF z.d < 0 THEN 0 ELSE z.d)
        v == Signed((z.v * 10^more) % R) IN
    IF z.rc # 0 \/ After(t, z.p, Range(Digits) \cup {Space}) <= Len(t) THEN Failed
    ELSE [rc |-> 0, v |-> IF n.neg THEN -v ELSE v]

\* jsdrv_u32_to_cstr
ToCstr(u, size) ==
    LET n == IF u = 0 THEN 1 ELSE Max({k \in 1..((W \div 3) + 1) : u >= 10^(k - 1)}) IN
    IF size = 0 THEN [rc |-> "PARAMETER_INVALID", out |-> <<>>]
    ELSE IF n + 1 > size THEN [rc |-> "TOO_SMALL", out |-> <<>>]
    ELSE [rc |-> "SUCCESS", out |-> [k \in 1..n |-> Digits[((u \div 10^(n - k)) % 10) + 1]]]

------------------------------------------------------------------------------
(* Text                                                                      *)

\* jsdrv_cstr_copy: end is the place of the terminator.
CopyTo(s, size) ==
    IF size = 0 THEN [rc |-> -1, out |-> <<>>, end |-> 0]
    ELSE LET n == IF Len(s) < size THEN Len(s) ELSE size - 1 IN
         [rc |-> IF n < Len(s) THEN 1 ELSE 0, out |-> SubSeq(s, 1, n), end |-> n + 1]

\* tgt_end: the characters that are written before the test stops the loop
JoinLimit(size) == IF size > 1 THEN size - 1 ELSE 1

\* jsdrv_cstr_join
JoinTo(a, b, size) ==
    IF size = 0 THEN [rc |-> -1, out |-> <<>>, end |-> 0]
    ELSE LET s == a \o b  full == Len(s) >= JoinLimit(size)  n == IF full THEN JoinLimit(size) ELSE Len(s) IN
         [rc |-> IF full THEN 1 ELSE 0, out |-> SubSeq(s, 1, n), end |-> n + 1]

\* jsdrv_cstr_starts_with: what follows the prefix, or nothing
StartsWith(s, p) ==
    LET n == Min({k \in 1..(Len(p) + 1) : k > Len(p) \/ k > Len(s) \/ s[k] # p[k]}) IN
    IF n > Len(p) THEN {SubSeq(s, n, Len(s))} ELSE {}

\* jsdrv_cstr_ends_with: the suffix in s, or nothing
EndsWith(s, p) ==
    IF p = <<>> THEN {s}
    ELSE IF Len(s) < Len(p) \/ \E k \in 0..(Len(p) - 1) : s[Len(s) - k] # p[Len(p) - k] THEN {}
    ELSE {SubSeq(s, Len(s) - Len(p) + 1, Len(s))}

\* _toupper and jsdrv_cstr_casecmp: letters are compared as capitals, in the order of
\* Letters.
Letters == Capitals \o <<"X">>
Toupper(c) == IF IsNibble(c) THEN Capitals[ValueOf(c) + 1] ELSE IF c = "x" THEN "X" ELSE c
Order(c) == CHOOSE k \in DOMAIN Letters : Letters[k] = Toupper(c)
Casecmp(a, b) ==
    LET k == Min({k \in 1..(Len(a) + 1) : k > Len(a) \/ k > Len(b) \/ Toupper(a[k]) # Toupper(b[k])}) IN
    CASE k > Len(a) /\ k > Len(b) -> 0
      [] k > Len(a) /\ k <= Len(b) -> -1
      [] k <= Len(a) /\ k > Len(b) -> 1
      [] k <= Len(a) /\ k <= Len(b) -> IF Order(a[k]) < Order(b[k]) THEN -1 ELSE 1

\* jsdrv_cstr_hex_to_u4, jsdrv_cstr_u4_to_hex
HexToU4(c) == IF IsNibble(c) THEN ValueOf(c) ELSE 0
U4ToHex(v) == IF v < 16 THEN Capitals[v + 1] ELSE "0"

------------------------------------------------------------------------------
(* What a number is, without a parser                                        *)

Blank(s, i, j) == \A k \in i..j : s[k] = Space

\* The numbers that s denotes: blanks, digits, blanks
Denotes(s, base, D, pre) ==
    LET n == Len(pre) IN
    {LET p == {k \in i..j : s[k] # "_"} IN
     MapThenSumSet(LAMBDA k : ValueOf(s[k]) * base^Cardinality({m \in p : m > k}), p) :
        <<i, j>> \in {<<a, b>> \in (1..(Len(s) + 1)) \X (0..Len(s)) :
            /\ a > n /\ SubSeq(s, a - n, a - 1) = pre /\ Blank(s, 1, a - 1 - n) /\ Blank(s, b + 1, Len(s))
            /\ a <= b /\ \A k \in a..b : s[k] \in D}}

Decimal(s) == Denotes(s, 10, Range(Digits), <<>>)


\* A number times 10^e: every digit that counts has its place, whatever is before the
\* point, behind it or missing.
ScaledExact(s, e) ==
    \A p \in DOMAIN s : (s[p] = "." /\ \A k \in DOMAIN s \ {p} : IsDigit(s[k])) =>
        LET v == MapThenSumSet(LAMBDA k : ValueOf(s[k]) * (IF k < p THEN 10^(p - 1 - k + e) ELSE 10^(e - (k - p))),
                               {k \in DOMAIN s \ {p} : k - p <= e}) IN
        v < R \div 2 => ToI32s(s, e) = [rc |-> 0, v |-> v] /\ ToI32s(<<"-">> \o s, e) = [rc |-> 0, v |-> -v]

\* A number that is printed and read again is the same; it is printed if it fits.
PrintExact(u, size) ==
    LET r == ToCstr(u, size) IN
    /\ r.rc = "SUCCESS" => Len(r.out) < size /\ ToU32(r.out) = [rc |-> 0, v |-> u]
    /\ size > 5 => r.rc = "SUCCESS"

\* What is written is the beginning of the text, ends within the target, and is all of
\* it when the call says so.  Prefix, suffix and comparison agree with the text.
TextFits(a, b, size) ==
    /\ \A r \in {CopyTo(a \o b, size), JoinTo(a, b, size)} :
         size > 1 => /\ r.end <= size /\ r.out = SubSeq(a \o b, 1, Len(r.out))
                     /\ r.rc = 0 => r.out = a \o b
                     /\ r.rc = 1 => Len(r.out) = size - 1
    /\ StartsWith(a \o b, a) = {b} /\ EndsWith(a \o b, b) = {IF b = <<>> THEN a ELSE b}
    /\ Casecmp(a, b) = -Casecmp(b, a)
    /\ Casecmp(a, b) = 0 <=> [k \in DOMAIN a |-> Toupper(a[k])] = [k \in DOMAIN b |-> Toupper(b[k])]

\* The code says that a text was cut only when it was.
CutIsTold(a, b, size) == size > 1 /\ JoinTo(a, b, size).rc = 1 => Len(a \o b) >= size
------------------------------------------------------------------------------
(* Topics: a string within a fixed array.  An assertion that fails ends the   *)
(* program (Fatal).                                                           *)

Slash == "/"
Suffixes == {"$", "%", "&", "?", "#"}
Fatal == [fatal |-> TRUE, s |-> <<>>]
T(s) == [fatal |-> FALSE, s |-> s]
LastOf(s) == s[Len(s)]

Fits(s) == IF Len(s) < JSDRV_TOPIC_LENGTH_MAX THEN T(s) ELSE Fatal

Truncate(t, n) == IF n < Len(t) THEN SubSeq(t, 1, n) ELSE t

Separator(t) == IF t # <<>> /\ LastOf(t) # Slash THEN <<Slash>> ELSE <<>>

Append_(t, sub) == Fits(t \o Separator(t) \o sub)

\* [n: the characters removed, s]
Remove(t) ==
    LET u == IF t # <<>> /\ LastOf(t) = Slash THEN SubSeq(t, 1, Len(t) - 1) ELSE t
        k == Max({0} \cup {i \in DOMAIN u : u[i] = Slash})
        s == IF k = 0 THEN <<>> ELSE SubSeq(u, 1, k - 1) IN
    [n |-> Len(t) - Len(s), s |-> s]

Set(s) == Fits(s)

SuffixAdd(t, c) == IF Len(t) < JSDRV_TOPIC_LENGTH_MAX - 1 /\ c \in Suffixes THEN T(Append(t, c)) ELSE Fatal

SuffixRemove(t) ==
    IF t # <<>> /\ LastOf(t) \in Suffixes THEN [c |-> LastOf(t), s |-> SubSeq(t, 1, Len(t) - 1)] ELSE [c |-> "none", s |-> t]

------------------------------------------------------------------------------
\* What is appended can be taken back: truncate to the length before, or remove when
\* the part is one level; a suffix likewise.  No topic is longer than its array, levels
\* are never empty, and what does not fit ends the program rather than being cut.
TopicExact(t, sub) ==
    LET a == Append_(t, sub) IN
    /\ ~a.fatal => /\ Len(a.s) < JSDRV_TOPIC_LENGTH_MAX
                   /\ Truncate(a.s, Len(t)) = t
                   /\ sub # <<>> /\ Slash \notin {sub[k] : k \in DOMAIN sub} =>
                        Remove(a.s).s = (IF t # <<>> /\ LastOf(t) = Slash THEN SubSeq(t, 1, Len(t) - 1) ELSE t)
                   /\ (\A k \in 1..(Len(t) - 1) : <<t[k], t[k + 1]>> # <<Slash, Slash>>) /\ (sub = <<>> \/ (sub[1] # Slash /\ \A k \in 1..(Len(sub) - 1) : <<sub[k], sub[k + 1]>> # <<Slash, Slash>>)) =>
                        \A k \in 1..(Len(a.s) - 1) : <<a.s[k], a.s[k + 1]>> # <<Slash, Slash>>
    /\ a.fatal => Len(t) + Len(sub) + 1 >= JSDRV_TOPIC_LENGTH_MAX
    /\ \A c \in Suffixes : LET x == SuffixAdd(t, c) IN
           ~x.fatal => SuffixRemove(x.s) = [c |-> c, s |-> t] /\ Len(x.s) < JSDRV_TOPIC_LENGTH_MAX
==============================================================================
