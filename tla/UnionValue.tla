------------------------------ MODULE UnionValue ------------------------------
(* The values of src/union.c: comparison, conversion, copy and print.  The bytes *)
(* of a value are one word, read through its type; Bits gives the types widths    *)
(* that keep their order.  Doubles are in halves, so that there are fractions;    *)
(* a float is a double here.  NaN is left out: its conversion is undefined.        *)
EXTENDS Integers, Sequences

CONSTANT Bits   \* the widths of the integer types

Unsigned == {"u8", "u16", "u32", "u64"}
Integer == Unsigned \cup {"i8", "i16", "i32", "i64"}
Float == {"f32", "f64"}
Numeric == Integer \cup Float
Pointer == {"str", "json", "bin", "stdmsg", "frame"}

Width(t) == Bits[CASE t \in {"u8", "i8"} -> "8" [] t \in {"u16", "i16"} -> "16" [] t \in {"u32", "i32"} -> "32" [] OTHER -> "64"]
R == 2^Bits["64"]
Lowest(t) == IF t \in Unsigned THEN 0 ELSE -(2^(Width(t) - 1))
Highest(t) == IF t \in Unsigned THEN 2^Width(t) - 1 ELSE 2^(Width(t) - 1) - 1

\* A value: its type, its bytes as a word, and the number of a double, in halves
V(type, raw, f) == [type |-> type, raw |-> raw, f |-> f]

\* The field of type t in the bytes
Field(t, raw) ==
    LET m == 2^Width(t)  w == raw % m IN IF t \notin Unsigned /\ w >= m \div 2 THEN w - m ELSE w

Values == {V(t, raw, 0) : t \in Integer, raw \in 0..(R - 1)} \cup {V(t, R - 1, f) : t \in Float, f \in (-2 * R)..(2 * R)}

\* Twice the number that a value stands for
Num(x) == IF x.type \in Float THEN x.f ELSE 2 * Field(x.type, x.raw)

------------------------------------------------------------------------------
\* jsdrv_union_eq, of numbers
Eq(x, y) == x.type = y.type /\ (IF x.type \in Float THEN x.f = y.f ELSE Field(x.type, x.raw) = Field(y.type, y.raw))

\* jsdrv_union_widen
Widen(x) ==
    IF x.type \in Float THEN [x EXCEPT !.type = "f64"]
    ELSE IF x.type \in Unsigned THEN V("u64", Field(x.type, x.raw), 0)
    ELSE V("i64", Field(x.type, x.raw) % R, 0)

\* jsdrv_union_equiv
Equiv(a, b) ==
    LET x == Widen(a)  y == Widen(b) IN
    \/ Eq(x, y)
    \/ {x.type, y.type} = {"u64", "i64"} /\ x.raw = y.raw /\ Field("i64", x.raw) >= 0

\* The ranges of AS_F64
InRange(t, f) ==
    /\ 2 * Lowest(t) <= f
    /\ IF t \in {"u64", "i64"} THEN f < 2 * (Highest(t) + 1) ELSE f <= 2 * Highest(t)

\* The conversion of a double in halves: towards zero, into the low bytes
Truncate(f) == IF f < 0 THEN -((-f) \div 2) ELSE f \div 2
Store(t, raw, v) == LET m == 2^Width(t) IN (raw - (raw % m)) + (v % m)

\* jsdrv_union_as_type: [rc, x]; what cannot be converted is widened all the same.
AsType(v, type) ==
    LET x == Widen(v)
        bad == [rc |-> 1, x |-> x]
        ok(y) == [rc |-> 0, x |-> y] IN
    IF x.type = type THEN ok(x)
    ELSE IF x.type \notin {"u64", "i64", "f64"} \/ type \notin Numeric THEN bad
    ELSE IF x.type = "f64" THEN
         CASE type = "f32" -> ok([x EXCEPT !.type = type])
           [] type \in Integer /\ InRange(type, x.f) -> ok(V(type, Store(type, x.raw, Truncate(x.f)), 0))
           [] OTHER -> bad
    ELSE LET n == Field(x.type, x.raw) IN
         CASE type \in Float -> ok(V(type, R - 1, 2 * n))
           [] type \in Integer /\ Lowest(type) <= n /\ n <= Highest(type) -> ok(V(type, x.raw, 0))
           [] OTHER -> bad

\* jsdrv_union_to_bool: "word" is one of the words of jsdrv_cstr_to_bool.
ToBool(x) ==
    CASE x.type = "null" -> [rc |-> 0, v |-> FALSE]
      [] x.type \in {"str", "json"} -> IF x.raw \in {"true", "false"} THEN [rc |-> 0, v |-> x.raw = "true"] ELSE [rc |-> 1, v |-> FALSE]
      [] x.type \in {"bin", "stdmsg", "frame"} -> [rc |-> 1, v |-> FALSE]
      [] OTHER -> [rc |-> 0, v |-> Num(x) # 0]

\* jsdrv_union_copy: a pointer is a place, mem what is there; the copy is in "buffer".
Copy(src, mem, size) ==
    LET sz == IF src.size = 0 /\ src.type \in {"str", "json"} /\ src.at # "none" THEN Len(mem[src.at]) ELSE src.size
        dst == [src EXCEPT !.heap = FALSE] IN
    IF src.type \notin Pointer THEN [rc |-> 0, dst |-> dst, mem |-> mem]
    ELSE IF sz = 0 \/ src.at = "none" THEN [rc |-> 0, dst |-> [dst EXCEPT !.at = "none", !.size = 0], mem |-> mem]
    ELSE IF size < sz THEN [rc |-> 1, dst |-> dst, mem |-> mem]
    ELSE [rc |-> 0, dst |-> [dst EXCEPT !.at = "buffer", !.size = sz],
          mem |-> [mem EXCEPT !["buffer"] = SubSeq(mem[src.at], 1, sz)]]

\* f64_to_str of n / d > 0 with p digits: the digits and the exponent
F64ToStr(n, d, p) ==
    LET e == CHOOSE e \in (-4)..4 : IF e >= 0 THEN n >= d * 10^e /\ n < d * 10^(e + 1) ELSE n * 10^(-e) >= d /\ n * 10^(-e) < 10 * d
        v == IF e >= 0 THEN <<n, d * 10^e>> ELSE <<n * 10^(-e), d>>
        digits == (2 * v[1] * 10^(p - 1) + v[2]) \div (2 * v[2]) IN
    IF digits >= 10^p THEN [m |-> digits \div 10, e |-> e + 1] ELSE [m |-> digits, e |-> e]

------------------------------------------------------------------------------
\* A conversion succeeds exactly for the numbers that the type has, keeps the number
\* (a double loses its fraction), and changes no number when it fails: a value that
\* came as any type is accepted as every type that can hold it.
ConvertExact(x) ==
    \A t \in Numeric \cup {"str"} :
        LET r == AsType(x, t)
            fits == t \in Float \/ (t \in Integer /\ 2 * Lowest(t) <= Num(x)
                                    /\ (IF t \in {"u64", "i64"} THEN Num(x) < 2 * Highest(t) + 2 ELSE Num(x) <= 2 * Highest(t))) IN
        /\ r.rc = 0 <=> fits
        /\ r.rc = 0 => r.x.type = t /\ Num(r.x) = (IF t \in Integer THEN 2 * Truncate(Num(x)) ELSE Num(x))
        /\ r.rc # 0 => Num(r.x) = Num(x)

\* Two integers are equivalent when they are the same number, whatever their types and
\* whatever is in the bytes that their types do not use.
EquivExact(x, y) ==
    /\ x.type \in Integer /\ y.type \in Integer => (Equiv(x, y) <=> Num(x) = Num(y))
    /\ Equiv(x, y) => Num(x) = Num(y) /\ Equiv(y, x) /\ ToBool(x) = ToBool(y)

\* A copy is the value itself, and holds after the memory of the source is gone.
CopyExact(src, mem, size) ==
    LET r == Copy(src, mem, size) IN
    r.rc = 0 => /\ ~r.dst.heap /\ r.dst.at \in {"none", "buffer"} \cup (IF src.type \in Pointer THEN {} ELSE {src.at})
                /\ r.dst.at = "buffer" => r.mem["buffer"] = SubSeq(mem[src.at], 1, r.dst.size) /\ r.dst.size <= size

\* The printed number is the nearest with its digits, in the form d.ddd.
PrintExact(n, d, p) ==
    LET r == F64ToStr(n, d, p) IN
    /\ 10^(p - 1) <= r.m /\ r.m < 10^p
    /\ LET k == r.e - (p - 1)
           a == IF k >= 0 THEN r.m * 10^k * d ELSE r.m * d
           b == IF k >= 0 THEN n ELSE n * 10^(-k)
           u == IF k >= 0 THEN 10^k * d ELSE d IN
       2 * (a - b) <= u /\ 2 * (b - a) <= u
==============================================================================
