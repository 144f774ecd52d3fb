------------------------------ MODULE Statistics ------------------------------
(* The running statistics of src/statistics.c: count, mean, sum of squared       *)
(* differences, minimum and maximum.  A double is a fraction here, so that what   *)
(* is checked is the algebra and not the rounding.  jsdrv_statistics_combine      *)
(* works on memory, its target may be one of its arguments.  Below them are the   *)
(* 128-bit arithmetic of src/devices/js220/js220_i128.c in its portable form,     *)
(* with words of W bits for the code's 64, and the statistics that js220_stats.c  *)
(* and js320_stats.c compute with it; what the code cuts off before it converts   *)
(* to a double is kept.                                                           *)
EXTENDS Integers, Sequences, Functions

CONSTANTS
    Big,        \* DBL_MAX: more than any sample
    W,          \* bits of a word, even
    HalfLow     \* js220_i128_neg may be given a number whose low word is 2^(W-1)

\* Fractions [n, d] with d > 0, in lowest terms
Gcd[a \in Nat, b \in Nat] == IF b = 0 THEN a ELSE Gcd[b, a % b]
Lowest(n, d) ==
    LET g == Gcd[IF n < 0 THEN -n ELSE n, d] IN
    [n |-> IF n < 0 THEN -((-n) \div g) ELSE n \div g, d |-> d \div g]
F(i) == [n |-> i, d |-> 1]
Plus(a, b) == Lowest(a.n * b.d + b.n * a.d, a.d * b.d)
Minus(a, b) == Lowest(a.n * b.d - b.n * a.d, a.d * b.d)
Times(a, b) == Lowest(a.n * b.n, a.d * b.d)
Over(a, k) == Lowest(a.n, a.d * k)
Square(a) == Times(a, a)

------------------------------------------------------------------------------
Reset == [k |-> 0, mean |-> F(0), s |-> F(0), min |-> Big, max |-> -Big]

\* jsdrv_statistics_compute_f32, jsdrv_statistics_compute_f64: two passes
Compute(x) ==
    IF x = <<>> THEN Reset
    ELSE LET mean == Over(F(FoldFunction(+, 0, x)), Len(x))
             low(a, b) == IF a < b THEN a ELSE b
             high(a, b) == IF a > b THEN a ELSE b IN
         [k |-> Len(x), mean |-> mean,
          s |-> FoldFunction(Plus, F(0), [i \in DOMAIN x |-> Square(Minus(F(x[i]), mean))]),
          min |-> FoldFunction(low, Big, x), max |-> FoldFunction(high, -Big, x)]

\* jsdrv_statistics_add: one more sample
AddSample(a, v) ==
    LET m == Plus(a.mean, Over(Minus(F(v), a.mean), a.k + 1)) IN
    [k |-> a.k + 1, mean |-> m, s |-> Plus(a.s, Times(Minus(F(v), a.mean), Minus(F(v), m))),
     min |-> IF v < a.min THEN v ELSE a.min, max |-> IF v > a.max THEN v ELSE a.max]

\* jsdrv_statistics_var
Var(a) == IF a.k <= 1 THEN F(0) ELSE Over(a.s, a.k - 1)

\* jsdrv_statistics_adjust_k
AdjustK(a, k) == [a EXCEPT !.k = k, !.s = IF a.k > 0 THEN Times(Over(@, a.k), F(k)) ELSE @]

\* The assignments of s, mean and k, in their order
CombineParts(m, t, a, b, mean) ==
    LET d(x) == Times(F(m[x].k), Square(Minus(m[x].mean, mean)))
        m1 == [m EXCEPT ![t].s = Plus(Plus(m[a].s, d(a)), Plus(m[b].s, d(b)))]
        m2 == [m1 EXCEPT ![t].mean = mean] IN
    [m2 EXCEPT ![t].k = m[a].k + m[b].k]

\* jsdrv_statistics_combine: t, a and b name places of the memory m.
Combine(m, t, a, b) ==
    LET kt == m[a].k + m[b].k
        mean == Plus(Over(Times(F(m[a].k), m[a].mean), kt), Times(Minus(F(1), Over(F(m[a].k), kt)), m[b].mean))
        m1 == CombineParts(m, t, a, b, mean)
        m2 == [m1 EXCEPT ![t].min = IF m1[a].min < m1[b].min THEN m1[a].min ELSE m1[b].min] IN
    CASE kt = 0 -> [m EXCEPT ![t] = Reset]
      [] kt > 0 /\ m[a].k = 0 -> [m EXCEPT ![t] = m[b]]
      [] m[a].k > 0 /\ m[b].k = 0 -> [m EXCEPT ![t] = m[a]]
      [] OTHER -> [m2 EXCEPT ![t].max = IF m2[a].max > m2[b].max THEN m2[a].max ELSE m2[b].max]

\* jsdrv_statistics_to_entry and jsdrv_statistics_from_entry; an entry has the
\* variance here, the code its square root.
ToEntry(a) == [avg |-> a.mean, var |-> Var(a), min |-> a.min, max |-> a.max]
FromEntry(e, k) == [k |-> k, mean |-> e.avg, s |-> Times(e.var, F(k)), min |-> e.min, max |-> e.max]

------------------------------------------------------------------------------
\* However the samples z are cut into two parts, and wherever the result goes, one of
\* the parts included, combining the statistics of the parts gives those of all; so
\* does adding the samples one by one.
CombineExact(z) ==
    \A c \in 0..Len(z) :
        LET m == [p \in {"a", "b", "t"} |-> IF p = "a" THEN Compute(SubSeq(z, 1, c)) ELSE Compute(SubSeq(z, c + 1, Len(z)))]
            add[i \in c..Len(z)] == IF i = c THEN m["a"] ELSE AddSample(add[i - 1], z[i]) IN
        /\ \A t \in {"a", "b", "t"} : Combine(m, t, "a", "b")[t] = Compute(z)
        /\ add[Len(z)] = Compute(z)

\* An entry of the same count gives the variance back.
EntryExact(z) == Len(z) > 0 => Var(FromEntry(ToEntry(Compute(z)), Len(z))) = Var(Compute(z))
------------------------------------------------------------------------------
(* 128-bit numbers: a number is the pair of its words.                        *)

R == 2^W
SIGN_BIT == 2^(W - 1)
Words == 0..(R - 1)
I128s == [lo : Words, hi : Words]

\* The numbers that pairs and words stand for
Unsigned(x) == x.hi * R + x.lo
Signed(x) == IF x.hi >= SIGN_BIT THEN Unsigned(x) - R * R ELSE Unsigned(x)
SignedWord(w) == IF w >= SIGN_BIT THEN w - R ELSE w
Pair(v) == [lo |-> v % R, hi |-> (v \div R) % R]

InitI64(w) == [lo |-> w, hi |-> IF w >= SIGN_BIT THEN R - 1 ELSE 0]


Carry(a, lo) == IF lo < a.lo THEN 1 ELSE 0

Add(a, b) ==
    LET lo == (a.lo + b.lo) % R IN [lo |-> lo, hi |-> (a.hi + b.hi + Carry(a, lo)) % R]

Sub(a, b) ==
    [lo |-> (a.lo - b.lo) % R, hi |-> (a.hi - b.hi - (IF a.lo < b.lo THEN 1 ELSE 0)) % R]

\* js220_i128_umul128_, by half words
Umul128(a, b) ==
    LET H == 2^(W \div 2)
        ll == (a % H) * (b % H)  lh == (a % H) * (b \div H)
        hl == (a \div H) * (b % H)  hh == (a \div H) * (b \div H)
        mid == (ll \div H) + (lh % H) + (hl % H) IN
    [lo |-> (ll % H) + ((mid * H) % R), hi |-> (hh + (lh \div H) + (hl \div H) + (mid \div H)) % R]

SquareI64(w) == LET a == IF w >= SIGN_BIT THEN (R - w) % R ELSE w IN Umul128(a, a)

\* The carry out of the low word is seen as a change of its sign bit.
Neg(x) ==
    LET lo == (R - x.lo) % R
        before == (R - 1 - x.lo) >= SIGN_BIT
        after == lo >= SIGN_BIT IN
    [lo |-> lo, hi |-> (R - 1 - x.hi + (IF before # after THEN 1 ELSE 0)) % R]

\* js220_i128_udiv128_: restoring division, one bit of lo in each round
Udiv128(hi, lo, divisor) ==
    LET round[i \in 0..W] ==
            IF i = 0 THEN [rem |-> hi, quot |-> 0]
            ELSE LET p == round[i - 1]
                     rem == ((2 * p.rem) % R) + ((lo \div 2^(W - i)) % 2)
                     sub == p.rem >= SIGN_BIT \/ rem >= divisor IN
                 [rem |-> IF sub THEN (rem - divisor) % R ELSE rem,
                  quot |-> ((2 * p.quot) % R) + (IF sub THEN 1 ELSE 0)] IN
    round[W]

Udiv(x, divisor) ==
    LET hi == x.hi \div divisor
        d == Udiv128(x.hi - hi * divisor, x.lo, divisor) IN
    [q |-> [lo |-> d.quot, hi |-> hi], rem |-> d.rem]

Lshift(x, shift) ==
    CASE shift > 0 -> [lo |-> (x.lo * 2^shift) % R, hi |-> ((x.hi * 2^shift) % R) + (x.lo \div 2^(W - shift))]
      [] shift = 0 -> x
      [] shift < 0 -> [lo |-> (x.lo \div 2^(-shift)) + ((x.hi * 2^(W + shift)) % R),
                       hi |-> (SignedWord(x.hi) \div 2^(-shift)) % R]

Rshift(x, shift) == Lshift(x, -shift)

IsNeg(x) == x.hi >= SIGN_BIT

\* The double of x with q fractional bits: [neg, m, e] is m * 2^e.  Only the high
\* word of the shifted number is converted.
ToF64(x, q) ==
    LET a == IF IsNeg(x) THEN Neg(x) ELSE x
        k == CHOOSE k \in 0..(2 * W - 1) : Unsigned(a) * 2^k >= R * SIGN_BIT /\ Unsigned(a) * 2^k < R * R IN
    IF Unsigned(a) = 0 THEN [neg |-> FALSE, m |-> 0, e |-> 0]
    ELSE [neg |-> IsNeg(x), m |-> (Unsigned(a) * 2^k) \div R, e |-> W - q - k]

ComputeIntegral(x, n) == IF IsNeg(x) THEN Neg(Udiv(Neg(x), n).q) ELSE Udiv(x, n).q

\* js220_i128_compute_std up to the conversion: the variance
Variance(x1, x2, n) ==
    LET d == Udiv(SquareI64(x1), n).q IN
    IF x2.hi < d.hi \/ (x2.hi = d.hi /\ x2.lo < d.lo) THEN Pair(0)
    ELSE Udiv([lo |-> (x2.lo - d.lo) % R, hi |-> (x2.hi - (IF d.lo > x2.lo THEN 1 ELSE 0) - d.hi) % R], n).q

------------------------------------------------------------------------------
(* The statistics of a block: src has the sums over its samples and the       *)
(* integral, as the instrument sends them.                                    *)

Fraction(f) ==
    LET s == IF f.neg THEN -f.m ELSE f.m IN IF f.e >= 0 THEN [num |-> s * 2^f.e, den |-> 1] ELSE [num |-> s, den |-> 2^(-f.e)]

\* js220_stats_convert: the average is x1 / n.
Js220Convert(src) ==
    IF ~src.valid THEN [rc |-> "MESSAGE_INTEGRITY"]
    ELSE [rc |-> "SUCCESS", sum |-> SignedWord(src.x1.lo), n |-> src.n,
          var |-> [num |-> Unsigned(Variance(src.x1.lo, src.x2, src.n)), den |-> 1],
          charge |-> ComputeIntegral(src.integ, src.freq \div 2)]

\* js320_compute_std up to the square root; x2 has 2 * q - cut fractional bits.
Js320Variance(x1, x2, n, q, cut) ==
    LET m == Fraction(ToF64(x1, q))
        s == Fraction(ToF64(x2, 2 * q - cut))
        num == s.num * n * m.den * m.den - m.num * m.num * s.den IN
    IF n < 2 \/ num <= 0 THEN [num |-> 0, den |-> 1] ELSE [num |-> num, den |-> s.den * n * n * m.den * m.den]

\* js320_stats_convert
Js320Convert(src, q, cut) ==
    IF ~src.valid \/ src.decimate = 0 THEN [rc |-> "MESSAGE_INTEGRITY"]
    ELSE IF src.n = 0 THEN [rc |-> "SUCCESS", n |-> 0, charge |-> Pair(0)]
    ELSE [rc |-> "SUCCESS", n |-> src.n, sum |-> Fraction(ToF64(src.x1, q)),
          var |-> Js320Variance(src.x1, src.x2, src.n, q, cut),
          charge |-> ComputeIntegral(src.integ, src.freq \div src.decimate)]

------------------------------------------------------------------------------
Quotient(v, n) == IF v < 0 THEN -((-v) \div n) ELSE v \div n

\* The operations on pairs of words agree with those on the integers, carries,
\* borrows and shifted bits included; division truncates towards zero.
ArithmeticExact(a) ==
    /\ \A b \in I128s : Add(a, b) = Pair(Unsigned(a) + Unsigned(b)) /\ Sub(a, b) = Pair(Unsigned(a) - Unsigned(b))
    /\ (HalfLow \/ a.lo # SIGN_BIT) => Neg(a) = Pair(-Signed(a))
    /\ InitI64(a.lo) = Pair(SignedWord(a.lo)) /\ SquareI64(a.lo) = Pair(SignedWord(a.lo) * SignedWord(a.lo))
    /\ \A n \in Words \ {0} :
         /\ Udiv(a, n) = [q |-> Pair(Unsigned(a) \div n), rem |-> Unsigned(a) % n]
         /\ a.lo # SIGN_BIT /\ Pair(Quotient(Signed(a), n)).lo # SIGN_BIT =>
                ComputeIntegral(a, n) = Pair(Quotient(Signed(a), n))
    /\ \A k \in 0..(W - 1) : Lshift(a, k) = Pair(Signed(a) * 2^k) /\ Rshift(a, k) = Pair(Signed(a) \div 2^k)

\* The double is at most the number and less than one unit of its word below it.
FloatClose(a) ==
    \A q \in 0..W : a.lo # SIGN_BIT =>
        LET f == Fraction(ToF64(a, q))
            v == Signed(a)
            abs(x) == IF x < 0 THEN -x ELSE x IN
        /\ f.num * v >= 0 /\ abs(f.num) * 2^q <= abs(v) * f.den
        /\ abs(v) * f.den - abs(f.num) * 2^q < (IF v = 0 THEN 1 ELSE ((abs(v) \div SIGN_BIT) + 1) * f.den)

\* For the sums of any block of samples s the statistics are those of the samples:
\* the variance is less than one unit off, or than what the instrument cut off.
StatisticsExact(s) ==
    LET sum == FoldFunction(+, 0, s)
        squares == [k \in DOMAIN s |-> s[k] * s[k]]
        n == Len(s)
        exact == n * FoldFunction(+, 0, squares) - sum * sum
        src(cut) == [valid |-> TRUE, x1 |-> Pair(sum), n |-> n, integ |-> Pair(sum), freq |-> 4, decimate |-> 2,
                     x2 |-> Pair(FoldFunction(+, 0, [k \in DOMAIN s |-> squares[k] \div 2^cut]))]
        a == Js220Convert(src(0))
        b == Js320Convert(src(2), 0, 2) IN
    /\ a.sum = sum /\ n * n * (a.var.num - 1) < exact /\ exact < n * n * (a.var.num + 1)
    /\ b.sum.num = sum * b.sum.den
    /\ n > 1 => b.var.num * n * n <= exact * b.var.den /\ exact * b.var.den < (b.var.num + 4 * b.var.den) * n * n
    /\ a.charge = Pair(Quotient(sum, 2)) /\ b.charge = a.charge
==============================================================================
