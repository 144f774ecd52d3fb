---------------------------- MODULE SampleBuffer ----------------------------
(* sample_buffer_f32.c: the buffers in which the drivers of the JS220 and of  *)
(* the JS320 multiply current and voltage.  A buffer is its samples and the   *)
(* id after the newest.                                                       *)
EXTENDS Integers, Sequences

CONSTANTS
    Dec,            \* sample_id_decimate: sample ids per sample
    Ring            \* SAMPLE_BUFFER_LENGTH

NaN == -1
Bad == -2

SbufEmpty == [head_id |-> 0, data |-> <<>>]

LastOf(s, n) == IF Len(s) <= n THEN s ELSE SubSeq(s, Len(s) - n + 1, Len(s))

TailId(b) == b.head_id - Len(b.data) * Dec

\* sbuf_f32_add: overlapping samples are left out, missing ones become NaN.
SbufAdd(b, id, vals) ==
    LET dup == IF b.head_id > id THEN (b.head_id - id) \div Dec ELSE 0
        new == SubSeq(vals, dup + 1, Len(vals))
        at == id + dup * Dec
        skips == IF b.head_id < at THEN (at - b.head_id) \div Dec ELSE 0
        fill == IF skips >= Ring - 1 THEN Ring - 1 ELSE skips IN
    IF dup >= Len(vals) /\ b.head_id > id THEN b
    ELSE IF Len(new) >= Ring THEN [head_id |-> at, data |-> LastOf(new, Ring - 1)]
    ELSE [head_id |-> (IF skips > 0 THEN at ELSE b.head_id) + Len(new) * Dec,
          data |-> LastOf((IF skips >= Ring - 1 THEN <<>> ELSE b.data) \o [k \in 1..fill |-> NaN] \o new, Ring - 1)]

\* sbuf_f32_advance
SbufAdvance(b, id) ==
    LET n == (id - TailId(b)) \div Dec IN
    IF TailId(b) >= id THEN b
    ELSE IF n >= Len(b.data) THEN [head_id |-> id, data |-> <<>>]
    ELSE [b EXCEPT !.data = SubSeq(@, n + 1, Len(@))]

MaxOf(a, b) == IF a < b THEN b ELSE a

Product(a, b) == CASE NaN \in {a, b} -> NaN [] a = b -> a [] OTHER -> Bad

\* sbuf_f32_mult
Mult(b) ==
    LET id == MaxOf(b["p"].head_id, MaxOf(TailId(b["i"]), TailId(b["v"])))
        i == SbufAdvance(b["i"], id)
        v == SbufAdvance(b["v"], id)
        n == IF Len(i.data) < Len(v.data) THEN Len(i.data) ELSE Len(v.data) IN
    [b EXCEPT !["p"] = [head_id |-> id + n * Dec, data |-> [k \in 1..n |-> Product(i.data[k], v.data[k])]],
              !["i"] = [i EXCEPT !.data = SubSeq(@, n + 1, Len(@))],
              !["v"] = [v EXCEPT !.data = SubSeq(@, n + 1, Len(@))]]
=============================================================================
