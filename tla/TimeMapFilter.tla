---------------------------- MODULE TimeMapFilter ----------------------------
(* The time map filter of src/time_map_filter.c, which the JS110 uses: a ring of  *)
(* pairs of a counter and the UTC at which it was seen.  A pair is never seen      *)
(* early, only late, so that the earliest estimate is the best one.                *)
EXTENDS Integers, Sequences, FiniteSetsExt

CONSTANTS
    Points,     \* points_max
    Interval,   \* the least UTC between two points
    Rate        \* UTC units of a count: JSDRV_COUNTER_TO_TIME

\* jsdrv_tmf_new, jsdrv_tmf_clear
Cleared ==
    [points |-> [k \in 0..(Points - 1) |-> [counter |-> 0, utc |-> 0]], valid |-> 0, head |-> 0, prev |-> 0,
     map |-> [counter |-> 0, utc |-> 0]]

Tail_(head, valid) == LET t == Points + head - valid IN IF t >= Points THEN t - Points ELSE t

\* The places from the tail on until the head is met
Window(tail, head) == {k \in 0..(Points - 1) : IF tail <= head THEN tail <= k /\ k < head ELSE k >= tail \/ k < head}

\* jsdrv_tmf_add
Add(f, counter, utc) ==
    LET points == [f.points EXCEPT ![f.head] = [counter |-> counter, utc |-> utc]]
        head == IF f.head + 1 >= Points THEN 0 ELSE f.head + 1
        valid == IF f.valid < Points THEN f.valid + 1 ELSE f.valid
        tail == Tail_(head, valid)
        est(k) == points[k].utc - (points[k].counter - points[tail].counter) * Rate IN
    IF utc - f.prev < Interval THEN f
    ELSE [points |-> points, valid |-> valid, head |-> head, prev |-> utc,
          map |-> [counter |-> points[tail].counter, utc |-> Min({points[tail].utc} \cup {est(k) : k \in Window(tail, head)})]]

------------------------------------------------------------------------------
\* s has the pairs in their order.
Filter(s) ==
    LET f[k \in 0..Len(s)] == IF k = 0 THEN Cleared ELSE LET g == f[k - 1] IN Add(g, s[k].counter, s[k].utc) IN f[Len(s)]

\* The pairs that were taken
Taken(s) ==
    LET p[k \in 0..Len(s)] == IF k = 0 THEN <<>>
            ELSE LET q == p[k - 1] IN
                 IF s[k].utc - (IF q = <<>> THEN 0 ELSE q[Len(q)].utc) < Interval THEN q ELSE Append(q, s[k]) IN p[Len(s)]

Best(q, c) == Min({q[k].utc - (q[k].counter - c) * Rate : k \in DOMAIN q})

\* While the ring is not full the map is the earliest estimate of all pairs, none left
\* out; when it is full, its offset is the oldest pair, which it never passes.
FilterBest(s) ==
    LET q == Taken(s)  n == Len(q)  f == Filter(s) IN
    /\ 0 < n /\ n < Points => f.map.counter = q[1].counter /\ f.map.utc = Best(q, q[1].counter)
    /\ n >= Points => LET w == SubSeq(q, n - Points + 1, n) IN
                      f.map.counter = w[1].counter /\ Best(w, w[1].counter) <= f.map.utc /\ f.map.utc <= w[1].utc

\* "points: The number of points to save for the filtering": all of them count.
WindowCounts(s) ==
    LET q == Taken(s)  n == Len(q)  f == Filter(s) IN
    n >= Points => LET w == SubSeq(q, n - Points + 1, n) IN f.map.utc = Best(w, w[1].counter)
==============================================================================
