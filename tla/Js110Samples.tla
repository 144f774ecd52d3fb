----------------------------- MODULE Js110Samples ----------------------------
(* js110_sample_processor.c: samples go through a ring before they leave it,  *)
(* so that those taken while the instrument switched its current range can be *)
(* replaced by an estimate from the samples before and after.  A sample is    *)
(* its number, and how it was made up.                                        *)
EXTENDS Integers, Sequences, FiniteSets

CONSTANTS
    Size,           \* JS110_SUPPRESS_SAMPLES_MAX
    Window,         \* the matrices: samples to suppress, by type of window, to and from range
    Manual,         \* the values of s/i/range/win_sz
    Pre, Post,      \* the values of s/i/range/pre and post; the largest is the limit
    Calm,           \* the range changes only when the last change is dealt with
    MaxSamples, MaxCmds

Off == 7
Ranges == {0, 1, Off}
PreMax == CHOOSE p \in Pre : \A q \in Pre : q <= p
PostMax == CHOOSE p \in Post : \A q \in Post : q <= p
Modes == {"off", "mean", "interp", "nan"}

VARIABLES
    sp,         \* js110_sp_s
    out,        \* history: the sample that came out last
    win,        \* history: the samples that are to be replaced
    cmds

vars == <<sp, out, win, cmds>>

\* A sample: number, how its current was made, the samples and the step of an estimate
Raw(n, nan) == [n |-> n, kind |-> IF nan THEN "nan" ELSE "raw", from |-> {}, steps |-> 0]
Missing == Raw(0, TRUE)

ptr_incr(p) == (p + 1) % Size
ptr_sub(a, b) == (a - b) % Size

\* js110_sp_initialize, js110_sp_reset
Init ==
    /\ sp = [cell |-> [p \in 0..(Size - 1) |-> Missing], head |-> 0, start |-> 0, left |-> 0, last |-> Off, count |-> 0,
             mode |-> "interp", type |-> "n", size |-> 2, pre |-> 1, post |-> 1]
    /\ out = Missing /\ win = {} /\ cmds = 0

------------------------------------------------------------------------------
(* The parameters                                                           *)

Set(s) == cmds < MaxCmds /\ cmds' = cmds + 1 /\ sp' = s /\ UNCHANGED <<out, win>>
Between == Calm => sp.left = 0

\* on_i_range_mode, on_i_range_pre, on_i_range_win, on_i_range_win_sz, on_i_range_post:
\* a value that is out of range is ignored.
RangeMode(m) == m \in Modes /\ Between /\ Set([sp EXCEPT !.mode = m])
RangePre(v) == v <= PreMax /\ Between /\ Set([sp EXCEPT !.pre = v])
RangeWin(t) == t \in DOMAIN Window \cup {"manual"} /\ Between /\ Set([sp EXCEPT !.type = t])
RangeWinSz(v) == Between /\ Set([sp EXCEPT !.size = v])
RangePost(v) == v <= PostMax /\ Between /\ Set([sp EXCEPT !.post = v])

------------------------------------------------------------------------------
(* js110_sp_process                                                         *)

Suppress(s, r) == IF s.type = "manual" THEN s.size ELSE Window[s.type][r][s.last]

\* Where the samples to replace begin: a change within a window extends it.
WindowStart(s) == IF s.left = 0 THEN s.head ELSE s.start

Switch(s, r) ==
    IF s.last # r /\ Suppress(s, r) > 0
    THEN [s EXCEPT !.start = WindowStart(s), !.left = Suppress(s, r) + s.post] ELSE s

Put(s, x) ==
    LET y == IF s.mode = "nan" /\ s.left > s.post THEN [x EXCEPT !.kind = "nan"] ELSE x IN
    [s EXCEPT !.cell[s.head] = y, !.head = ptr_incr(s.head)]

\* The cells before the window and after it
Before(s) == {ptr_sub(s.start, k) : k \in 1..s.pre}
After(s) == {ptr_sub(s.head, k) : k \in 1..s.post}
PtrEnd(s) == ptr_sub(s.head, s.post)

\* The number of steps of the interpolation is a uint8_t.
Steps(s) == (PtrEnd(s) - ptr_sub(s.start, s.pre)) % 256

\* An estimate from the samples of the cells ps is a number if all of them are; an
\* average of no samples is none.
Estimate(s, x, ps, none, steps) ==
    [x EXCEPT !.kind = IF none \/ \E p \in ps : s.cell[p].kind = "nan" THEN "nan" ELSE "est",
              !.from = {s.cell[p].n : p \in ps}, !.steps = steps]

InWindow(s, p) == ptr_sub(p, s.start) < ptr_sub(PtrEnd(s), s.start)

\* The range before the sample of this step decides whether there is something before.
Replaced(s) ==
    LET pre == IF s.last < Off THEN Before(s) ELSE {}
        ps == After(s) \cup pre
        none == IF s.mode = "mean" THEN ps = {} ELSE s.post = 0 \/ (s.last < Off /\ s.pre = 0)
        steps == IF s.mode = "mean" THEN 0 ELSE Steps(s) IN
    IF s.mode \notin {"mean", "interp"} THEN s
    ELSE [s EXCEPT !.cell = [p \in DOMAIN @ |-> IF InWindow(s, p) THEN Estimate(s, @[p], ps, none, steps) ELSE @[p]]]

Finish(s) ==
    LET t == [s EXCEPT !.left = @ - 1] IN IF s.left = 0 THEN s ELSE IF t.left = 0 THEN Replaced(t) ELSE t

\* A sample that is missing has all its bits set, those of the range included.
Process(r, missing) ==
    LET n == sp.count + 1
        s == Finish(Put(Switch([sp EXCEPT !.count = n], r), Raw(n, missing))) IN
    /\ n <= MaxSamples /\ (missing => r = Off)
    /\ Calm => sp.left = 0 \/ r = sp.last
    /\ sp' = [s EXCEPT !.last = r]
    /\ out' = s.cell[s.head]
    /\ win' = {m \in win : m > n - Size} \cup (IF sp.mode # "off" /\ Switch(sp, r).left > sp.post THEN {n} ELSE {})
    /\ UNCHANGED cmds

Next ==
    \/ \E r \in Ranges, missing \in BOOLEAN : Process(r, missing)
    \/ (\E m \in Modes : RangeMode(m)) \/ (\E v \in Pre : RangePre(v)) \/ (\E t \in {"manual", "m", "n"} : RangeWin(t))
    \/ (\E v \in Manual : RangeWinSz(v)) \/ (\E v \in Post : RangePost(v))

Spec == Init /\ [][Next]_vars

------------------------------------------------------------------------------
\* The samples leave the ring in order, Size - 1 later, and exactly those that were taken
\* while the range changed are replaced, before they leave it.
OnlyWindowReplaced ==
    /\ out.n = (IF sp.count < Size THEN 0 ELSE sp.count - Size + 1)
    /\ out.n > 0 /\ out.kind = "raw" => out.n \notin win
    /\ out.kind = "est" => out.n \in win

\* An interpolation takes no more steps than there are samples from the first to the last
\* that it is taken from.
StepsSpan == out.kind = "est" /\ out.steps > 0 => \E a, b \in out.from : out.steps <= b - a

\* A sample that is replaced is a number when the samples after it are: those before it
\* do not count if the instrument was off.
EstimateValid == out.n \in win /\ sp.mode = "interp" /\ sp.post > 0 => out.kind # "nan"
==============================================================================
