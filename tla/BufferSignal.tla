---------------------------- MODULE BufferSignal -----------------------------
(***************************************************************************)
(* buffer_signal.c: the samples of one signal in a ring, with reductions   *)
(* of r0, r0*rN, r0*rN*rN... samples beside it.  A sample is represented   *)
(* by its sample id, so that an operation shows which samples it returns,  *)
(* and a reduction by the sequence of the samples that it summarizes; a    *)
(* sample that was never received is NaN.                                  *)
(***************************************************************************)
EXTENDS Integers, Sequences, SequencesExt

CONSTANTS N,            \* samples in the ring, a multiple of r0 * rN
          r0, rN,       \* reduction of the first level, and of the others
          Lengths,      \* element counts of the blocks that arrive
          Gaps,         \* how many samples may be missing before a block
          MaxId,        \* largest sample id (bound)
          MaxGaps,      \* how often a block may not follow the last one (bound)
          LengthMax,    \* samples that fit into a response
          SummaryMax,   \* entries that fit into a response (SUMMARY_LENGTH_MAX)
          Period        \* samples from one time map to the next

VARIABLES b,      \* bufsig_s
          got,    \* the samples that were received, of those in the ring
          gaps    \* number of blocks that did not follow the last one

vars == <<b, got, gaps>>

NaN == -1       \* a sample that was skipped, or the summary of none
Unwritten == -2

T == INSTANCE Tmap WITH
        EntrySet <- [t : Int, c : Int], SampleIds <- 0..MaxId, InitialSize <- 2, MaxAlloc <- 2 * N,
        OlderTimes <- FALSE, ExactExpire <- TRUE, m <- b.tmap, need <- b.id - b.size, told <- {}

------------------------------------------------------------------------------
(* The levels                                                               *)

\* samples_per_entry and k of jsdrv_bufsig_alloc
PerEntry(l) == r0 * rN^(l - 1)
K(l) == N \div PerEntry(l)

Levels == {l \in 1..N : K(l) > 1}

\* summary_level0_get_by_idx: the samples at incr indices from idx on
LevelZero(ring, idx, incr) ==
    LET all == [i \in 1..incr |-> ring[(idx + i - 1) % N]]
        some == SelectSeq(all, LAMBDA v : v # NaN)
    IN IF some = <<>> THEN <<NaN>> ELSE some

\* Faulty: an entry that an earlier block began is not counted in full.
TouchedWhole(l, start, length) ==
    LET first == start \div PerEntry(l)
    IN {(first + i) % K(l) : i \in 0..(length \div PerEntry(l))-1}

\* The entries that are complete with the samples from start on, a partial
\* one before it included
Touched(l, start, length) ==
    LET first == start \div PerEntry(l)
        n == (length + start - first * PerEntry(l)) \div PerEntry(l)
    IN {(first + i) % K(l) : i \in 0..n-1}

\* summarize, summarizeN
Summarize(s, start, length) ==
    LET new[l \in Levels] ==
          [e \in 0..K(l)-1 |->
             IF e \notin Touched(l, start, length) THEN s.lvl[l][e]
             ELSE IF l = 1 THEN LevelZero(s.ring, e * r0, r0)
             ELSE FlattenSeq([i \in 1..rN |-> new[l-1][e * rN + i - 1]])]
    IN [s EXCEPT !.lvl = new]

------------------------------------------------------------------------------
(* jsdrv_bufsig_recv_data                                                   *)

\* clear
ClearTo(s, id) ==
    [s EXCEPT !.head = 0, !.size = 0, !.id = id, !.tmap = [@ EXCEPT !.head = 0, !.tail = 0]]

Wrap(i) == i % N

Grow(size, k) == IF size + k > N THEN N ELSE size + k

\* Skipped samples are NaN.  The summary starts at the old head, which is N when
\* the ring is just full: JSDRV_ASSERT(index < self->N) then fails, and ends the
\* process.
Skip(s, k) ==
    LET filled == {Wrap(s.head + i) : i \in 0..k-1} IN
    Summarize([s EXCEPT !.ring = [i \in 0..N-1 |-> IF i \in filled THEN NaN ELSE s.ring[i]],
                        !.size = Grow(@, k), !.head = Wrap(@ + k),
                        !.ok = @ /\ (s.head < N \/ k < r0)],
              s.head, k)

\* The loop over the block, which splits it at the end of the ring
RECURSIVE Store(_, _, _)
Store(s, id, length) ==
    IF length = 0 THEN s
    ELSE LET over == s.head + length > N
             k == IF over THEN N - s.head ELSE length
         IN Store(Summarize([s EXCEPT
                      !.ring = [i \in 0..N-1 |-> IF i \in s.head..s.head+k-1
                                                 THEN id + i - s.head ELSE s.ring[i]],
                      !.size = Grow(@, k), !.head = IF over THEN 0 ELSE s.head + length,
                      !.id = @ + k],
                      s.head, k),
                  id + k, length - k)

\* The time map of the device at a sample
TimeMapAt(id) == LET c == Period * (id \div Period) IN [c |-> c, t |-> 3 * c]

\* The block is stored behind what is there.
AppendBlock(s, id, length) ==
    LET r == Store([s EXCEPT !.id = id, !.tmap = T!TmapAdd(@, TimeMapAt(id))], id, length)
    IN [r EXCEPT !.tmap = T!TmapExpire(@, r.id - r.size)]

\* A block that lies before the expected sample id, but not far, restarts the
\* buffer and is dropped, as is one that overlaps.
Recv(s, id, length) ==
    IF s.id = 0 THEN AppendBlock(ClearTo(s, id), id, length)
    ELSE IF id + length - 1 < s.id THEN IF s.id - (id + length - 1) < N THEN ClearTo(s, id) ELSE s
    ELSE IF id < s.id THEN s
    ELSE IF id = s.id THEN AppendBlock(s, id, length)
    ELSE IF id - s.id > N THEN AppendBlock(ClearTo(s, id), id, length)
    ELSE AppendBlock(Skip(s, id - s.id), id, length)

------------------------------------------------------------------------------
(* jsdrv_bufsig_process_request                                             *)

Tail0(s) == s.id - s.size       \* sample_id_tail
LevelTail(s) == IF s.size # N THEN 0 ELSE s.head
NoSamples == [type |-> "samples", start |-> 0, end |-> 0, length |-> 0, data |-> <<>>]

\* samples_get.  A request past the last sample is shortened, and the length in
\* the response is not.
SamplesGet(s, start, end, length) ==
    LET early == IF start < Tail0(s) THEN Tail0(s) - start ELSE 0
        from == start + early
        left == length - early
        late == from + left - 1 >= s.id
        n == IF late THEN s.id - from ELSE left
        long == n > LengthMax
    IN IF s.size = 0 \/ (early > 0 /\ early >= length) \/ from >= s.id THEN NoSamples
       ELSE [type |-> "samples", start |-> from,
             end |-> IF long THEN from + LengthMax - 1 ELSE IF late THEN s.id - 1 ELSE end,
             length |-> IF long THEN LengthMax ELSE left,
             data |-> [i \in 1..(IF long THEN LengthMax ELSE n) |->
                         s.ring[Wrap(from - Tail0(s) + LevelTail(s) + i - 1)]]]

\* summary_level0_get: clamped to the samples in the ring
LevelZeroGet(s, id, incr) ==
    LET from == IF id < Tail0(s) THEN Tail0(s) ELSE id
        to == IF id + incr > s.id THEN s.id ELSE id + incr
    IN IF incr = 0 \/ to <= from THEN <<NaN>>
       ELSE LevelZero(s.ring, Wrap(LevelTail(s) + from - Tail0(s)), to - from)

\* The reduction whose entries are not longer than an entry of the response
Target(incr) == LET fit == {l \in Levels : PerEntry(l) <= incr} IN IF fit = {} THEN 0 ELSE Max(fit)

Step(l) == IF l = 0 THEN 1 ELSE PerEntry(l)

\* The climb of the first entry: w is where it stands, with the samples that
\* it has (acc), the index and level of what comes next and what remains.
RECURSIVE Climb(_, _, _)
Climb(s, w, target) ==
    IF w.level > 0 /\ w.level >= target THEN w
    ELSE IF w.idx % Step(w.level + 1) = 0 THEN Climb(s, [w EXCEPT !.level = @ + 1], target)
    ELSE IF w.rem < Step(w.level) THEN w
    ELSE Climb(s, [w EXCEPT !.acc = @ \o s.lvl[w.level][w.idx \div Step(w.level)],
                            !.rem = @ - Step(w.level), !.idx = Wrap(@ + Step(w.level))], target)

\* The samples before the first entry of level 1, then the climb
Align(s, w, from, target) ==
    LET up == ((w.idx + r0 - 1) \div r0) * r0
        sz == IF w.rem < up - w.idx THEN w.rem ELSE up - w.idx
    IN Climb(s, IF up = w.idx THEN w
                ELSE [w EXCEPT !.acc = IF sz = 0 THEN <<>> ELSE LevelZeroGet(s, from, sz),
                               !.rem = @ - sz, !.idx = Wrap(up)], target)

\* Whole entries of the level; e is the index in the level
RECURSIVE Whole(_, _)
Whole(s, w) ==
    IF w.rem < Step(w.level) THEN w
    ELSE Whole(s, [w EXCEPT !.acc = @ \o s.lvl[w.level][w.e], !.rem = @ - Step(w.level),
                            !.e = (@ + 1) % K(w.level)])

\* The exact end of the last entry: down the levels
RECURSIVE Descend(_, _, _)
Descend(s, w, to) ==
    IF w.rem = 0 THEN w.acc
    ELSE IF w.level = 0 THEN w.acc \o LevelZeroGet(s, to - w.rem, w.rem)
    ELSE IF w.rem < Step(w.level)
         THEN Descend(s, [w EXCEPT !.e = @ * (IF w.level = 1 THEN r0 ELSE rN), !.level = @ - 1], to)
    ELSE Descend(s, [w EXCEPT !.acc = @ \o s.lvl[w.level][w.e], !.rem = @ - Step(w.level),
                              !.e = (@ + 1) % K(w.level)], to)

\* The entries from the i-th on.  An entry ends in the middle of one of its
\* level, which counts for both sides in part.
RECURSIVE EntriesFrom(_, _, _, _, _)
EntriesFrom(s, start, incr, n, w) ==
    IF w.i = n THEN <<>>
    ELSE LET target == Target(incr)
             from == start + incr * w.i
             late == IF from + incr > s.id THEN from + incr - s.id ELSE 0
             to == from + incr - late
             rem == IF late > w.rem THEN 0 ELSE w.rem - late
             at == [w EXCEPT !.rem = rem, !.idx = Wrap(s.head + N - (s.id - from))]
             up == IF w.first THEN Align(s, at, from, target) ELSE at
             x == Whole(s, [up EXCEPT !.e = up.idx \div Step(up.level)])
             shared == s.lvl[x.level][x.e]
         IN IF to <= Tail0(s) \/ from >= s.id
            THEN <<<<NaN>>>> \o EntriesFrom(s, start, incr, n, [w EXCEPT !.i = @ + 1, !.rem = rem])
            ELSE IF target = 0
            THEN <<LevelZeroGet(s, from, incr)>>
                 \o EntriesFrom(s, start, incr, n, [w EXCEPT !.i = @ + 1, !.rem = rem])
            ELSE IF w.i + 1 = n THEN <<Descend(s, x, to)>>
            ELSE <<x.acc \o (IF x.rem = 0 THEN <<>> ELSE shared)>>
                 \o EntriesFrom(s, start, incr, n,
                      [x EXCEPT !.i = @ + 1, !.first = FALSE, !.acc = shared,
                                !.rem = incr - (Step(x.level) - x.rem)])

\* summary_get
SummaryGet(s, start, end, length) ==
    LET incr == (end + 1 - start) \div length
        n == (end + 1 - start) \div incr
    IN IF s.size = 0 \/ n > SummaryMax
       THEN [type |-> "summary", start |-> 0, end |-> 0, length |-> 0, data |-> <<>>]
       ELSE [type |-> "summary", start |-> start, end |-> start + incr * n - 1, length |-> n,
             data |-> EntriesFrom(s, start, incr, n,
                        [i |-> 0, first |-> TRUE, acc |-> <<>>, rem |-> incr,
                         idx |-> 0, e |-> 0, level |-> 0])]

\* jsdrv_bufsig_process_request with sample ids; 0 is an end or a length that
\* is not given
Request(s, start, end, length) ==
    IF end > 0 /\ end < start THEN [NoSamples EXCEPT !.type = "invalid"]
    ELSE IF length > 0 /\ end > 0
    THEN IF 2 * length > end - start + 1 THEN SamplesGet(s, start, end, end - start + 1)
         ELSE SummaryGet(s, start, end, length)
    ELSE IF length > 0 THEN SamplesGet(s, start, start + length - 1, length)
    ELSE SamplesGet(s, start, end, end - start + 1)

------------------------------------------------------------------------------
Init ==
    /\ b = [head |-> 0, size |-> 0, id |-> 0, ring |-> [i \in 0..N-1 |-> Unwritten],
            lvl |-> [l \in Levels |-> [e \in 0..K(l)-1 |-> <<Unwritten>>]], tmap |-> T!TmapAlloc(2),
            ok |-> TRUE]
    /\ got = {} /\ gaps = 0

Kept(ids) == {i \in ids : i >= b'.id - b'.size /\ i < b'.id}

\* A block of the device: the next one, or one after or before it
RecvData(gap, length) ==
    LET id == b.id + gap IN
    /\ b.ok
    /\ id >= 0 /\ id + length <= MaxId
    /\ gap # 0 => gaps < MaxGaps
    /\ gaps' = IF gap = 0 THEN gaps ELSE gaps + 1
    /\ b' = Recv(b, id, length)
    /\ got' = Kept(got \cup (IF b'.id = id + length THEN id..id+length-1 ELSE {}))

\* jsdrv_bufsig_clear
Clear == b.ok /\ b' = ClearTo(b, 0) /\ got' = {} /\ UNCHANGED gaps

Next == Clear \/ \E gap \in Gaps \cup {0}, length \in Lengths : RecvData(gap, length)

Spec == Init /\ [][Next]_vars

------------------------------------------------------------------------------
Window == Tail0(b)..b.id-1

\* The head, the size and the ring stay within N samples, and what was received
\* is counted only while it is in the window.
TypeOK ==
    /\ b.head \in 0..N /\ b.size \in 0..N /\ b.id \in 0..MaxId
    /\ DOMAIN b.ring = 0..N-1 /\ \A i \in 0..N-1 : b.ring[i] \in {NaN, Unwritten} \cup 0..MaxId
    /\ \A l \in Levels : DOMAIN b.lvl[l] = 0..K(l)-1
    /\ got \subseteq Window /\ b.ok \in BOOLEAN

\* A request for any samples in the buffer is answered with those samples, in
\* order, and NaN for the ones that were skipped: however blocks wrapped,
\* repeated or left gaps.
SamplesExact ==
    \A i, j \in Window : i <= j =>
        Request(b, i, j, 0).data =
            [k \in 1..Min({j - i + 1, LengthMax}) |-> IF i + k - 1 \in got THEN i + k - 1 ELSE NaN]

\* A summary in one entry has every sample of its range exactly once, whatever
\* levels it is put together from.
SummaryExact ==
    \A i, j \in Window : i < j /\ i..j \subseteq got =>
        Request(b, i, j, 1).data = <<[k \in 1..j-i+1 |-> i + k - 1]>>

\* JSDRV_ASSERT(index < self->N) in summary_level0_get_by_idx never fails.
AssertsHold == b.ok

\* "Use info.time_range_samples.length for the number of data elements in this
\* response data."
LengthIsExact ==
    \A i \in Window : \A j \in i..MaxId :
        LET r == Request(b, i, j, 0) IN r.length = Len(r.data)

\* "The average (mean) over the window": entries that are aligned with the
\* reductions have the samples of their range.
AlignedExact ==
    \A i, j \in Window : i..j \subseteq got /\ (b.head + N - (b.id - i)) % r0 = 0 =>
        \A n \in 1..(j - i + 1) \div r0 : (j - i + 1) % (n * r0) = 0 =>
            LET w == (j - i + 1) \div n IN
            Request(b, i, j, n).data = [e \in 1..n |-> [k \in 1..w |-> i + w * (e - 1) + k - 1]]
==============================================================================
