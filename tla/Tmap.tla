--------------------------------- MODULE Tmap ---------------------------------
(***************************************************************************)
(* tmap.c: a time map as a ring of entries that grows.  The operations are *)
(* operators on the structure; the writer of the map (a signal buffer, see *)
(* buffer_signal.c) calls them, and consumers query copies.                *)
(***************************************************************************)
EXTENDS Integers, Sequences

CONSTANTS EntrySet,     \* time maps that the writer adds: records [t, c]
          SampleIds,    \* sample ids that are asked for
          InitialSize,  \* argument of jsdrv_tmap_alloc, rounded
          MaxAlloc,     \* largest allocation (bound)
          OlderTimes,   \* may an added entry be older than the newest one?
          ExactExpire   \* may a map expire at the sample id of an entry?

VARIABLES m,     \* jsdrv_tmap_s: alloc, head, tail and the allocated entries
          need,  \* the oldest sample id that the writer needs
          told   \* the samples that were given a time, with that time

vars == <<m, need, told>>

Garbage == [t |-> -1, c |-> -1]

\* jsdrv_tmap_alloc
TmapAlloc(size) == [alloc |-> size, head |-> 0, tail |-> 0, entry |-> [i \in 0..size-1 |-> Garbage]]

\* ptr_incr, ptr_decr: the size is a power of 2
PtrIncr(p, size) == (p + 1) % size
PtrDecr(p, size) == (p + size - 1) % size

\* tmap_size
TmapSize(r) ==
    IF r.head > r.alloc \/ r.tail >= r.alloc THEN 0
    ELSE IF r.head >= r.tail THEN r.head - r.tail ELSE r.alloc - r.tail + r.head

\* jsdrv_tmap_get
TmapGet(r, index) == r.entry[(r.tail + index) % r.alloc]

Entries(r) == [i \in 1..TmapSize(r) |-> TmapGet(r, i - 1)]

RECURSIVE RoundUp(_, _)
RoundUp(n, size) == IF size >= n THEN size ELSE RoundUp(n, 2 * size)

\* jsdrv_tmap_copy: the copy is exactly as large as it must be
TmapCopy(r) ==
    LET sz == TmapSize(r)
        fresh == TmapAlloc(IF sz = 0 THEN InitialSize ELSE RoundUp(sz, 1))
    IN [fresh EXCEPT !.head = sz,
                     !.entry = [i \in 0..fresh.alloc-1 |-> IF i < sz THEN TmapGet(r, i) ELSE Garbage]]

\* Faulty: the head stays behind the tail.
TmapGrowUnwrapped(r) ==
    [r EXCEPT !.alloc = 2 * @, !.entry = [i \in 0..2*r.alloc-1 |-> IF i < r.alloc THEN r.entry[i] ELSE Garbage]]

\* The realloc in jsdrv_tmap_add, with the wrapped entries moved behind the others
TmapGrow(r) ==
    LET wraps == r.head < r.tail IN
    [r EXCEPT !.alloc = 2 * @,
              !.head = IF wraps THEN @ + r.alloc ELSE @,
              !.entry = [i \in 0..2*r.alloc-1 |->
                            IF i < r.alloc THEN r.entry[i]
                            ELSE IF wraps /\ i - r.alloc < r.head THEN r.entry[i - r.alloc]
                            ELSE Garbage]]

TmapStore(r, e) == [r EXCEPT !.entry[r.head] = e, !.head = PtrIncr(@, r.alloc)]

\* jsdrv_tmap_add.  The map that grows does not look at the time of the entry.
TmapAdd(r, e) ==
    LET sz == TmapSize(r)
        prev == r.entry[PtrDecr(r.head, r.alloc)]
    IN CASE sz > 0 /\ e = prev -> r
         [] ~(sz > 0 /\ e = prev) /\ sz + 1 >= r.alloc -> TmapStore(TmapGrow(r), e)
         [] sz > 0 /\ e # prev /\ sz + 1 < r.alloc /\ e.t < prev.t -> r
         [] OTHER -> TmapStore(r, e)

\* The reasons to stop in jsdrv_tmap_expire_by_sample_id
KeepsTail(r, tail, s) ==
    LET next == PtrIncr(tail, r.alloc) IN
    \/ next = r.head
    \/ s < r.entry[tail].c
    \/ s > r.entry[tail].c /\ s < r.entry[next].c

\* A search that passes the tail again would go on forever: it stays there.
RECURSIVE ExpireFrom(_, _, _, _)
ExpireFrom(r, tail, s, n) ==
    IF n = 0 \/ KeepsTail(r, tail, s) THEN [r EXCEPT !.tail = tail]
    ELSE ExpireFrom(r, PtrIncr(tail, r.alloc), s, n - 1)

\* jsdrv_tmap_expire_by_sample_id
TmapExpire(r, s) == IF r.head = r.tail THEN r ELSE ExpireFrom(r, r.tail, s, r.alloc)

\* The loop of the two searches, over field f of the entries
RECURSIVE Search(_, _, _, _, _)
Search(r, f, idx, x, n) ==
    LET next == PtrIncr(idx, r.alloc) IN
    IF n = 0 THEN r.entry[PtrDecr(r.head, r.alloc)]
    ELSE IF x < r.entry[idx][f] THEN Search(r, f, PtrDecr(idx, r.alloc), x, n - 1)
    ELSE IF x >= r.entry[next][f] THEN Search(r, f, next, x, n - 1)
    ELSE r.entry[idx]

\* Faulty: the search starts as if the ring began at 0.
FindEntryFlat(r, f, x) ==
    LET start == r.entry[r.tail]
        end == r.entry[PtrDecr(r.head, r.alloc)]
    IN IF x <= start[f] THEN start ELSE IF x >= end[f] THEN end
       ELSE Search(r, f, (TmapSize(r) * (x - start[f])) \div (end[f] - start[f]), x, TmapSize(r))

\* find_entry_by_sample_id (f = "c") and find_entry_by_timestamp (f = "t"):
\* start where evenly spaced entries would have it
FindEntry(r, f, x) ==
    LET start == r.entry[r.tail]
        end == r.entry[PtrDecr(r.head, r.alloc)]
        sz == TmapSize(r)
        k == (sz * (x - start[f])) \div (end[f] - start[f])
    IN IF x <= start[f] THEN start ELSE IF x >= end[f] THEN end
       ELSE Search(r, f, (r.tail + IF k >= sz THEN sz - 1 ELSE k) % r.alloc, x, sz)

\* jsdrv_tmap_sample_id_to_timestamp with entry_to_timestamp
Timestamp(r, s) == LET e == FindEntry(r, "c", s) IN e.t + (s - e.c)

------------------------------------------------------------------------------
Init == m = TmapAlloc(InitialSize) /\ need = 0 /\ told = {}

Newest == m.entry[PtrDecr(m.head, m.alloc)]

\* jsdrv_bufsig_recv_data: time maps come with increasing sample ids
Add(e) ==
    /\ TmapSize(m) > 0 =>
        /\ e.c > Newest.c \/ e = Newest
        /\ e.t >= Newest.t \/ OlderTimes
    /\ m' = TmapAdd(m, e)
    /\ m'.alloc <= MaxAlloc
    /\ UNCHANGED <<need, told>>

Expire(s) ==
    /\ ExactExpire \/ \A i \in 1..TmapSize(m) : Entries(m)[i].c # s
    /\ s >= need /\ need' = s
    /\ m' = TmapExpire(m, s)
    /\ told' = {x \in told : x[1] >= s}

\* jsdrv_tmap_clear
Clear == m' = [m EXCEPT !.head = 0, !.tail = 0] /\ need' = 0 /\ told' = {}

Query(s) ==
    /\ TmapSize(m) > 0
    /\ told' = told \cup {<<s, Timestamp(m, s)>>}
    /\ UNCHANGED <<m, need>>

Copy == m' = TmapCopy(m) /\ UNCHANGED <<need, told>>

Next ==
    \/ \E e \in EntrySet : Add(e)
    \/ \E s \in SampleIds : Expire(s)
    \/ Clear

Spec == Init /\ [][Next]_vars

\* Consumers ask for times, too
QuerySpec == Init /\ [][Next \/ \E s \in SampleIds : Query(s)]_vars

\* The writer goes on with a copy
CopySpec == Init /\ [][Next \/ Copy]_vars

------------------------------------------------------------------------------
TypeOK ==
    /\ \E n \in 0..8 : m.alloc = 2^n
    /\ m.tail \in 0..m.alloc-1 /\ m.head \in 0..m.alloc-1
    /\ DOMAIN m.entry = 0..m.alloc-1
    /\ \A i \in 1..TmapSize(m) : Entries(m)[i] \in EntrySet

\* jsdrv_tmap_add, _expire_by_sample_id and _clear on the ring are the
\* operations of the list of entries that tmap.h describes: entries keep their
\* order when the ring wraps and grows, and expiry does not move the time of a
\* sample that is still needed.
List == INSTANCE TimeMap WITH entries <- Entries(m)
ListSpec == List!Spec

\* The interpolated, bounded searches of the ring (find_entry_by_sample_id,
\* find_entry_by_timestamp) find the entry in charge, and a snapshot gives the
\* same answers as the map that it was copied from.
FindIsInCharge ==
    TmapSize(m) > 0 => \A r \in {m, TmapCopy(m)} :
        /\ \A s \in SampleIds : FindEntry(r, "c", s) = List!InCharge(Entries(m), "c", s)
        /\ \A e \in EntrySet, d \in 0..1 :
             FindEntry(r, "t", e.t + d) = List!InCharge(Entries(m), "t", e.t + d)

\* "Once a time is assigned to a sample, this implementation assures it does
\* not change."
TimesAreFixed == \A x, y \in told : x[1] = y[1] => x[2] = y[2]
==============================================================================
