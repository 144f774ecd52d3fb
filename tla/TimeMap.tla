------------------------------- MODULE TimeMap --------------------------------
(***************************************************************************)
(* What include/jsdrv/tmap.h promises of a time map: a list of entries,    *)
(* oldest first, that maps sample ids to UTC.  Add appends an entry,       *)
(* Expire may drop old ones but leaves the time of every sample that is    *)
(* still needed alone, Clear drops all of them.                            *)
(***************************************************************************)
EXTENDS Integers, Sequences

CONSTANTS EntrySet,   \* records [t, c]: UTC t at sample id c, one unit per sample
          SampleIds

VARIABLES entries,
          need      \* the oldest sample id that must be represented

\* The entry in charge of a sample id (f = "c") or a time (f = "t"): the newest
\* that is not after it, or the oldest.
InCharge(es, f, x) ==
    LET before == {i \in DOMAIN es : es[i][f] <= x} IN
    IF before = {} THEN es[1] ELSE es[CHOOSE i \in before : \A j \in before : j <= i]

Stamp(es, s) == LET e == InCharge(es, "c", s) IN e.t + (s - e.c)

Init == entries = <<>> /\ need = 0

\* An entry that repeats the newest one or is older is ignored.
Add(e) ==
    /\ UNCHANGED need
    /\ entries' = IF entries # <<>> /\ (e = entries[Len(entries)] \/ e.t < entries[Len(entries)].t)
                  THEN entries ELSE Append(entries, e)

\* "The oldest sample_id that this instance needs to represent."
Expire(s) ==
    /\ s >= need /\ need' = s
    /\ \/ entries = <<>> /\ UNCHANGED entries
       \/ /\ \E n \in DOMAIN entries : entries' = SubSeq(entries, n, Len(entries))
          /\ \A x \in SampleIds : x >= s => Stamp(entries', x) = Stamp(entries, x)

Clear == entries' = <<>> /\ need' = 0

Next == Clear \/ (\E e \in EntrySet : Add(e)) \/ (\E s \in SampleIds : Expire(s))

Spec == Init /\ [][Next]_<<entries, need>>
==============================================================================
