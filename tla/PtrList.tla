------------------------------- MODULE PtrList -------------------------------
(* The circular doubly-linked lists of include_private/jsdrv_prv/list.h, which  *)
(* hold the messages, subscribers, transfers and devices of the driver.  Lists  *)
(* and items are nodes of one heap of next and prev pointers.  Every call is    *)
(* one step, written as its assignments in their order; a traversal is one step *)
(* for each item, with what the loop's body does to the list.                   *)
EXTENDS Naturals, Sequences, FiniteSets, FiniteSetsExt

CONSTANTS
    Lists, Items, Null,
    ReplacesList,   \* jsdrv_list_replace may be given a list itself
    AppendsEmpty    \* jsdrv_list_append may be given an empty list

Nodes == Lists \cup Items

VARIABLES
    h,      \* the heap: [next, prev], each a function of the nodes
    call,   \* the last call: [fn, x, y, out], out is what it returned
    it      \* the traversal under way: jsdrv_list_foreach, jsdrv_list_foreach_reverse

vars == <<h, call, it>>

NoIt == [on |-> FALSE, dir |-> "next", list |-> Null, item |-> Null, next |-> Null,
         seen |-> <<>>, start |-> <<>>]

Init ==
    /\ h = [next |-> [n \in Nodes |-> n], prev |-> [n \in Nodes |-> n]]
    /\ call = [fn |-> "none", x |-> Null, y |-> Null, out |-> Null] /\ it = NoIt

SetNext(g, x, y) == [g EXCEPT !.next[x] = y]
SetPrev(g, x, y) == [g EXCEPT !.prev[x] = y]

------------------------------------------------------------------------------
(* The functions of list.h, on a heap                                        *)

\* jsdrv_list_initialize
Initialize(g, x) == SetPrev(SetNext(g, x, x), x, x)

\* jsdrv_list_is_empty
IsEmpty(g, l) == g.next[l] = l

\* jsdrv_list_remove_unsafe_
RemoveUnsafe(g, x) ==
    LET g1 == SetNext(g, g.prev[x], g.next[x]) IN SetPrev(g1, g1.next[x], g1.prev[x])

\* jsdrv_list_add_head
AddHead(g, l, x) ==
    LET g1 == RemoveUnsafe(g, x)
        g2 == SetPrev(SetNext(g1, x, g1.next[l]), x, l) IN
    SetNext(SetPrev(g2, g2.next[x], x), l, x)

\* jsdrv_list_add_tail
AddTail(g, l, x) ==
    LET g1 == RemoveUnsafe(g, x)
        g2 == SetPrev(SetNext(g1, x, l), x, g1.prev[l]) IN
    SetPrev(SetNext(g2, g2.prev[x], x), l, x)

\* jsdrv_list_remove
RemoveItem(g, x) == Initialize(RemoveUnsafe(g, x), x)

\* jsdrv_list_remove_head, of a list that is not empty
RemoveHead(g, l) ==
    LET x == g.next[l]
        g1 == SetPrev(g, g.next[x], l)
        g2 == SetNext(g1, l, g1.next[x]) IN
    Initialize(g2, x)

\* jsdrv_list_remove_tail, of a list that is not empty
RemoveTail(g, l) ==
    LET x == g.prev[l]
        g1 == SetNext(g, g.prev[x], l)
        g2 == SetPrev(g1, l, g1.prev[x]) IN
    Initialize(g2, x)

\* jsdrv_list_replace, of an item that is in a list
Replace(g, r, a) ==
    LET g1 == RemoveItem(g, a)
        g2 == SetPrev(SetNext(g1, a, g1.next[r]), a, g1.prev[r])
        g3 == SetNext(g2, g2.prev[a], a)
        g4 == SetPrev(g3, g3.next[a], a) IN
    Initialize(g4, r)

\* jsdrv_list_insert_before
InsertBefore(g, p, x) ==
    LET g1 == RemoveUnsafe(g, x)
        g2 == SetNext(SetPrev(g1, x, g1.prev[p]), x, p) IN
    SetPrev(SetNext(g2, g2.prev[x], x), p, x)

\* jsdrv_list_insert_after
InsertAfter(g, p, x) ==
    LET g1 == RemoveUnsafe(g, x)
        g2 == SetPrev(SetNext(g1, x, g1.next[p]), x, p)
        g3 == SetNext(g2, p, x) IN
    SetPrev(g3, g3.next[x], x)

\* jsdrv_list_append
AppendList(g, to, l) ==
    LET g1 == SetNext(g, g.prev[l], to)
        g2 == SetPrev(g1, g1.next[l], g1.prev[to])
        g3 == SetNext(g2, g2.prev[to], g2.next[l])
        g4 == SetPrev(g3, to, g3.prev[l]) IN
    Initialize(g4, l)

\* The nodes met from x on along the links of one direction, up to the list
Walk(links, x, l) ==
    LET n == Cardinality(Nodes) + 1
        at[k \in 0..n] == IF k = 0 THEN x ELSE links[at[k - 1]]
        end == Min({k \in 0..n : at[k] = l} \cup {n}) IN
    [k \in 1..end |-> at[k - 1]]

SeqOf(g, l) == Walk(g.next, g.next[l], l)

\* jsdrv_list_length
Length(g, l) == Len(SeqOf(g, l))

------------------------------------------------------------------------------
(* The calls                                                                 *)

Called(fn, x, y, out) == call' = [fn |-> fn, x |-> x, y |-> y, out |-> out]

Call(g, fn, x, y, out) == ~it.on /\ h' = g /\ Called(fn, x, y, out) /\ UNCHANGED it

Add(l, x) == Call(AddHead(h, l, x), "add_head", l, x, Null) \/ Call(AddTail(h, l, x), "add_tail", l, x, Null)

InAList(x) == h.next[x] # x

InsertAt(p, x) ==
    /\ p # x /\ InAList(p)
    /\ \/ Call(InsertBefore(h, p, x), "insert_before", p, x, Null)
       \/ Call(InsertAfter(h, p, x), "insert_after", p, x, Null)

TakeOut(x) == Call(RemoveItem(h, x), "remove", x, Null, Null)

\* jsdrv_list_peek_head, jsdrv_list_peek_tail
PeekHead(l) == IF IsEmpty(h, l) THEN Null ELSE h.next[l]
PeekTail(l) == IF IsEmpty(h, l) THEN Null ELSE h.prev[l]

Ask(l) ==
    \/ Call(h, "peek_head", l, Null, PeekHead(l))
    \/ Call(h, "peek_tail", l, Null, PeekTail(l))
    \/ Call(h, "length", l, Null, Length(h, l))

RemoveEnd(l) ==
    \/ Call(IF IsEmpty(h, l) THEN h ELSE RemoveHead(h, l), "remove_head", l, Null, PeekHead(l))
    \/ Call(IF IsEmpty(h, l) THEN h ELSE RemoveTail(h, l), "remove_tail", l, Null, PeekTail(l))

ReplaceItem(r, a) ==
    /\ r # a /\ (ReplacesList \/ r \in Items)
    /\ IF IsEmpty(h, r) THEN Call(h, "replace", r, a, Null) ELSE Call(Replace(h, r, a), "replace", r, a, a)

Append2(to, l) == to # l /\ (AppendsEmpty \/ ~IsEmpty(h, l)) /\ Call(AppendList(h, to, l), "append", to, l, Null)

------------------------------------------------------------------------------
(* jsdrv_list_foreach, jsdrv_list_foreach_reverse                            *)

Links(g) == IF it.dir = "next" THEN g.next ELSE g.prev

Foreach(l, dir) ==
    LET lk == IF dir = "next" THEN h.next ELSE h.prev IN
    /\ ~it.on
    /\ it' = [on |-> TRUE, dir |-> dir, list |-> l, item |-> lk[l], next |-> lk[lk[l]],
              seen |-> <<>>, start |-> Walk(lk, lk[l], l)]
    /\ UNCHANGED <<h, call>>

\* Faulty: the next item is read when the body is done.
AdvanceUnsafe(g) == [it EXCEPT !.item = Links(g)[it.item], !.seen = Append(@, it.item)]

\* The step to the next item
Advance(g) == [it EXCEPT !.item = it.next, !.next = Links(g)[it.next], !.seen = Append(@, it.item)]

\* What the loops do with their item: nothing, remove it, hand it to another list,
\* or add one right behind it
Bodies == {h, RemoveItem(h, it.item)} \cup {AddTail(h, l, it.item) : l \in Lists \ {it.list}}
          \cup {IF it.dir = "next" THEN InsertAfter(h, it.item, x) ELSE InsertBefore(h, it.item, x) :
                   x \in {y \in Items \ {it.item} : ~InAList(y)}}

Visit == it.on /\ it.item # it.list /\ \E g \in Bodies : h' = g /\ Called("foreach", it.list, Null, Null) /\ it' = Advance(g)

EndForeach == it.on /\ it.item = it.list /\ it' = NoIt /\ UNCHANGED <<h, call>>

Next ==
    \/ \E l \in Lists, x \in Items : Add(l, x)
    \/ \E p, x \in Items : InsertAt(p, x)
    \/ \E x \in Items : TakeOut(x)
    \/ \E l \in Lists : Ask(l) \/ RemoveEnd(l)
    \/ \E r \in Nodes, a \in Items : ReplaceItem(r, a)
    \/ \E to, l \in Lists : Append2(to, l)
    \/ \E l \in Lists, dir \in {"next", "prev"} : Foreach(l, dir)
    \/ Visit \/ EndForeach

Spec == Init /\ [][Next]_vars

------------------------------------------------------------------------------
\* The links of the two directions are each other's inverse, whatever is added,
\* moved, replaced or removed: jsdrv_list_remove of any item is safe at any time.
Linked == \A n \in Nodes : h.next[n] \in Nodes /\ h.prev[n] \in Nodes /\ h.prev[h.next[n]] = n /\ h.next[h.prev[n]] = n

\* A traversal visits the items that were in the list when it began, each once and
\* in order, though its body removes the item, hands it to another list or adds one
\* behind it.
ForeachExact == it.on => it.seen \o Walk(Links(h), it.item, it.list) = it.start

Seqs == INSTANCE ListSeqs WITH seqs <- [l \in Lists |-> SeqOf(h, l)]

\* Every call does to the sequences what its description says, and returns what it
\* says (ListSeqs).
ListsAreSequences == Seqs!Spec
==============================================================================
