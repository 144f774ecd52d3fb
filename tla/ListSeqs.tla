------------------------------- MODULE ListSeqs -------------------------------
(* What the lists of include_private/jsdrv_prv/list.h promise: every list is a  *)
(* sequence of items, an item is in one list at most, and what is added         *)
(* somewhere leaves the list that it was in.                                    *)
EXTENDS Naturals, Sequences

CONSTANTS Lists, Items, Null

VARIABLES
    seqs,   \* list -> its items
    call    \* the last call: [fn, x, y, out], out is what it returned

vars == <<seqs, call>>

Drop(s, x) == SelectSeq(s, LAMBDA y : y # x)

Without(x) == [l \in Lists |-> Drop(seqs[l], x)]

Insert(s, k, x) == SubSeq(s, 1, k) \o <<x>> \o SubSeq(s, k + 1, Len(s))

Init == seqs = [l \in Lists |-> <<>>] /\ call = [fn |-> "none", x |-> Null, y |-> Null, out |-> Null]

Called(fn, x, y, out) == call' = [fn |-> fn, x |-> x, y |-> y, out |-> out]

First(l) == IF seqs[l] = <<>> THEN Null ELSE Head(seqs[l])
Last(l) == IF seqs[l] = <<>> THEN Null ELSE seqs[l][Len(seqs[l])]

\* x goes to the front or to the end of list l.
Add(l, x) ==
    \/ Called("add_head", l, x, Null) /\ seqs' = [Without(x) EXCEPT ![l] = <<x>> \o @]
    \/ Called("add_tail", l, x, Null) /\ seqs' = [Without(x) EXCEPT ![l] = @ \o <<x>>]

\* x goes next to the item p.
Beside(p, x, fn, d) ==
    /\ Called(fn, p, x, Null)
    /\ \E l \in Lists : \E k \in DOMAIN Without(x)[l] :
         Without(x)[l][k] = p /\ seqs' = [Without(x) EXCEPT ![l] = Insert(@, k - d, x)]

InsertAt(p, x) == Beside(p, x, "insert_before", 1) \/ Beside(p, x, "insert_after", 0)

Take(x) == Called("remove", x, Null, Null) /\ seqs' = Without(x)

\* The first or the last item is returned and leaves the list.
TakeEnd(l) ==
    \/ Called("remove_head", l, Null, First(l)) /\ seqs' = Without(First(l))
    \/ Called("remove_tail", l, Null, Last(l)) /\ seqs' = Without(Last(l))

\* a takes the place of r, if r is in a list.
Swap(r, a) ==
    \/ Called("replace", r, a, Null) /\ Without(r) = seqs /\ UNCHANGED seqs
    \/ /\ Called("replace", r, a, a) /\ Without(r) # seqs
       /\ seqs' = [l \in Lists |-> [k \in DOMAIN Without(a)[l] |->
                      LET y == Without(a)[l][k] IN IF y = r THEN a ELSE y]]

\* The items of one list go to the end of another.
Move(to, l) == to # l /\ Called("append", to, l, Null) /\ seqs' = [seqs EXCEPT ![to] = @ \o seqs[l], ![l] = <<>>]

\* What a call tells of a list that it leaves as it is
Ask(l) ==
    /\ \/ Called("peek_head", l, Null, First(l))
       \/ Called("peek_tail", l, Null, Last(l))
       \/ Called("length", l, Null, Len(seqs[l]))
    /\ UNCHANGED seqs

\* The body of a traversal of l: it leaves the lists alone, takes an item out of l,
\* hands it to another list, or puts one next to it.
Body(l) ==
    /\ Called("foreach", l, Null, Null)
    /\ \/ UNCHANGED seqs
       \/ \E k \in DOMAIN seqs[l] :
            \/ seqs' = Without(seqs[l][k])
            \/ \E t \in Lists \ {l} : seqs' = [Without(seqs[l][k]) EXCEPT ![t] = Append(@, seqs[l][k])]
       \/ \E x \in Items, k \in 0..Len(seqs[l]) :
            Without(x) = seqs /\ seqs' = [seqs EXCEPT ![l] = Insert(@, k, x)]

Next ==
    \/ \E l \in Lists, x \in Items : Add(l, x)
    \/ \E p, x \in Items : p # x /\ InsertAt(p, x)
    \/ \E x \in Items : Take(x)
    \/ \E r, a \in Items : r # a /\ Swap(r, a)
    \/ \E to, l \in Lists : Move(to, l)
    \/ \E l \in Lists : Ask(l) \/ TakeEnd(l) \/ Body(l)

Spec == Init /\ [][Next]_vars
==============================================================================
