------------------------------ MODULE FifoQueue ------------------------------
(***************************************************************************)
(* A bounded first-in-first-out queue of records as archd's callers of     *)
(* lib/prioqueue.c see it: every record has priority 0, so the oldest      *)
(* element is the one prioqueue_pop_high returns and the newest is the one *)
(* an overflowing prioqueue_add throws away.                               *)
(*                                                                         *)
(* A queue is [items, size].  items is what the AVL tree holds, oldest     *)
(* first; size is the separate counter queue->size, which also counts an   *)
(* element the tree refused because its time_received equals that of an    *)
(* element already there.  PrioQueue.tla shows that the keyed tree         *)
(* implements this view.                                                   *)
(***************************************************************************)
EXTENDS Integers, Sequences

\* prioqueue_init leaves an empty tree and a zero counter.
EmptyQueue == [items |-> <<>>, size |-> 0]

\* prioqueue_full, for a queue with the given capacity (-1: unbounded).
IsFull(q, cap) == cap > -1 /\ q.size >= cap

\* prioqueue_empty looks at the counter, not at the tree.
IsEmpty(q) == q.size = 0

\* The eviction at the start of prioqueue_add: a full queue gives up its newest element.
MustEvict(q, cap) == cap > 0 /\ q.size >= cap
EvictNewest(q) == [items |-> SubSeq(q.items, 1, Len(q.items) - 1), size |-> q.size - 1]
MadeRoom(q, cap) == IF MustEvict(q, cap) THEN EvictNewest(q) ELSE q
Evicted(q, cap) == IF MustEvict(q, cap) THEN {q.items[Len(q.items)]} ELSE {}

\* prioqueue_add of x, whose time_received is later than that of every element.
Put(q, cap, x) ==
    IF cap = 0 THEN q
    ELSE LET r == MadeRoom(q, cap)
         IN  [items |-> Append(r.items, x), size |-> r.size + 1]

\* prioqueue_add of an element whose key the tree already holds: it is counted and lost.
PutTied(q, cap) ==
    IF cap = 0 THEN q
    ELSE LET r == MadeRoom(q, cap)
         IN  [items |-> r.items, size |-> r.size + 1]

\* prioqueue_pop_high: the caller owns the oldest element from here on.
Taken(q) == [items |-> Tail(q.items), size |-> q.size - 1]
==============================================================================
