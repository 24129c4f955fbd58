----------------------------- MODULE BoundedFifo -----------------------------
(***************************************************************************)
(* What a priority queue of equal priorities promises its user: a FIFO     *)
(* that keeps its oldest elements when it overflows, and that may lose a   *)
(* new element (but still count it) as long as it holds another one.       *)
(***************************************************************************)
EXTENDS FifoQueue

CONSTANTS Data, Capacity

VARIABLE queue

TypeOK == queue \in [items : Seq(Data), size : Nat]

Init == queue = EmptyQueue

\* A new element goes behind all the others.
Enqueue(d) == queue' = Put(queue, Capacity, d)

\* A new element is lost, and only beside one that stays.
LoseNew ==
    /\ MadeRoom(queue, Capacity).items # <<>>
    /\ queue' = PutTied(queue, Capacity)

\* The oldest element leaves.
Dequeue ==
    /\ queue.items # <<>>
    /\ queue' = Taken(queue)

\* A fresh queue replaces the old one (prioqueue_init, prioqueue_clone).
Reset == queue' = EmptyQueue

Next == (\E d \in Data : Enqueue(d)) \/ LoseNew \/ Dequeue \/ Reset

Spec == Init /\ [][Next]_queue
==============================================================================
