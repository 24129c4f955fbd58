------------------------------ MODULE PrioQueue ------------------------------
(***************************************************************************)
(* lib/prioqueue.c: the priority queue under archd's record, reply and     *)
(* telemetry queues.  A queue is an AVL tree of elements keyed by          *)
(* (priority, time_received) and a separate counter size; the tree keeps   *)
(* at most one element per key and prioqueue_add does not look at what     *)
(* avltree_insert returns.                                                 *)
(*                                                                         *)
(* The module runs the two queues in which archd uses all of it: its own   *)
(* telemetry queue (source), which takes every record, and the queue of    *)
(* one telemetry client (target), which starts as a clone of the first and *)
(* takes every record from then on.  refs counts the references the two    *)
(* hold to each record (record_duplicate, record_deallocate).              *)
(***************************************************************************)
EXTENDS Integers, FiniteSets

CONSTANTS
    Data,         \* the records that can be queued
    MaxPriority,  \* priorities are 0..MaxPriority; archd only uses 0
    Capacity,     \* queue->capacity; -1 is unbounded
    MaxTime,      \* bound on the microsecond clock
    MaxRefs       \* bound on the references a record has when a client connects

ASSUME CapacityAssumption == Capacity \in Nat \cup {-1}
ASSUME PriorityAssumption == MaxPriority \in Nat
ASSUME TimeAssumption == MaxTime \in Nat
ASSUME RefsAssumption == MaxRefs \in Nat

VARIABLES
    clock,     \* what gettimeofday returns, in microseconds
    source,    \* archd->telemetry_queue
    target,    \* client->telemetry_queue
    attached,  \* whether the client exists
    uncopied,  \* elements of source prioqueue_clone has still to visit
    refs,      \* ref_count of each record
    fresh      \* records that have not been received yet

vars == <<clock, source, target, attached, uncopied, refs, fresh>>

Priorities == 0..MaxPriority
Element == [data : Data, priority : Priorities, time : 0..MaxTime]
Queue == [tree : SUBSET Element, size : Nat]

-----------------------------------------------------------------------------
(* The ordering and the tree.                                              *)

\* _queue_element_compare(a, b) < 0: lower priority, or the same and received later.
Precedes(a, b) ==
    \/ a.priority < b.priority
    \/ a.priority = b.priority /\ a.time > b.time

\* _queue_element_compare(a, b) = 0.
SameKey(a, b) == a.priority = b.priority /\ a.time = b.time

\* avltree_first: the lowest priority, and the newest of that priority.
LowestOf(tree) == CHOOSE e \in tree : \A o \in tree \ {e} : Precedes(e, o)

\* avltree_last: the highest priority, and the oldest of that priority.
HighestOf(tree) == CHOOSE e \in tree : \A o \in tree \ {e} : Precedes(o, e)

\* The data of a queue in the order prioqueue_pop_high hands them out.
PopOrder(q) ==
    LET n == Cardinality(q.tree)
        order == CHOOSE s \in [1..n -> q.tree] :
                    \A i, j \in 1..n : i < j => Precedes(s[j], s[i])
    IN  [i \in 1..n |-> order[i].data]

EmptyTree == [tree |-> {}, size |-> 0]

\* Slips a maintainer could make here, for the mutation checks.
EvictHighest(q) ==
    IF Capacity > 0 /\ q.size >= Capacity
    THEN [tree |-> q.tree \ {HighestOf(q.tree)}, size |-> q.size - 1]
    ELSE q
PopUncounted(q) == [tree |-> q.tree \ {HighestOf(q.tree)}, size |-> q.size]
PopLow(q) == [tree |-> q.tree \ {LowestOf(q.tree)}, size |-> q.size - 1]
\* A full queue gives up its lowest element before it takes a new one.
MakeRoom(q) ==
    IF Capacity > 0 /\ q.size >= Capacity
    THEN [tree |-> q.tree \ {LowestOf(q.tree)}, size |-> q.size - 1]
    ELSE q

\* avltree_insert refuses a key it holds; queue->size grows all the same.
Insert(q, e) ==
    [tree |-> IF \E o \in q.tree : SameKey(o, e) THEN q.tree ELSE q.tree \cup {e},
     size |-> q.size + 1]

prioqueue_add(q, d, p, now) ==
    IF Capacity = 0 THEN q
    ELSE Insert(MakeRoom(q), [data |-> d, priority |-> p, time |-> now])

\* The caller gets the data; queue->size shrinks because the tree gave an element.
prioqueue_pop_high(q) ==
    [tree |-> q.tree \ {HighestOf(q.tree)}, size |-> q.size - 1]

\* The records a queue holds.
Held(q) == {e.data : e \in q.tree}

\* More slips: no reference of its own for d, and the newcomer released for the displaced.
AddUnreferenced(rc, q, d) ==
    [r \in Data |-> rc[r] - (IF r \in Held(q) \ Held(MakeRoom(q)) THEN 1 ELSE 0)]
ReleaseNewcomer(rc, q, d) ==
    [r \in Data |-> rc[r] + (IF r = d /\ MakeRoom(q) = q THEN 1 ELSE 0)]

\* record_deallocate for what is displaced, record_duplicate for d, in the counts rc.
RefsAfterAdd(rc, q, d) ==
    IF Capacity = 0 THEN rc
    ELSE LET gone == Held(q) \ Held(MakeRoom(q))
         IN  [r \in Data |-> rc[r] - (IF r \in gone THEN 1 ELSE 0)
                                   + (IF r = d THEN 1 ELSE 0)]

-----------------------------------------------------------------------------
(* The two queues in use.                                                  *)

Init ==
    /\ clock = 0
    /\ source = EmptyTree
    /\ target = EmptyTree
    /\ attached = FALSE
    /\ uncopied = {}
    /\ refs = [d \in Data |-> 0]
    /\ fresh = Data

\* A record arrives: it goes to archd's own queue and to the client's (add_client_record).
Receive(d, p) ==
    /\ uncopied = {}
    /\ d \in fresh
    /\ fresh' = fresh \ {d}
    /\ source' = prioqueue_add(source, d, p, clock)
    /\ IF attached
       THEN /\ target' = prioqueue_add(target, d, p, clock)
            /\ refs' = RefsAfterAdd(RefsAfterAdd(refs, source, d), target, d)
       ELSE /\ target' = target
            /\ refs' = RefsAfterAdd(refs, source, d)
    /\ UNCHANGED <<clock, attached, uncopied>>

\* prioqueue_clone, up to its loop: the target is initialised afresh.
StartClone ==
    /\ ~attached
    /\ \A d \in Data : refs[d] < MaxRefs
    /\ attached' = TRUE
    /\ target' = EmptyTree
    /\ uncopied' = source.tree
    /\ UNCHANGED <<clock, source, refs, fresh>>

\* One turn of prioqueue_clone's loop, which walks from avltree_first.
CloneStep ==
    /\ uncopied # {}
    /\ LET e == LowestOf(uncopied)
       IN  /\ refs' = RefsAfterAdd(refs, target, e.data)
           /\ target' = prioqueue_add(target, e.data, e.priority, clock)
           /\ uncopied' = uncopied \ {e}
    /\ UNCHANGED <<clock, source, attached, fresh>>

\* callback_client_can_send pops a record and releases it once it is sent.
PopTarget ==
    /\ uncopied = {}
    /\ target.tree # {}
    /\ refs' = [refs EXCEPT ![HighestOf(target.tree).data] = @ - 1]
    /\ target' = prioqueue_pop_high(target)
    /\ UNCHANGED <<clock, source, attached, uncopied, fresh>>

\* callback_client_closed releases what is left and frees the client.
Detach ==
    /\ attached
    /\ uncopied = {}
    /\ attached' = FALSE
    /\ refs' = [d \in Data |-> refs[d] - (IF d \in Held(target) THEN 1 ELSE 0)]
    /\ target' = EmptyTree
    /\ UNCHANGED <<clock, source, uncopied, fresh>>

\* The microsecond clock moves on; several adds can fall into one microsecond.
Tick ==
    /\ clock < MaxTime
    /\ clock' = clock + 1
    /\ UNCHANGED <<source, target, attached, uncopied, refs, fresh>>

Next ==
    \/ \E d \in Data, p \in Priorities : Receive(d, p)
    \/ StartClone
    \/ CloneStep
    \/ PopTarget
    \/ Detach
    \/ Tick

Spec == Init /\ [][Next]_vars

-----------------------------------------------------------------------------
(* Properties.                                                             *)

\* Types: the queues are well-formed and the reference counts never go below zero
\* (record_deallocate on a count of zero would leave the record to be freed twice).
TypeOK ==
    /\ clock \in 0..MaxTime
    /\ source \in Queue
    /\ target \in Queue
    /\ attached \in BOOLEAN
    /\ uncopied \in SUBSET Element
    /\ refs \in [Data -> Nat]
    /\ fresh \in SUBSET Data

\* The counter never exceeds the capacity, and counts every element of the tree; the
\* elements it counts in excess never fill the queue.
CountedWithin(q) ==
    /\ Cardinality(q.tree) <= q.size
    /\ Capacity > -1 => q.size <= Capacity
    /\ Capacity > 0 => q.size - Cardinality(q.tree) < Capacity
CountsSound == CountedWithin(source) /\ CountedWithin(target)

\* prioqueue_add hands avltree_remove the result of avltree_first unchecked (110-111):
\* whenever a queue is full by its counter, its tree has an element to remove.
NoNullEviction ==
    \A q \in {source, target} : Capacity > 0 /\ q.size >= Capacity => q.tree # {}

\* A record that a queue holds has a reference of that queue's own, so nobody who
\* releases another reference can free it under the queue.
QueuedRecordsLive ==
    \A d \in Data :
        refs[d] >= (IF d \in Held(source) THEN 1 ELSE 0) + (IF d \in Held(target) THEN 1 ELSE 0)

\* No record sits in one tree twice: a second pop of it would release it again.
NoDuplicates(q) == \A e, o \in q.tree : e.data = o.data => e = o
EachHeldOnce == NoDuplicates(source) /\ NoDuplicates(target)

\* Keys are unique in a tree, or first and last are not defined.
KeysUnique(q) == \A e, o \in q.tree : SameKey(e, o) => e = o

\* With one priority in use the keyed tree is a FIFO that drops its newest element
\* on overflow and loses an element only beside another one (BoundedFifo).
View(q) == [items |-> PopOrder(q), size |-> q.size]
SourceFifo == INSTANCE BoundedFifo WITH queue <- View(source)
TargetFifo == INSTANCE BoundedFifo WITH queue <- View(target)
SourceIsFifo == SourceFifo!Spec
TargetIsFifo == TargetFifo!Spec
==============================================================================
