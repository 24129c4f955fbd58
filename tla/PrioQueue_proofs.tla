--------------------------- MODULE PrioQueue_proofs ---------------------------
(***************************************************************************)
(* Theorems about PrioQueue: for every capacity, every set of records and  *)
(* every bound on the clock, a full queue always has an element to evict,  *)
(* and every record a queue holds owns a reference of that queue's.  With  *)
(* one priority in use, as in archd, each of the two queues implements     *)
(* BoundedFifo: the tree is seen as the list that sorts it (Sorted), an    *)
(* add puts a new element last because no element is later than the clock, *)
(* an eviction takes the last away and a pop the first.                    *)
(***************************************************************************)
EXTENDS PrioQueue, SequenceTheorems, FiniteSetTheorems, TLAPS

-----------------------------------------------------------------------------
(* The first and the last element of a tree.                               *)

\* A nonempty set of natural numbers has a least element.
LEMMA NatHasLeast ==
    ASSUME NEW S, S \subseteq Nat, S # {}
    PROVE  \E m \in S : \A n \in S : m <= n
<1>1. PICK m \in S : \A n \in S : ~(<<n, m>> \in OpToRel(<, Nat))
  BY NatLessThanWellFounded, WFMin
<1>2. \A n \in S : m <= n
  <2> SUFFICES ASSUME NEW n \in S PROVE m <= n
    OBVIOUS
  <2>1. <<n, m>> \in Nat \X Nat
    OBVIOUS
  <2>2. ~(n < m)
    BY <1>1, <2>1 DEF OpToRel
  <2> QED BY <2>2
<1> QED BY <1>2

\* A nonempty tree with unique keys has a first element in the order of the tree.
LEMMA LowestExists ==
    ASSUME NEW tree, tree \subseteq Element, tree # {},
           \A e, o \in tree : SameKey(e, o) => e = o
    PROVE  \E e \in tree : \A o \in tree \ {e} : Precedes(e, o)
<1> DEFINE P == {e.priority : e \in tree}
<1>1. P \subseteq Nat /\ P # {}
  BY PriorityAssumption DEF Element, Priorities
<1>2. PICK p \in P : \A n \in P : p <= n
  BY <1>1, NatHasLeast
<1> DEFINE D == {MaxTime - e.time : e \in {x \in tree : x.priority = p}}
<1>3. D \subseteq Nat /\ D # {}
  BY <1>2, TimeAssumption DEF Element
<1> HIDE DEF D
<1>4. PICK t \in D : \A n \in D : t <= n
  BY <1>3, NatHasLeast
<1>5. PICK e \in tree : e.priority = p /\ t = MaxTime - e.time
  BY <1>4 DEF D
<1>6. ASSUME NEW o \in tree \ {e} PROVE Precedes(e, o)
  <2>1. p <= o.priority /\ o.priority \in Nat /\ p \in Nat
    BY <1>2, <1>1, <1>6
  <2>2. CASE o.priority = p
    <3>1. MaxTime - o.time \in D
      BY <2>2, <1>6 DEF D
    <3>2. t <= MaxTime - o.time
      BY <3>1, <1>4
    <3>3. e.time \in Nat /\ o.time \in Nat
      BY <1>5, <1>6, TimeAssumption DEF Element
    <3>4. e.time # o.time
      BY <1>5, <1>6, <2>2 DEF SameKey
    <3> QED BY <3>2, <3>3, <3>4, <1>5, <2>2, TimeAssumption DEF Precedes
  <2>3. CASE o.priority # p
    BY <2>1, <2>3, <1>5 DEF Precedes
  <2> QED BY <2>2, <2>3
<1> QED BY <1>5, <1>6

\* And a last one.
LEMMA HighestExists ==
    ASSUME NEW tree, tree \subseteq Element, tree # {},
           \A e, o \in tree : SameKey(e, o) => e = o
    PROVE  \E e \in tree : \A o \in tree \ {e} : Precedes(o, e)
<1> DEFINE P == {MaxPriority - e.priority : e \in tree}
<1>1. P \subseteq Nat /\ P # {}
  BY PriorityAssumption DEF Element, Priorities
<1> HIDE DEF P
<1>2. PICK p \in P : \A n \in P : p <= n
  BY <1>1, NatHasLeast
<1>3. PICK h \in tree : p = MaxPriority - h.priority
  BY <1>2 DEF P
<1> DEFINE T == {e.time : e \in {x \in tree : x.priority = h.priority}}
<1>4. T \subseteq Nat /\ T # {}
  BY <1>3, TimeAssumption DEF Element
<1> HIDE DEF T
<1>5. PICK t \in T : \A n \in T : t <= n
  BY <1>4, NatHasLeast
<1>6. PICK e \in tree : e.priority = h.priority /\ t = e.time
  BY <1>5 DEF T
<1>7. ASSUME NEW o \in tree \ {e} PROVE Precedes(o, e)
  <2>1. p <= MaxPriority - o.priority
    BY <1>2, <1>7 DEF P
  <2>2. o.priority \in Nat /\ h.priority \in Nat /\ o.time \in Nat /\ e.time \in Nat
    BY <1>3, <1>6, <1>7, PriorityAssumption, TimeAssumption DEF Element, Priorities
  <2>3. CASE o.priority = h.priority
    <3>1. o.time \in T
      BY <2>3, <1>7 DEF T
    <3>2. t <= o.time
      BY <3>1, <1>5
    <3>3. e.time # o.time
      BY <1>6, <1>7, <2>3 DEF SameKey
    <3> QED BY <3>2, <3>3, <2>2, <2>3, <1>6 DEF Precedes
  <2>4. CASE o.priority # h.priority
    BY <2>1, <2>2, <2>4, <1>3, <1>6, PriorityAssumption DEF Precedes
  <2> QED BY <2>3, <2>4
<1> QED BY <1>6, <1>7

LEMMA LowestInTree ==
    ASSUME NEW tree, tree \subseteq Element, tree # {},
           \A e, o \in tree : SameKey(e, o) => e = o
    PROVE  LowestOf(tree) \in tree
BY LowestExists DEF LowestOf

LEMMA HighestInTree ==
    ASSUME NEW tree, tree \subseteq Element, tree # {},
           \A e, o \in tree : SameKey(e, o) => e = o
    PROVE  HighestOf(tree) \in tree
BY HighestExists DEF HighestOf

-----------------------------------------------------------------------------
(* What adding to a queue preserves.                                       *)

\* A queue in order: its tree is finite and sound, its counter within bounds.
InOrder(q) ==
    /\ q \in Queue
    /\ IsFiniteSet(q.tree)
    /\ CountedWithin(q)
    /\ NoDuplicates(q)
    /\ KeysUnique(q)

\* The references queue q needs for record r.
Need(q, r) == IF r \in Held(q) THEN 1 ELSE 0

LEMMA EmptyInOrder == InOrder(EmptyTree) /\ Held(EmptyTree) = {}
<1>1. EmptyTree \in Queue /\ EmptyTree.tree = {} /\ EmptyTree.size = 0
  BY DEF EmptyTree, Queue
<1>2. IsFiniteSet(EmptyTree.tree) /\ Cardinality(EmptyTree.tree) = 0
  BY <1>1, FS_EmptySet
<1>3. CountedWithin(EmptyTree)
  BY <1>1, <1>2, CapacityAssumption DEF CountedWithin
<1> QED BY <1>1, <1>2, <1>3 DEF InOrder, NoDuplicates, KeysUnique, Held

\* A tree in order that the counter calls full has an element.
LEMMA FullHasElement ==
    ASSUME NEW q, InOrder(q), Capacity > 0, q.size >= Capacity
    PROVE  q.tree # {}
<1>1. q.size - Cardinality(q.tree) < Capacity
  BY DEF InOrder, CountedWithin
<1>2. q.tree = {} => Cardinality(q.tree) = 0
  BY FS_EmptySet
<1> QED BY <1>1, <1>2, CapacityAssumption DEF InOrder, Queue

\* Taking one element out keeps a tree in order, counter included.
LEMMA RemovalInOrder ==
    ASSUME NEW q, InOrder(q), NEW e \in q.tree
    PROVE  LET m == [tree |-> q.tree \ {e}, size |-> q.size - 1]
           IN  InOrder(m) /\ Held(m) = Held(q) \ {e.data}
<1> DEFINE m == [tree |-> q.tree \ {e}, size |-> q.size - 1]
<1>1. IsFiniteSet(m.tree) /\ Cardinality(m.tree) = Cardinality(q.tree) - 1
  BY FS_RemoveElement DEF InOrder
<1>2. Cardinality(q.tree) \in Nat /\ Cardinality(m.tree) \in Nat
  BY <1>1, FS_CardinalityType DEF InOrder
<1>3. q.size \in Nat /\ q.tree \subseteq Element
  BY DEF InOrder, Queue
<1>4. Cardinality(q.tree) <= q.size
  BY DEF InOrder, CountedWithin
<1>5. m \in Queue
  BY <1>1, <1>2, <1>3, <1>4 DEF Queue
<1>6. CountedWithin(m)
  BY <1>1, <1>2, <1>3, CapacityAssumption DEF InOrder, CountedWithin
<1>7. NoDuplicates(m) /\ KeysUnique(m)
  BY DEF InOrder, NoDuplicates, KeysUnique
<1>8. Held(m) = Held(q) \ {e.data}
  BY DEF Held, InOrder, NoDuplicates
<1> QED BY <1>1, <1>5, <1>6, <1>7, <1>8 DEF InOrder

\* After MakeRoom a bounded queue is below its capacity.
LEMMA RoomMade ==
    ASSUME NEW q, InOrder(q)
    PROVE  /\ InOrder(MakeRoom(q))
           /\ Held(MakeRoom(q)) \subseteq Held(q)
           /\ Capacity > 0 => MakeRoom(q).size < Capacity
<1>1. CASE Capacity > 0 /\ q.size >= Capacity
  <2>1. LowestOf(q.tree) \in q.tree
    BY <1>1, FullHasElement, LowestInTree DEF InOrder, Queue, KeysUnique
  <2>2. MakeRoom(q) = [tree |-> q.tree \ {LowestOf(q.tree)}, size |-> q.size - 1]
    BY <1>1 DEF MakeRoom
  <2>3. InOrder(MakeRoom(q)) /\ Held(MakeRoom(q)) = Held(q) \ {LowestOf(q.tree).data}
    BY <2>1, <2>2, RemovalInOrder
  <2>4. q.size \in Nat /\ q.size <= Capacity
    BY <1>1, CapacityAssumption DEF InOrder, Queue, CountedWithin
  <2> QED BY <2>2, <2>3, <2>4, CapacityAssumption
<1>2. CASE ~(Capacity > 0 /\ q.size >= Capacity)
  <2>1. MakeRoom(q) = q
    BY <1>2 DEF MakeRoom
  <2> QED BY <1>2, <2>1, CapacityAssumption DEF InOrder, Queue
<1> QED BY <1>1, <1>2

\* Inserting a record the tree does not hold, below the capacity.
LEMMA InsertInOrder ==
    ASSUME NEW q, InOrder(q), NEW e \in Element, e.data \notin Held(q),
           Capacity # 0, Capacity > 0 => q.size < Capacity
    PROVE  /\ InOrder(Insert(q, e))
           /\ Held(Insert(q, e)) \subseteq Held(q) \cup {e.data}
<1> DEFINE n == Insert(q, e)
<1>1. Cardinality(q.tree) \in Nat /\ q.size \in Nat /\ q.tree \subseteq Element
  BY FS_CardinalityType DEF InOrder, Queue
<1>2. n.size = q.size + 1
  BY DEF Insert
<1>3. CASE \E o \in q.tree : SameKey(o, e)
  <2>1. n.tree = q.tree
    BY <1>3 DEF Insert
  <2>2. Cardinality(q.tree) # 0
    BY <1>3, FS_EmptySet DEF InOrder
  <2>3. CountedWithin(n)
    BY <1>1, <1>2, <2>1, <2>2, CapacityAssumption DEF InOrder, CountedWithin
  <2>4. n \in Queue
    BY <1>1, <1>2, <2>1 DEF Queue, Insert
  <2> QED BY <2>1, <2>3, <2>4 DEF InOrder, NoDuplicates, KeysUnique, Held
<1>4. CASE ~\E o \in q.tree : SameKey(o, e)
  <2>1. n.tree = q.tree \cup {e}
    BY <1>4 DEF Insert
  <2>2. e \notin q.tree
    BY DEF Held
  <2>3. IsFiniteSet(n.tree) /\ Cardinality(n.tree) = Cardinality(q.tree) + 1
    BY <2>1, <2>2, FS_AddElement DEF InOrder
  <2>4. CountedWithin(n)
    BY <1>1, <1>2, <2>3, CapacityAssumption DEF InOrder, CountedWithin
  <2>5. n \in Queue
    BY <1>1, <1>2, <2>1 DEF Queue, Insert
  <2>6. NoDuplicates(n)
    BY <2>1 DEF InOrder, NoDuplicates, Held
  <2>7. KeysUnique(n)
    BY <2>1, <1>4 DEF InOrder, KeysUnique, SameKey
  <2>8. Held(n) = Held(q) \cup {e.data}
    BY <2>1 DEF Held
  <2> QED BY <2>3, <2>4, <2>5, <2>6, <2>7, <2>8 DEF InOrder
<1> QED BY <1>3, <1>4

\* prioqueue_add of a record the queue does not hold.
LEMMA AddInOrder ==
    ASSUME NEW q, InOrder(q), NEW d \in Data, d \notin Held(q),
           NEW p \in Priorities, NEW now \in 0..MaxTime
    PROVE  /\ InOrder(prioqueue_add(q, d, p, now))
           /\ Capacity = 0 => prioqueue_add(q, d, p, now) = q
           /\ Capacity # 0 => Held(prioqueue_add(q, d, p, now)) \subseteq Held(MakeRoom(q)) \cup {d}
           /\ Held(prioqueue_add(q, d, p, now)) \subseteq Held(q) \cup {d}
<1> DEFINE e == [data |-> d, priority |-> p, time |-> now]
<1>1. CASE Capacity = 0
  BY <1>1 DEF prioqueue_add
<1>2. CASE Capacity # 0
  <2>1. e \in Element /\ e.data = d
    BY DEF Element
  <2> HIDE DEF e
  <2>2. /\ InOrder(MakeRoom(q))
        /\ Held(MakeRoom(q)) \subseteq Held(q)
        /\ Capacity > 0 => MakeRoom(q).size < Capacity
    BY RoomMade
  <2>3. /\ InOrder(Insert(MakeRoom(q), e))
        /\ Held(Insert(MakeRoom(q), e)) \subseteq Held(MakeRoom(q)) \cup {e.data}
    BY <2>1, <2>2, <1>2, InsertInOrder
  <2>4. prioqueue_add(q, d, p, now) = Insert(MakeRoom(q), e)
    BY <1>2 DEF prioqueue_add, e
  <2> QED BY <1>2, <2>1, <2>2, <2>3, <2>4
<1> QED BY <1>1, <1>2

\* The counts keep up: beyond what the queue needs, no reference is lost by the add.
LEMMA AddKeepsReferences ==
    ASSUME NEW q, InOrder(q), NEW d \in Data, d \notin Held(q),
           NEW p \in Priorities, NEW now \in 0..MaxTime, NEW rc \in [Data -> Int]
    PROVE  /\ RefsAfterAdd(rc, q, d) \in [Data -> Int]
           /\ \A r \in Data : RefsAfterAdd(rc, q, d)[r] - Need(prioqueue_add(q, d, p, now), r)
                                >= rc[r] - Need(q, r)
<1> DEFINE new == prioqueue_add(q, d, p, now)
<1>1. CASE Capacity = 0
  BY <1>1, AddInOrder DEF RefsAfterAdd, Need
<1>2. CASE Capacity # 0
  <2> DEFINE gone == Held(q) \ Held(MakeRoom(q))
  <2>1. RefsAfterAdd(rc, q, d) = [r \in Data |-> rc[r] - (IF r \in gone THEN 1 ELSE 0)
                                                    + (IF r = d THEN 1 ELSE 0)]
    BY <1>2 DEF RefsAfterAdd
  <2>2. Held(new) \subseteq Held(MakeRoom(q)) \cup {d} /\ d \notin gone
    BY <1>2, AddInOrder
  <2>3. Held(MakeRoom(q)) \subseteq Held(q)
    BY RoomMade
  <2> HIDE DEF new
  <2>4. ASSUME NEW r \in Data
        PROVE  RefsAfterAdd(rc, q, d)[r] - Need(new, r) >= rc[r] - Need(q, r)
    <3>1. rc[r] \in Int
      OBVIOUS
    <3>2. RefsAfterAdd(rc, q, d)[r] = rc[r] - (IF r \in gone THEN 1 ELSE 0)
                                            + (IF r = d THEN 1 ELSE 0)
      BY <2>1
    <3> QED BY <2>2, <2>3, <3>1, <3>2 DEF Need
  <2>5. RefsAfterAdd(rc, q, d) \in [Data -> Int]
    BY <2>1
  <2> QED BY <2>4, <2>5 DEF new
<1> QED BY <1>1, <1>2

-----------------------------------------------------------------------------
(* The inductive invariant.                                                *)

\* A client's queue is a queue in order of its own, filled from the source only with
\* records it does not hold yet; records to come are in neither.
CloneInOrder ==
    /\ uncopied \subseteq source.tree
    /\ uncopied # {} => attached
    /\ ~attached => target.tree = {}
    /\ \A e \in uncopied : e.data \notin Held(target)
FreshUnheld == fresh \cap (Held(source) \cup Held(target)) = {}

IInv ==
    /\ TypeOK
    /\ InOrder(source)
    /\ InOrder(target)
    /\ CloneInOrder
    /\ FreshUnheld
    /\ QueuedRecordsLive

\* QueuedRecordsLive in terms of Need.
LEMMA LiveByNeed ==
    QueuedRecordsLive <=> \A r \in Data : refs[r] >= Need(source, r) + Need(target, r)
BY DEF QueuedRecordsLive, Need

\* Counts that cover all needs are natural numbers.
LEMMA LiveCounts ==
    ASSUME NEW rc \in [Data -> Int], NEW q, NEW t,
           \A r \in Data : rc[r] >= Need(q, r) + Need(t, r)
    PROVE  rc \in [Data -> Nat]
<1>1. \A r \in Data : rc[r] \in Nat
  <2> SUFFICES ASSUME NEW r \in Data PROVE rc[r] \in Nat
    OBVIOUS
  <2>1. rc[r] \in Int /\ rc[r] >= Need(q, r) + Need(t, r)
    OBVIOUS
  <2> QED BY <2>1 DEF Need
<1> QED BY <1>1

LEMMA InitInv == Init => IInv
<1> SUFFICES ASSUME Init PROVE IInv
  OBVIOUS
<1> USE DEF Init
<1>1. InOrder(source) /\ InOrder(target) /\ Held(source) = {} /\ Held(target) = {}
  BY EmptyInOrder
<1>2. source \in Queue /\ target \in Queue
  BY <1>1 DEF InOrder
<1>3. TypeOK
  <2>1. clock \in 0..MaxTime /\ refs \in [Data -> Nat]
    BY TimeAssumption
  <2>2. attached \in BOOLEAN /\ uncopied \in SUBSET Element /\ fresh \in SUBSET Data
    OBVIOUS
  <2> QED BY <1>2, <2>1, <2>2 DEF TypeOK
<1>4. CloneInOrder /\ FreshUnheld
  BY <1>1 DEF CloneInOrder, FreshUnheld, EmptyTree
<1>5. QueuedRecordsLive
  BY <1>1 DEF QueuedRecordsLive
<1> QED BY <1>1, <1>3, <1>4, <1>5 DEF IInv

LEMMA ReceiveInv ==
    ASSUME IInv, NEW d \in Data, NEW p \in Priorities, Receive(d, p)
    PROVE  IInv'
<1> USE DEF IInv
<1>1. d \notin Held(source) /\ d \notin Held(target) /\ clock \in 0..MaxTime
  BY DEF Receive, FreshUnheld, TypeOK
<1>2. refs \in [Data -> Int] /\ \A r \in Data : refs[r] >= Need(source, r) + Need(target, r)
  BY LiveByNeed DEF TypeOK
<1>3. /\ InOrder(source')
      /\ Held(source') \subseteq Held(source) \cup {d}
  BY <1>1, AddInOrder DEF Receive
<1> DEFINE rc == RefsAfterAdd(refs, source, d)
<1>4. /\ rc \in [Data -> Int]
      /\ \A r \in Data : rc[r] - Need(source', r) >= refs[r] - Need(source, r)
  BY <1>1, <1>2, AddKeepsReferences DEF Receive
<1> HIDE DEF rc
<1>5. /\ InOrder(target')
      /\ Held(target') \subseteq Held(target) \cup {d}
      /\ refs' \in [Data -> Int]
      /\ \A r \in Data : refs'[r] >= Need(source', r) + Need(target', r)
  <2>1. CASE attached
    <3>1. target' = prioqueue_add(target, d, p, clock) /\ refs' = RefsAfterAdd(rc, target, d)
      BY <2>1 DEF Receive, rc
    <3>2. InOrder(target') /\ Held(target') \subseteq Held(target) \cup {d}
      BY <1>1, <3>1, AddInOrder
    <3>3. /\ refs' \in [Data -> Int]
          /\ \A r \in Data : refs'[r] - Need(target', r) >= rc[r] - Need(target, r)
      BY <1>1, <1>4, <3>1, AddKeepsReferences
    <3>4. ASSUME NEW r \in Data PROVE refs'[r] >= Need(source', r) + Need(target', r)
      <4>1. refs'[r] \in Int /\ rc[r] \in Int /\ refs[r] \in Int
        BY <1>2, <1>4, <3>3
      <4>2. /\ Need(source, r) \in Int /\ Need(target, r) \in Int
            /\ Need(source', r) \in Int /\ Need(target', r) \in Int
        BY DEF Need
      <4> QED BY <4>1, <4>2, <1>2, <1>4, <3>3
    <3> QED BY <3>2, <3>3, <3>4
  <2>2. CASE ~attached
    <3>1. target' = target /\ refs' = rc
      BY <2>2 DEF Receive, rc
    <3>2. ASSUME NEW r \in Data PROVE refs'[r] >= Need(source', r) + Need(target', r)
      <4>1. rc[r] \in Int /\ refs[r] \in Int
        BY <1>2, <1>4
      <4>2. /\ Need(source, r) \in Int /\ Need(target, r) \in Int
            /\ Need(source', r) \in Int
        BY DEF Need
      <4> QED BY <4>1, <4>2, <1>2, <1>4, <3>1
    <3> QED BY <1>4, <3>1, <3>2
  <2> QED BY <2>1, <2>2
<1>6. refs' \in [Data -> Nat]
  BY <1>5, LiveCounts
<1>7. TypeOK'
  BY <1>3, <1>5, <1>6 DEF TypeOK, InOrder, Receive
<1>8. CloneInOrder'
  BY DEF CloneInOrder, Receive
<1>9. FreshUnheld'
  BY <1>3, <1>5 DEF FreshUnheld, Receive
<1>10. QueuedRecordsLive'
  BY <1>5 DEF QueuedRecordsLive, Need
<1> QED BY <1>3, <1>5, <1>7, <1>8, <1>9, <1>10

LEMMA StartCloneInv == IInv /\ StartClone => IInv'
<1> SUFFICES ASSUME IInv, StartClone PROVE IInv'
  OBVIOUS
<1> USE DEF IInv, StartClone
<1>1. InOrder(target') /\ Held(target') = {}
  BY EmptyInOrder
<1>2. InOrder(source') /\ Held(source') = Held(source)
  OBVIOUS
<1>3. TypeOK'
  BY <1>1 DEF TypeOK, InOrder, Queue
<1>4. CloneInOrder'
  BY <1>1 DEF CloneInOrder
<1>5. FreshUnheld'
  BY <1>1, <1>2 DEF FreshUnheld
<1>6. QueuedRecordsLive'
  <2> SUFFICES ASSUME NEW r \in Data
               PROVE  refs'[r] >= (IF r \in Held(source') THEN 1 ELSE 0)
                                    + (IF r \in Held(target') THEN 1 ELSE 0)
    BY DEF QueuedRecordsLive
  <2>1. refs[r] \in Nat /\ refs'[r] = refs[r]
    BY DEF TypeOK
  <2>2. refs[r] >= (IF r \in Held(source) THEN 1 ELSE 0)
                     + (IF r \in Held(target) THEN 1 ELSE 0)
    BY DEF QueuedRecordsLive
  <2> QED BY <1>1, <1>2, <2>1, <2>2
<1> QED BY <1>1, <1>2, <1>3, <1>4, <1>5, <1>6

LEMMA CloneStepInv == IInv /\ CloneStep => IInv'
<1> SUFFICES ASSUME IInv, CloneStep PROVE IInv'
  OBVIOUS
<1> USE DEF IInv
<1>1. PICK e \in uncopied :
         /\ refs' = RefsAfterAdd(refs, target, e.data)
         /\ target' = prioqueue_add(target, e.data, e.priority, clock)
         /\ uncopied' = uncopied \ {e}
  <2>1. uncopied \subseteq Element /\ uncopied # {}
        /\ \A x, o \in uncopied : SameKey(x, o) => x = o
    BY DEF CloneStep, CloneInOrder, InOrder, KeysUnique, TypeOK
  <2>2. LowestOf(uncopied) \in uncopied
    BY <2>1, LowestInTree
  <2> QED BY <2>2 DEF CloneStep
<1>2. /\ e.data \in Data /\ e.priority \in Priorities /\ clock \in 0..MaxTime
      /\ e.data \notin Held(target) /\ e.data \in Held(source)
  BY DEF TypeOK, CloneInOrder, Element, Held
<1>3. UNCHANGED <<clock, source, attached, fresh>>
  BY DEF CloneStep
<1>4. /\ InOrder(target')
      /\ Held(target') \subseteq Held(target) \cup {e.data}
  BY <1>1, <1>2, AddInOrder
<1>5. refs \in [Data -> Int] /\ \A r \in Data : refs[r] >= Need(source, r) + Need(target, r)
  BY LiveByNeed DEF TypeOK
<1>6. /\ refs' \in [Data -> Int]
      /\ \A r \in Data : refs'[r] - Need(target', r) >= refs[r] - Need(target, r)
  BY <1>1, <1>2, <1>5, AddKeepsReferences
<1>7. ASSUME NEW r \in Data PROVE refs'[r] >= Need(source', r) + Need(target', r)
  <2>1. refs'[r] \in Int /\ refs[r] \in Int /\ Need(source', r) = Need(source, r)
    BY <1>3, <1>5, <1>6 DEF Need
  <2>2. Need(source, r) \in Int /\ Need(target, r) \in Int /\ Need(target', r) \in Int
    BY DEF Need
  <2> QED BY <2>1, <2>2, <1>5, <1>6
<1>8. refs' \in [Data -> Nat]
  BY <1>6, <1>7, LiveCounts
<1>9. TypeOK'
  BY <1>1, <1>3, <1>4, <1>8 DEF TypeOK, InOrder
<1>10. CloneInOrder'
  <2>1. attached
    BY <1>1 DEF CloneInOrder
  <2>2. ASSUME NEW o \in uncopied \ {e} PROVE o.data \notin Held(target')
    <3>1. o.data # e.data
      BY DEF CloneInOrder, InOrder, NoDuplicates
    <3> QED BY <3>1, <1>4 DEF CloneInOrder
  <2> QED BY <1>1, <1>3, <2>1, <2>2 DEF CloneInOrder
<1>11. FreshUnheld'
  BY <1>2, <1>3, <1>4 DEF FreshUnheld
<1>12. QueuedRecordsLive'
  BY <1>7 DEF QueuedRecordsLive, Need
<1>13. InOrder(source')
  BY <1>3
<1> QED BY <1>4, <1>9, <1>10, <1>11, <1>12, <1>13

LEMMA PopTargetInv == IInv /\ PopTarget => IInv'
<1> SUFFICES ASSUME IInv, PopTarget PROVE IInv'
  OBVIOUS
<1> USE DEF IInv
<1>1. PICK h \in target.tree :
         /\ refs' = [refs EXCEPT ![h.data] = @ - 1]
         /\ target' = [tree |-> target.tree \ {h}, size |-> target.size - 1]
  <2>1. HighestOf(target.tree) \in target.tree
    BY HighestInTree DEF PopTarget, InOrder, Queue, KeysUnique
  <2> QED BY <2>1 DEF PopTarget, prioqueue_pop_high
<1>2. UNCHANGED <<clock, source, attached, uncopied, fresh>> /\ uncopied = {}
  BY DEF PopTarget
<1>3. InOrder(target') /\ Held(target') = Held(target) \ {h.data}
  BY <1>1, RemovalInOrder
<1>4. h.data \in Data /\ h.data \in Held(target)
  BY DEF InOrder, Queue, Element, Held
<1>5. ASSUME NEW r \in Data PROVE refs'[r] \in Int /\ refs'[r] >= Need(source', r) + Need(target', r)
  <2>1. refs[r] \in Int /\ refs[r] >= Need(source, r) + Need(target, r)
    BY LiveByNeed DEF TypeOK
  <2>2. refs'[r] = IF r = h.data THEN refs[r] - 1 ELSE refs[r]
    BY <1>1 DEF TypeOK
  <2> QED BY <1>2, <1>3, <1>4, <2>1, <2>2 DEF Need
<1>6. refs' \in [Data -> Int]
  BY <1>1, <1>5 DEF TypeOK
<1>7. refs' \in [Data -> Nat]
  BY <1>5, <1>6, LiveCounts
<1>8. TypeOK'
  BY <1>2, <1>3, <1>7 DEF TypeOK, InOrder
<1>9. CloneInOrder'
  BY <1>1, <1>2 DEF CloneInOrder
<1>10. FreshUnheld'
  BY <1>2, <1>3 DEF FreshUnheld
<1>11. QueuedRecordsLive'
  BY <1>5 DEF QueuedRecordsLive, Need
<1>12. InOrder(source')
  BY <1>2
<1> QED BY <1>3, <1>8, <1>9, <1>10, <1>11, <1>12

LEMMA DetachInv == IInv /\ Detach => IInv'
<1> SUFFICES ASSUME IInv, Detach PROVE IInv'
  OBVIOUS
<1> USE DEF IInv
<1>1. /\ UNCHANGED <<clock, source, uncopied, fresh>> /\ uncopied = {} /\ ~attached'
      /\ target' = EmptyTree
      /\ refs' = [d \in Data |-> refs[d] - (IF d \in Held(target) THEN 1 ELSE 0)]
  BY DEF Detach, TypeOK
<1>2. InOrder(target') /\ Held(target') = {} /\ target'.tree = {}
  BY <1>1, EmptyInOrder DEF EmptyTree
<1>3. ASSUME NEW r \in Data PROVE refs'[r] \in Int /\ refs'[r] >= Need(source', r) + Need(target', r)
  <2>1. refs[r] \in Int /\ refs[r] >= Need(source, r) + Need(target, r)
    BY LiveByNeed DEF TypeOK
  <2>2. refs'[r] = refs[r] - Need(target, r)
    BY <1>1 DEF Need
  <2> QED BY <1>1, <1>2, <2>1, <2>2 DEF Need
<1>4. refs' \in [Data -> Nat]
  <2>1. refs' \in [Data -> Int]
    BY <1>1, <1>3
  <2> QED BY <2>1, <1>3, LiveCounts
<1>5. TypeOK'
  BY <1>1, <1>2, <1>4 DEF TypeOK, InOrder, Detach
<1>6. CloneInOrder'
  BY <1>1, <1>2 DEF CloneInOrder
<1>7. FreshUnheld'
  BY <1>1, <1>2 DEF FreshUnheld
<1>8. QueuedRecordsLive'
  BY <1>3 DEF QueuedRecordsLive, Need
<1>9. InOrder(source')
  BY <1>1
<1> QED BY <1>2, <1>5, <1>6, <1>7, <1>8, <1>9

\* Nothing but the clock moves, or nothing at all.
LEMMA QuietInv ==
    ASSUME IInv, clock' \in 0..MaxTime,
           UNCHANGED <<source, target, attached, uncopied, refs, fresh>>
    PROVE  IInv'
BY DEF IInv, TypeOK, CloneInOrder, FreshUnheld, QueuedRecordsLive, InOrder, Held,
       CountedWithin, NoDuplicates, KeysUnique

\* Every reachable state satisfies the invariant.
THEOREM Invariance == Spec => []IInv
<1>1. IInv /\ [Next]_vars => IInv'
  <2> SUFFICES ASSUME IInv, [Next]_vars PROVE IInv'
    OBVIOUS
  <2>1. CASE \E d \in Data, p \in Priorities : Receive(d, p)
    BY <2>1, ReceiveInv
  <2>2. CASE StartClone
    BY <2>2, StartCloneInv
  <2>3. CASE CloneStep
    BY <2>3, CloneStepInv
  <2>4. CASE PopTarget
    BY <2>4, PopTargetInv
  <2>5. CASE Detach
    BY <2>5, DetachInv
  <2>6. CASE Tick
    <3>1. clock' \in 0..MaxTime
      BY <2>6, TimeAssumption DEF Tick, IInv, TypeOK
    <3> QED BY <2>6, <3>1, QuietInv DEF Tick
  <2>7. CASE UNCHANGED vars
    BY <2>7, QuietInv DEF vars, IInv, TypeOK
  <2> QED BY <2>1, <2>2, <2>3, <2>4, <2>5, <2>6, <2>7 DEF Next
<1> QED BY InitInv, <1>1, PTL DEF Spec

-----------------------------------------------------------------------------
(* The theorems.                                                           *)

\* Types and counts: in particular no reference count drops below zero, however records
\* are received, cloned, evicted, tied, sent and released.
THEOREM TypeCorrect == Spec => []TypeOK
<1>1. IInv => TypeOK
  BY DEF IInv
<1> QED BY Invariance, <1>1, PTL

\* prioqueue_add never removes the first node of an empty tree (prioqueue.c:110-111),
\* although the counter that says "full" counts elements the tree has refused.
THEOREM EvictionSafe == Spec => []NoNullEviction
<1>1. IInv => NoNullEviction
  BY FullHasElement DEF IInv, NoNullEviction
<1> QED BY Invariance, <1>1, PTL

\* A record in archd's telemetry queue or in a client's is not freed under either.
THEOREM QueuedRecordsStayLive == Spec => []QueuedRecordsLive
<1>1. IInv => QueuedRecordsLive
  BY DEF IInv
<1> QED BY Invariance, <1>1, PTL

-----------------------------------------------------------------------------
(* The order of a tree.                                                    *)

Fifo == INSTANCE FifoQueue

\* s lists the elements of a tree as prioqueue_pop_high would hand them out.
Sorted(s, tree) ==
    /\ s \in [1..Cardinality(tree) -> tree]
    /\ \A i, j \in 1..Cardinality(tree) : i < j => Precedes(s[j], s[i])

LEMMA PrecedesOrders ==
    \A a, b \in Element : Precedes(a, b) => ~Precedes(b, a) /\ a # b
<1> SUFFICES ASSUME NEW a \in Element, NEW b \in Element, Precedes(a, b)
             PROVE  ~Precedes(b, a) /\ a # b
  OBVIOUS
<1>1. {a.priority, b.priority, a.time, b.time} \subseteq Int
  BY PriorityAssumption, TimeAssumption DEF Element, Priorities
<1> QED BY <1>1 DEF Precedes

\* A sorted list has every element, once.
LEMMA SortedHasAll ==
    ASSUME NEW tree \in SUBSET Element, IsFiniteSet(tree), NEW s, Sorted(s, tree)
    PROVE  /\ Cardinality(tree) \in Nat
           /\ \A i, j \in 1..Cardinality(tree) : s[i] = s[j] => i = j
           /\ \A e \in tree : \E i \in 1..Cardinality(tree) : e = s[i]
<1>1. PICK n : n = Cardinality(tree)
  OBVIOUS
<1>2. n \in Nat
  BY <1>1, FS_CardinalityType
<1>3. s \in [1..n -> tree] /\ \A i, j \in 1..n : i < j => Precedes(s[j], s[i])
  BY <1>1 DEF Sorted
<1>4. \A i, j \in 1..n : s[i] = s[j] => i = j
  <2> SUFFICES ASSUME NEW i \in 1..n, NEW j \in 1..n, s[i] = s[j], i < j PROVE FALSE
    BY <1>2
  <2>1. Precedes(s[j], s[i]) /\ s[i] \in Element /\ s[j] \in Element
    BY <1>3
  <2> QED BY <2>1, PrecedesOrders
<1>5. s \in Injection(1..n, tree)
  BY <1>3, <1>4 DEF Injection, IsInjective
<1>6. Cardinality(1..n) = n
  BY <1>2, FS_Interval
<1>7. s \in Surjection(1..n, tree)
  BY <1>1, <1>5, <1>6, FS_Injection
<1>8. \A e \in tree : \E i \in 1..n : e = s[i]
  BY <1>7 DEF Surjection
<1> QED BY <1>1, <1>2, <1>4, <1>8

\* There is one order: where two lists differed first, each would have the other's element
\* still to come.
LEMMA SortedOnce ==
    ASSUME NEW tree \in SUBSET Element, IsFiniteSet(tree),
           NEW s, Sorted(s, tree), NEW t, Sorted(t, tree)
    PROVE  s = t
<1>1. PICK n : n = Cardinality(tree)
  OBVIOUS
<1>2. n \in Nat /\ \A e \in tree : \E i, j \in 1..n : e = s[i] /\ e = t[j]
  BY <1>1, SortedHasAll
<1>3. /\ s \in [1..n -> tree] /\ \A i, j \in 1..n : i < j => Precedes(s[j], s[i])
      /\ t \in [1..n -> tree] /\ \A i, j \in 1..n : i < j => Precedes(t[j], t[i])
  BY <1>1 DEF Sorted
<1>4. \A i, j \in 1..n : (s[i] = s[j] => i = j) /\ (t[i] = t[j] => i = j)
  BY <1>1, SortedHasAll
<1> DEFINE D == {i \in 1..n : s[i] # t[i]}
<1>5. CASE D = {}
  <2>1. \A i \in 1..n : s[i] = t[i]
    BY <1>5
  <2>2. s = [i \in 1..n |-> s[i]] /\ t = [i \in 1..n |-> t[i]]
    BY <1>3
  <2>3. [i \in 1..n |-> s[i]] = [i \in 1..n |-> t[i]]
    BY <2>1
  <2> QED BY <2>2, <2>3, Zenon
<1>6. CASE D # {}
  <2>1. PICK i \in D : \A j \in D : i <= j
    <3>1. D \subseteq Nat
      BY <1>2
    <3> QED BY <1>6, <3>1, NatHasLeast
  <2>2. i \in 1..n /\ s[i] # t[i] /\ \A j \in 1..n : j < i => s[j] = t[j]
    BY <1>2, <2>1
  <2>3. s[i] \in tree /\ t[i] \in tree
    BY <1>3, <2>2
  <2>4. PICK j \in 1..n : s[i] = t[j]
    BY <1>2, <2>3
  <2>5. PICK k \in 1..n : t[i] = s[k]
    BY <1>2, <2>3
  <2>6. i < j
    <3>1. j # i
      BY <2>2, <2>4
    <3>2. ~(j < i)
      <4> SUFFICES ASSUME j < i PROVE FALSE
        OBVIOUS
      <4>1. s[j] = s[i]
        BY <2>2, <2>4
      <4> QED BY <1>4, <2>2, <3>1, <4>1
    <3> QED BY <1>2, <2>2, <3>1, <3>2
  <2>7. i < k
    <3>1. k # i
      BY <2>2, <2>5
    <3>2. ~(k < i)
      <4> SUFFICES ASSUME k < i PROVE FALSE
        OBVIOUS
      <4>1. t[k] = t[i]
        BY <2>2, <2>5
      <4> QED BY <1>4, <2>2, <3>1, <4>1
    <3> QED BY <1>2, <2>2, <3>1, <3>2
  <2>8. Precedes(t[j], t[i]) /\ Precedes(s[k], s[i])
    BY <1>3, <2>2, <2>6, <2>7
  <2>9. Precedes(s[i], t[i]) /\ Precedes(t[i], s[i]) /\ s[i] \in Element /\ t[i] \in Element
    BY <2>3, <2>4, <2>5, <2>8
  <2> QED BY <2>9, PrecedesOrders
<1> QED BY <1>5, <1>6

LEMMA SortedPops ==
    ASSUME NEW q, q.tree \in SUBSET Element, IsFiniteSet(q.tree), NEW s, Sorted(s, q.tree)
    PROVE  PopOrder(q) = [i \in 1..Cardinality(q.tree) |-> s[i].data]
<1> DEFINE n == Cardinality(q.tree)
           order == CHOOSE t \in [1..n -> q.tree] :
                       \A i, j \in 1..n : i < j => Precedes(t[j], t[i])
<1>1. Sorted(order, q.tree)
  BY DEF Sorted
<1>2. order = s
  BY <1>1, SortedOnce
<1>3. PopOrder(q) = [i \in 1..n |-> order[i].data]
  BY DEF PopOrder
<1> HIDE DEF order
<1> QED BY <1>2, <1>3

\* The ends of a sorted list are the ends of the tree.
LEMMA SortedEnds ==
    ASSUME NEW tree \in SUBSET Element, IsFiniteSet(tree), tree # {}, NEW s, Sorted(s, tree)
    PROVE  /\ Cardinality(tree) > 0
           /\ s[Cardinality(tree)] = LowestOf(tree) /\ s[1] = HighestOf(tree)
<1>1. PICK n : n = Cardinality(tree)
  OBVIOUS
<1>2. n \in Nat /\ \A e \in tree : \E i \in 1..n : e = s[i]
  BY <1>1, SortedHasAll
<1>3. s \in [1..n -> tree] /\ \A i, j \in 1..n : i < j => Precedes(s[j], s[i])
  BY <1>1 DEF Sorted
<1>4. n > 0
  BY <1>2
<1>5. s[n] \in tree /\ s[1] \in tree
  BY <1>2, <1>3, <1>4
<1>6. \A o \in tree \ {s[n]} : Precedes(s[n], o)
  <2> SUFFICES ASSUME NEW o \in tree \ {s[n]} PROVE Precedes(s[n], o)
    OBVIOUS
  <2>1. PICK i \in 1..n : o = s[i]
    BY <1>2
  <2>2. i < n
    BY <1>2, <2>1
  <2> QED BY <1>2, <1>3, <1>4, <2>1, <2>2
<1>7. \A o \in tree \ {s[1]} : Precedes(o, s[1])
  <2> SUFFICES ASSUME NEW o \in tree \ {s[1]} PROVE Precedes(o, s[1])
    OBVIOUS
  <2>1. PICK i \in 1..n : o = s[i]
    BY <1>2
  <2>2. 1 < i
    BY <1>2, <2>1
  <2> QED BY <1>2, <1>3, <1>4, <2>1, <2>2
<1>8. LowestOf(tree) = s[n]
  <2>1. LowestOf(tree) \in tree /\ \A o \in tree \ {LowestOf(tree)} : Precedes(LowestOf(tree), o)
    BY <1>5, <1>6 DEF LowestOf
  <2> QED BY <1>5, <1>6, <2>1, PrecedesOrders
<1>9. HighestOf(tree) = s[1]
  <2>1. HighestOf(tree) \in tree /\ \A o \in tree \ {HighestOf(tree)} : Precedes(o, HighestOf(tree))
    BY <1>5, <1>7 DEF HighestOf
  <2> QED BY <1>5, <1>7, <2>1, PrecedesOrders
<1> QED BY <1>1, <1>4, <1>8, <1>9

\* What is left of a sorted list without its last element, and without its first.
LEMMA SortedFront ==
    ASSUME NEW tree \in SUBSET Element, IsFiniteSet(tree), tree # {}, NEW s, Sorted(s, tree),
           NEW n, n = Cardinality(tree)
    PROVE  Sorted([i \in 1..(n - 1) |-> s[i]], tree \ {s[n]})
<1>1. n \in Nat /\ \A i, j \in 1..n : s[i] = s[j] => i = j
  BY SortedHasAll
<1>2. s \in [1..n -> tree] /\ \A i, j \in 1..n : i < j => Precedes(s[j], s[i])
  BY DEF Sorted
<1>3. n > 0
  BY SortedEnds
<1>4. Cardinality(tree \ {s[n]}) = n - 1
  <2>1. PICK l : l = s[n]
    OBVIOUS
  <2>2. l \in tree
    BY <1>1, <1>2, <1>3, <2>1
  <2>3. Cardinality(tree \ {l}) = n - 1
    BY <2>2, FS_RemoveElement
  <2> QED BY <2>1, <2>3
<1>5. \A i \in 1..(n - 1) : s[i] \in tree \ {s[n]}
  BY <1>1, <1>2, <1>3
<1>6. \A i, j \in 1..(n - 1) : i < j => Precedes(s[j], s[i])
  BY <1>1, <1>2
<1> QED BY <1>1, <1>4, <1>5, <1>6 DEF Sorted

LEMMA SortedTail ==
    ASSUME NEW tree \in SUBSET Element, IsFiniteSet(tree), tree # {}, NEW s, Sorted(s, tree),
           NEW n, n = Cardinality(tree)
    PROVE  Sorted([i \in 1..(n - 1) |-> s[i + 1]], tree \ {s[1]})
<1>1. n \in Nat /\ \A i, j \in 1..n : s[i] = s[j] => i = j
  BY SortedHasAll
<1>2. s \in [1..n -> tree] /\ \A i, j \in 1..n : i < j => Precedes(s[j], s[i])
  BY DEF Sorted
<1>3. n > 0
  BY SortedEnds
<1>4. Cardinality(tree \ {s[1]}) = n - 1
  <2>1. PICK l : l = s[1]
    OBVIOUS
  <2>2. l \in tree
    BY <1>1, <1>2, <1>3, <2>1
  <2>3. Cardinality(tree \ {l}) = n - 1
    BY <2>2, FS_RemoveElement
  <2> QED BY <2>1, <2>3
<1>5. \A i \in 1..(n - 1) : i + 1 \in 1..n /\ i + 1 # 1
  BY <1>1
<1>6. \A i \in 1..(n - 1) : s[i + 1] \in tree \ {s[1]}
  BY <1>1, <1>2, <1>3, <1>5
<1>7. \A i, j \in 1..(n - 1) : i < j => Precedes(s[j + 1], s[i + 1])
  BY <1>2, <1>5
<1> QED BY <1>1, <1>4, <1>6, <1>7 DEF Sorted

\* An element that precedes all of a tree goes to the end of its list.
LEMMA SortedAppend ==
    ASSUME NEW tree \in SUBSET Element, IsFiniteSet(tree), NEW s, Sorted(s, tree),
           NEW e \in Element, e \notin tree, \A o \in tree : Precedes(e, o),
           NEW n, n = Cardinality(tree)
    PROVE  Sorted([i \in 1..(n + 1) |-> IF i = n + 1 THEN e ELSE s[i]], tree \cup {e})
<1> DEFINE t == [i \in 1..(n + 1) |-> IF i = n + 1 THEN e ELSE s[i]]
<1>1. n \in Nat
  BY SortedHasAll
<1>2. s \in [1..n -> tree] /\ \A i, j \in 1..n : i < j => Precedes(s[j], s[i])
  BY DEF Sorted
<1>3. Cardinality(tree \cup {e}) = n + 1
  BY FS_AddElement
<1>4. t \in [1..(n + 1) -> tree \cup {e}]
  BY <1>1, <1>2
<1>5. ASSUME NEW i \in 1..(n + 1), NEW j \in 1..(n + 1), i < j PROVE Precedes(t[j], t[i])
  <2>1. i \in 1..n /\ t[i] = s[i] /\ s[i] \in tree
    BY <1>1, <1>2, <1>5
  <2>2. CASE j = n + 1
    BY <1>1, <2>1, <2>2
  <2>3. CASE j # n + 1
    BY <1>1, <1>2, <1>5, <2>1, <2>3
  <2> QED BY <2>2, <2>3
<1> QED BY <1>3, <1>4, <1>5 DEF Sorted

-----------------------------------------------------------------------------
(* With one priority in use a queue is a FIFO.                             *)

\* The queue seen as a sequence: what its list holds, in that order.
Listed(q) == \E s : Sorted(s, q.tree)

\* The records of a list of n elements.
DataOf(s, n) == [i \in 1..n |-> s[i].data]

LEMMA ViewOfSorted ==
    ASSUME NEW q, InOrder(q), NEW tree, tree = q.tree, NEW s, Sorted(s, tree),
           NEW n, n = Cardinality(tree), NEW v, v = DataOf(s, n)
    PROVE  /\ View(q) = [items |-> v, size |-> q.size] /\ v \in Seq(Data) /\ Len(v) = n /\ n \in Nat
           /\ tree \in SUBSET Element /\ IsFiniteSet(tree)
<1>1. tree \in SUBSET Element /\ IsFiniteSet(tree)
  BY DEF InOrder, Queue
<1>2. n \in Nat
  BY <1>1, FS_CardinalityType
<1>3. \A i \in 1..n : s[i].data \in Data
  BY <1>1 DEF Sorted, Element
<1>4. PopOrder(q) = v
  BY <1>1, SortedPops DEF DataOf
<1>5. v \in [1..n -> Data]
  BY <1>3 DEF DataOf
<1>6. v \in Seq(Data) /\ Len(v) = n
  BY <1>2, <1>5, SeqDef
<1> QED BY <1>1, <1>2, <1>4, <1>6 DEF View

LEMMA EmptyView == View(EmptyTree) = Fifo!EmptyQueue /\ Listed(EmptyTree)
<1>1. EmptyTree.tree = {} /\ EmptyTree.size = 0 /\ Cardinality({}) = 0
  BY FS_EmptySet DEF EmptyTree
<1>2. Sorted(<<>>, {})
  <2>1. <<>> \in [1..0 -> {}]
    OBVIOUS
  <2> QED BY <1>1, <2>1 DEF Sorted
<1>3. PICK q, v : q = EmptyTree /\ v = DataOf(<<>>, 0)
  OBVIOUS
<1>4. PICK tree, s, n : tree = q.tree /\ s = <<>> /\ n = 0
  OBVIOUS
<1>5. InOrder(q)
  BY <1>3, EmptyInOrder
<1>6. q.size = 0 /\ tree = {}
  BY <1>1, <1>3, <1>4
<1>7. View(q) = [items |-> v, size |-> q.size]
  <2>1. tree = q.tree
    BY <1>4
  <2>2. Sorted(s, tree)
    BY <1>2, <1>4, <1>6
  <2>3. n = Cardinality(tree)
    BY <1>1, <1>4, <1>6
  <2>4. v = DataOf(s, n)
    BY <1>3, <1>4
  <2> QED BY <1>5, <2>1, <2>2, <2>3, <2>4, ViewOfSorted
<1>8. v = <<>>
  BY <1>3 DEF DataOf
<1>9. View(q) = Fifo!EmptyQueue
  BY <1>6, <1>7, <1>8 DEF Fifo!EmptyQueue
<1>10. Listed(q)
  BY <1>2, <1>4, <1>6 DEF Listed
<1> QED BY <1>3, <1>9, <1>10

\* MakeRoom takes the newest element away.
LEMMA RoomView ==
    ASSUME NEW q, InOrder(q), Listed(q)
    PROVE  /\ View(MakeRoom(q)) = Fifo!MadeRoom(View(q), Capacity)
           /\ Listed(MakeRoom(q))
<1>1. PICK tree, z : tree = q.tree /\ z = q.size
  OBVIOUS
<1>2. PICK s : Sorted(s, tree)
  BY <1>1 DEF Listed
<1>3. PICK n : n = Cardinality(tree)
  OBVIOUS
<1>4. PICK v : v = DataOf(s, n)
  OBVIOUS
<1>5. /\ View(q) = [items |-> v, size |-> z] /\ v \in Seq(Data) /\ Len(v) = n /\ n \in Nat
      /\ tree \in SUBSET Element /\ IsFiniteSet(tree)
  BY <1>1, <1>2, <1>3, <1>4, ViewOfSorted
<1>6. View(q).items = v /\ View(q).size = z
  BY <1>5
<1>7. CASE ~(Capacity > 0 /\ z >= Capacity)
  <2>1. MakeRoom(q) = q
    BY <1>1, <1>7 DEF MakeRoom
  <2>2. Fifo!MadeRoom(View(q), Capacity) = View(q)
    BY <1>6, <1>7 DEF Fifo!MadeRoom, Fifo!MustEvict
  <2> QED BY <2>1, <2>2
<1>8. CASE Capacity > 0 /\ z >= Capacity
  <2>1. tree # {}
    BY <1>1, <1>8, FullHasElement
  <2>2. PICK l : l = s[n]
    OBVIOUS
  <2>3. n > 0 /\ l = LowestOf(tree)
    BY <1>2, <1>3, <1>5, <2>1, <2>2, SortedEnds
  <2>4. l \in tree
    <3>1. s \in [1..n -> tree]
      BY <1>2, <1>3 DEF Sorted
    <3>2. n \in 1..n
      BY <1>5, <2>3
    <3> QED BY <2>2, <3>1, <3>2
  <2>5. PICK rest : rest = tree \ {l}
    OBVIOUS
  <2>6. PICK t : t = [i \in 1..(n - 1) |-> s[i]]
    OBVIOUS
  <2>7. Sorted(t, rest)
    BY <1>2, <1>3, <1>5, <2>1, <2>2, <2>5, <2>6, SortedFront
  <2>8. n - 1 = Cardinality(rest)
    BY <1>3, <1>5, <2>4, <2>5, FS_RemoveElement
  <2>9. PICK m : m = MakeRoom(q)
    OBVIOUS
  <2>10. m.tree = rest /\ m.size = z - 1
    BY <1>1, <1>8, <2>3, <2>5, <2>9 DEF MakeRoom
  <2>11. InOrder(m)
    BY <2>9, RoomMade
  <2>12. PICK k, w : k = n - 1 /\ w = DataOf(t, k)
    OBVIOUS
  <2>13. View(m) = [items |-> w, size |-> m.size]
    BY <2>7, <2>8, <2>10, <2>11, <2>12, ViewOfSorted
  <2>14. SubSeq(v, 1, n - 1) = w
    BY <1>4, <1>5, <2>3, <2>6, <2>12 DEF DataOf
  <2>15. Fifo!MadeRoom(View(q), Capacity) = [items |-> w, size |-> z - 1]
    BY <1>5, <1>6, <1>8, <2>14 DEF Fifo!MadeRoom, Fifo!MustEvict, Fifo!EvictNewest
  <2> QED BY <2>7, <2>9, <2>10, <2>13, <2>15 DEF Listed
<1> QED BY <1>7, <1>8

\* prioqueue_pop_high takes the oldest.
LEMMA PopView ==
    ASSUME NEW q, InOrder(q), Listed(q), q.tree # {}
    PROVE  /\ View(q).items # <<>>
           /\ View(prioqueue_pop_high(q)) = Fifo!Taken(View(q))
           /\ Listed(prioqueue_pop_high(q))
<1>1. PICK tree, z : tree = q.tree /\ z = q.size
  OBVIOUS
<1>2. PICK s : Sorted(s, tree)
  BY <1>1 DEF Listed
<1>3. PICK n : n = Cardinality(tree)
  OBVIOUS
<1>4. PICK v : v = DataOf(s, n)
  OBVIOUS
<1>5. /\ View(q) = [items |-> v, size |-> z] /\ v \in Seq(Data) /\ Len(v) = n /\ n \in Nat
      /\ tree \in SUBSET Element /\ IsFiniteSet(tree)
  BY <1>1, <1>2, <1>3, <1>4, ViewOfSorted
<1>6. PICK h : h = s[1]
  OBVIOUS
<1>7. n > 0 /\ h = HighestOf(tree)
  BY <1>1, <1>2, <1>3, <1>5, <1>6, SortedEnds
<1>8. h \in tree
  <2>1. s \in [1..n -> tree]
    BY <1>2, <1>3 DEF Sorted
  <2>2. 1 \in 1..n
    BY <1>5, <1>7
  <2> QED BY <1>6, <2>1, <2>2
<1>9. PICK rest : rest = tree \ {h}
  OBVIOUS
<1>10. PICK t : t = [i \in 1..(n - 1) |-> s[i + 1]]
  OBVIOUS
<1>11. Sorted(t, rest)
  BY <1>1, <1>2, <1>3, <1>5, <1>6, <1>9, <1>10, SortedTail
<1>12. n - 1 = Cardinality(rest)
  BY <1>3, <1>5, <1>8, <1>9, FS_RemoveElement
<1>13. PICK m : m = prioqueue_pop_high(q)
  OBVIOUS
<1>14. m.tree = rest /\ m.size = z - 1
  BY <1>1, <1>7, <1>9, <1>13 DEF prioqueue_pop_high
<1>15. InOrder(m)
  <2>1. m = [tree |-> q.tree \ {h}, size |-> q.size - 1]
    BY <1>1, <1>7, <1>13 DEF prioqueue_pop_high
  <2> QED BY <1>1, <1>8, <2>1, RemovalInOrder
<1>16. PICK w : w = DataOf(t, n - 1)
  OBVIOUS
<1>17. View(m) = [items |-> w, size |-> m.size]
  BY <1>11, <1>12, <1>14, <1>15, <1>16, ViewOfSorted
<1>18. Tail(v) = w
  BY <1>4, <1>5, <1>7, <1>10, <1>16 DEF DataOf
<1>19. Fifo!Taken(View(q)) = [items |-> w, size |-> z - 1]
  <2>1. View(q).items = v /\ View(q).size = z
    BY <1>5
  <2> QED BY <1>18, <2>1 DEF Fifo!Taken
<1>20. View(q).items # <<>>
  BY <1>5, <1>7
<1> QED BY <1>11, <1>13, <1>14, <1>17, <1>19, <1>20 DEF Listed

LEMMA SortedView ==
    \A q, tree, s, n, v :
        InOrder(q) /\ tree = q.tree /\ Sorted(s, tree) /\ n = Cardinality(tree) /\ v = DataOf(s, n)
            => View(q) = [items |-> v, size |-> q.size]
<1> SUFFICES ASSUME NEW q, NEW tree, NEW s, NEW n, NEW v, InOrder(q), tree = q.tree,
                    Sorted(s, tree), n = Cardinality(tree), v = DataOf(s, n)
             PROVE  View(q) = [items |-> v, size |-> q.size]
  OBVIOUS
<1> QED BY ViewOfSorted

\* The list with one more element.
LEMMA AppendAsFunction ==
    ASSUME NEW S, NEW v \in Seq(S), NEW d
    PROVE  Append(v, d) = [i \in 1..(Len(v) + 1) |-> IF i = Len(v) + 1 THEN d ELSE v[i]]
<1>1. PICK T, a, k : T = S \cup {d} /\ a = Append(v, d) /\ k = Len(v) + 1
  OBVIOUS
<1>2. v \in Seq(T) /\ d \in T
  BY <1>1
<1>3. /\ a \in Seq(T) /\ Len(a) = k
      /\ \A i \in 1..Len(v) : a[i] = v[i]
      /\ a[k] = d
  BY <1>1, <1>2, AppendProperties
<1>4. a = [i \in 1..k |-> a[i]]
  <2>1. a \in [1..Len(a) -> T]
    BY <1>3, LenProperties
  <2> QED BY <1>3, <2>1
<1>5. \A i \in 1..k : a[i] = IF i = k THEN d ELSE v[i]
  BY <1>1, <1>3
<1>6. [i \in 1..k |-> a[i]] = [i \in 1..k |-> IF i = k THEN d ELSE v[i]]
  BY <1>5
<1> QED BY <1>1, <1>4, <1>6

\* avltree_insert puts a new element behind the others or refuses it.
LEMMA InsertView ==
    ASSUME NEW q, InOrder(q), Listed(q), NEW e \in Element, e.priority = 0,
           \A o \in q.tree : o.priority = 0 /\ o.time <= e.time, InOrder(Insert(q, e))
    PROVE  /\ Listed(Insert(q, e))
           /\ \/ View(Insert(q, e)) = [items |-> Append(View(q).items, e.data),
                                       size |-> View(q).size + 1]
              \/ /\ View(q).items # <<>>
                 /\ View(Insert(q, e)) = [items |-> View(q).items, size |-> View(q).size + 1]
<1>1. PICK tree, z : tree = q.tree /\ z = q.size
  OBVIOUS
<1>2. PICK s : Sorted(s, tree)
  BY <1>1 DEF Listed
<1>3. PICK n : n = Cardinality(tree)
  OBVIOUS
<1>4. PICK v : v = DataOf(s, n)
  OBVIOUS
<1>5. /\ View(q) = [items |-> v, size |-> z] /\ v \in Seq(Data) /\ Len(v) = n /\ n \in Nat
      /\ tree \in SUBSET Element /\ IsFiniteSet(tree)
  BY <1>1, <1>2, <1>3, <1>4, ViewOfSorted
<1>6. View(q).items = v /\ View(q).size = z
  BY <1>5
<1>7. PICK m : m = Insert(q, e)
  OBVIOUS
<1>8. InOrder(m) /\ m.size = z + 1
  BY <1>1, <1>7 DEF Insert
<1>9. CASE \E o \in tree : SameKey(o, e)
  <2>1. m.tree = tree
    BY <1>1, <1>7, <1>9 DEF Insert
  <2>2. View(m) = [items |-> v, size |-> m.size]
    <3>1. InOrder(m)
      BY <1>8
    <3>2. tree = m.tree
      BY <2>1
    <3> QED BY <1>2, <1>3, <1>4, <3>1, <3>2, SortedView, Zenon
  <2>3. v # <<>>
    <3>1. n # 0
      BY <1>3, <1>5, <1>9, FS_EmptySet
    <3> QED BY <1>5, <3>1
  <2> QED BY <1>2, <1>6, <1>7, <1>8, <2>1, <2>2, <2>3 DEF Listed
<1>10. CASE ~\E o \in tree : SameKey(o, e)
  <2>1. PICK more : more = tree \cup {e}
    OBVIOUS
  <2>2. m.tree = more
    BY <1>1, <1>7, <1>10, <2>1 DEF Insert
  <2>3. e \notin tree
    BY <1>10 DEF SameKey
  <2>4. \A o \in tree : Precedes(e, o)
    <3> SUFFICES ASSUME NEW o \in tree PROVE Precedes(e, o)
      OBVIOUS
    <3>1. o.priority = 0 /\ o.time <= e.time /\ o.time # e.time
      BY <1>1, <1>10 DEF SameKey
    <3>2. o.time \in Int /\ e.time \in Int
      BY <1>5, TimeAssumption DEF Element
    <3> QED BY <3>1, <3>2 DEF Precedes
  <2>5. PICK t : t = [i \in 1..(n + 1) |-> IF i = n + 1 THEN e ELSE s[i]]
    OBVIOUS
  <2>6. Sorted(t, more)
    BY <1>2, <1>3, <1>5, <2>1, <2>3, <2>4, <2>5, SortedAppend
  <2>7. PICK k : k = n + 1
    OBVIOUS
  <2>8. k = Cardinality(more)
    BY <1>3, <1>5, <2>1, <2>3, <2>7, FS_AddElement
  <2>9. PICK w : w = DataOf(t, k)
    OBVIOUS
  <2>10. View(m) = [items |-> w, size |-> m.size]
    <3>1. InOrder(m)
      BY <1>8
    <3>2. more = m.tree
      BY <2>2
    <3> QED BY <2>6, <2>8, <2>9, <3>1, <3>2, SortedView, Zenon
  <2>11. PICK d : d = e.data
    OBVIOUS
  <2>12. Append(v, d) = w
    <3>1. w = [i \in 1..(n + 1) |-> IF i = n + 1 THEN d ELSE s[i].data]
      BY <1>5, <2>5, <2>7, <2>9, <2>11 DEF DataOf
    <3>2. \A i \in 1..n : v[i] = s[i].data
      BY <1>4 DEF DataOf
    <3>3. Append(v, d) = [i \in 1..(n + 1) |-> IF i = n + 1 THEN d ELSE v[i]]
      <4>1. Len(v) = n /\ v \in Seq(Data)
        BY <1>5
      <4> QED BY <4>1, AppendAsFunction
    <3>4. \A i \in 1..(n + 1) : i # n + 1 => v[i] = s[i].data
      BY <1>5, <3>2
    <3> QED BY <3>1, <3>3, <3>4
  <2> QED BY <1>6, <1>7, <1>8, <2>2, <2>6, <2>10, <2>11, <2>12 DEF Listed
<1> QED BY <1>9, <1>10

\* prioqueue_add is an Enqueue, or a loss beside an element that stays.
LEMMA AddView ==
    ASSUME NEW q, InOrder(q), Listed(q), MaxPriority = 0,
           NEW now \in 0..MaxTime, \A o \in q.tree : o.time <= now,
           NEW d \in Data, d \notin Held(q)
    PROVE  /\ Listed(prioqueue_add(q, d, 0, now))
           /\ \A o \in prioqueue_add(q, d, 0, now).tree : o.time <= now
           /\ \/ View(prioqueue_add(q, d, 0, now)) = Fifo!Put(View(q), Capacity, d)
              \/ /\ Fifo!MadeRoom(View(q), Capacity).items # <<>>
                 /\ View(prioqueue_add(q, d, 0, now)) = Fifo!PutTied(View(q), Capacity)
<1>1. CASE Capacity = 0
  BY <1>1 DEF prioqueue_add, Fifo!Put
<1>2. CASE Capacity # 0
  <2>1. PICK e : e = [data |-> d, priority |-> 0, time |-> now]
    OBVIOUS
  <2>2. 0 \in Priorities
    BY DEF Priorities
  <2>3. e \in Element /\ e.priority = 0 /\ e.time = now /\ e.data = d
    BY <2>1, <2>2 DEF Element
  <2>4. PICK r : r = MakeRoom(q)
    OBVIOUS
  <2>5. InOrder(r) /\ Listed(r) /\ View(r) = Fifo!MadeRoom(View(q), Capacity)
    BY <2>4, RoomMade, RoomView
  <2>6. r.tree \subseteq q.tree /\ r.tree \subseteq Element
    BY <2>4, <2>5 DEF MakeRoom, InOrder, Queue
  <2>7. \A o \in r.tree : o.priority = 0 /\ o.time <= e.time
    <3> SUFFICES ASSUME NEW o \in r.tree PROVE o.priority = 0 /\ o.time <= e.time
      OBVIOUS
    <3>1. o.priority \in 0..0
      BY <2>6 DEF Element, Priorities
    <3> QED BY <2>3, <2>6, <3>1
  <2>8. PICK m : m = Insert(r, e)
    OBVIOUS
  <2>9. m = prioqueue_add(q, d, 0, now)
    BY <1>2, <2>1, <2>4, <2>8 DEF prioqueue_add
  <2>10. InOrder(m)
    BY <2>2, <2>9, AddInOrder
  <2>11. /\ Listed(m)
         /\ \/ View(m) = [items |-> Append(View(r).items, d), size |-> View(r).size + 1]
            \/ /\ View(r).items # <<>>
               /\ View(m) = [items |-> View(r).items, size |-> View(r).size + 1]
    BY <2>3, <2>5, <2>7, <2>8, <2>10, InsertView
  <2>12. \A o \in m.tree : o.time <= now
    <3>1. m.tree \subseteq r.tree \cup {e}
      BY <2>8 DEF Insert
    <3> QED BY <2>3, <2>7, <3>1
  <2> QED BY <1>2, <2>5, <2>9, <2>11, <2>12 DEF Fifo!Put, Fifo!PutTied
<1> QED BY <1>1, <1>2

\* One step of a FIFO of records, or none.
FifoStep(v, w) ==
    \/ \E d \in Data : w = Fifo!Put(v, Capacity, d)
    \/ Fifo!MadeRoom(v, Capacity).items # <<>> /\ w = Fifo!PutTied(v, Capacity)
    \/ v.items # <<>> /\ w = Fifo!Taken(v)
    \/ w = Fifo!EmptyQueue
    \/ w = v

\* A queue that is a list of records received no later than now.
ListedBy(q, now) == Listed(q) /\ \A o \in q.tree : o.time <= now

\* The clock has not fallen behind any element, so a new one comes last or ties.
BothListed == ListedBy(source, clock) /\ ListedBy(target, clock)

LEMMA AddIsFifoStep ==
    ASSUME NEW q, InOrder(q), NEW now \in 0..MaxTime, ListedBy(q, now), MaxPriority = 0,
           NEW d \in Data, d \notin Held(q), NEW p \in Priorities
    PROVE  /\ ListedBy(prioqueue_add(q, d, p, now), now)
           /\ FifoStep(View(q), View(prioqueue_add(q, d, p, now)))
<1>1. p = 0
  BY DEF Priorities
<1>2. Listed(q) /\ \A o \in q.tree : o.time <= now
  BY DEF ListedBy
<1>3. PICK m : m = prioqueue_add(q, d, 0, now)
  OBVIOUS
<1>4. PICK v, w : v = View(q) /\ w = View(m)
  OBVIOUS
<1>5. /\ Listed(m) /\ \A o \in m.tree : o.time <= now
      /\ \/ w = Fifo!Put(v, Capacity, d)
         \/ Fifo!MadeRoom(v, Capacity).items # <<>> /\ w = Fifo!PutTied(v, Capacity)
  BY <1>2, <1>3, <1>4, AddView
<1> QED BY <1>1, <1>3, <1>4, <1>5 DEF ListedBy, FifoStep

LEMMA EmptyIsFifoStep ==
    ASSUME NEW v, NEW now
    PROVE  ListedBy(EmptyTree, now) /\ FifoStep(v, View(EmptyTree))
<1>1. EmptyTree.tree = {}
  BY DEF EmptyTree
<1> QED BY <1>1, EmptyView DEF ListedBy, FifoStep

\* Every step of the two queues is a FIFO step of each.
LEMMA BothStep ==
    ASSUME MaxPriority = 0, IInv, BothListed, [Next]_vars
    PROVE  /\ BothListed'
           /\ FifoStep(View(source), View(source')) /\ FifoStep(View(target), View(target'))
<1>1. /\ InOrder(source) /\ InOrder(target) /\ clock \in 0..MaxTime
      /\ CloneInOrder /\ FreshUnheld /\ uncopied \subseteq Element
      /\ ListedBy(source, clock) /\ ListedBy(target, clock)
  BY DEF IInv, TypeOK, BothListed
<1>2. \A v : FifoStep(v, v)
  BY DEF FifoStep
<1>3. ASSUME NEW d \in Data, NEW p \in Priorities, Receive(d, p)
      PROVE  /\ BothListed'
             /\ FifoStep(View(source), View(source')) /\ FifoStep(View(target), View(target'))
  <2>1. d \notin Held(source) /\ d \notin Held(target) /\ clock' = clock
    BY <1>1, <1>3 DEF Receive, FreshUnheld
  <2>2. source' = prioqueue_add(source, d, p, clock)
    BY <1>3 DEF Receive
  <2>3. ListedBy(source', clock) /\ FifoStep(View(source), View(source'))
    BY <1>1, <2>1, <2>2, AddIsFifoStep
  <2>4. ListedBy(target', clock) /\ FifoStep(View(target), View(target'))
    <3>1. CASE target' = target
      BY <1>1, <1>2, <3>1
    <3>2. CASE target' = prioqueue_add(target, d, p, clock)
      BY <1>1, <2>1, <3>2, AddIsFifoStep
    <3> QED BY <1>3, <3>1, <3>2 DEF Receive
  <2> QED BY <2>1, <2>3, <2>4 DEF BothListed
<1>4. ASSUME UNCHANGED <<clock, source>>, target' = EmptyTree
      PROVE  /\ BothListed'
             /\ FifoStep(View(source), View(source')) /\ FifoStep(View(target), View(target'))
  <2>1. ListedBy(source', clock) /\ FifoStep(View(source), View(source'))
    BY <1>1, <1>2, <1>4
  <2>2. ListedBy(target', clock) /\ FifoStep(View(target), View(target'))
    BY <1>4, EmptyIsFifoStep
  <2> QED BY <1>4, <2>1, <2>2 DEF BothListed
<1>5. ASSUME CloneStep
      PROVE  /\ BothListed'
             /\ FifoStep(View(source), View(source')) /\ FifoStep(View(target), View(target'))
  <2>1. PICK e \in uncopied : target' = prioqueue_add(target, e.data, e.priority, clock)
    <3>1. uncopied # {} /\ \A x, o \in uncopied : SameKey(x, o) => x = o
      BY <1>1, <1>5 DEF CloneStep, CloneInOrder, InOrder, KeysUnique
    <3>2. LowestOf(uncopied) \in uncopied
      BY <1>1, <3>1, LowestInTree
    <3> QED BY <1>5, <3>2 DEF CloneStep
  <2>2. PICK d, p : d = e.data /\ p = e.priority
    OBVIOUS
  <2>3. d \in Data /\ p \in Priorities /\ d \notin Held(target)
    BY <1>1, <2>2 DEF Element, CloneInOrder
  <2>4. ListedBy(target', clock) /\ FifoStep(View(target), View(target'))
    BY <1>1, <2>1, <2>2, <2>3, AddIsFifoStep
  <2>5. UNCHANGED <<clock, source>>
    BY <1>5 DEF CloneStep
  <2>6. ListedBy(source', clock) /\ FifoStep(View(source), View(source'))
    BY <1>1, <1>2, <2>5
  <2> QED BY <2>4, <2>5, <2>6 DEF BothListed
<1>6. ASSUME PopTarget
      PROVE  /\ BothListed'
             /\ FifoStep(View(source), View(source')) /\ FifoStep(View(target), View(target'))
  <2>1. /\ UNCHANGED <<clock, source>> /\ target.tree # {}
        /\ target' = prioqueue_pop_high(target)
    BY <1>6 DEF PopTarget
  <2>2. Listed(target) /\ \A o \in target.tree : o.time <= clock
    BY <1>1 DEF ListedBy
  <2>3. /\ View(target).items # <<>> /\ View(target') = Fifo!Taken(View(target))
        /\ Listed(target')
    BY <1>1, <2>1, <2>2, PopView
  <2>4. target'.tree \subseteq target.tree
    BY <2>1 DEF prioqueue_pop_high
  <2>5. ListedBy(target', clock) /\ FifoStep(View(target), View(target'))
    BY <2>2, <2>3, <2>4 DEF ListedBy, FifoStep
  <2>6. ListedBy(source', clock) /\ FifoStep(View(source), View(source'))
    BY <1>1, <1>2, <2>1
  <2> QED BY <2>1, <2>5, <2>6 DEF BothListed
<1>7. ASSUME UNCHANGED <<source, target>>, clock' = clock \/ clock' = clock + 1
      PROVE  /\ BothListed'
             /\ FifoStep(View(source), View(source')) /\ FifoStep(View(target), View(target'))
  <2>1. ASSUME NEW q, InOrder(q), ListedBy(q, clock) PROVE ListedBy(q, clock')
    <3>1. \A o \in q.tree : o.time \in Int /\ o.time <= clock
      BY <2>1, TimeAssumption DEF InOrder, Queue, Element, ListedBy
    <3>2. clock \in Int
      BY <1>1, TimeAssumption
    <3>3. \A o \in q.tree : o.time <= clock'
      BY <1>7, <3>1, <3>2
    <3> QED BY <2>1, <3>3 DEF ListedBy
  <2>2. ListedBy(source, clock') /\ ListedBy(target, clock')
    BY <1>1, <2>1
  <2> QED BY <1>2, <1>7, <2>2 DEF BothListed
<1>8. CASE StartClone
  BY <1>4, <1>8 DEF StartClone
<1>9. CASE Detach
  BY <1>4, <1>9 DEF Detach
<1>10. CASE Tick
  BY <1>7, <1>10 DEF Tick
<1>11. CASE UNCHANGED vars
  BY <1>7, <1>11 DEF vars
<1> QED BY <1>3, <1>5, <1>6, <1>8, <1>9, <1>10, <1>11 DEF Next

LEMMA BothListedAlways == ASSUME MaxPriority = 0 PROVE Spec => []BothListed
<1>1. Init => BothListed
  BY EmptyIsFifoStep DEF Init, BothListed
<1>2. IInv /\ BothListed /\ [Next]_vars => BothListed'
  BY BothStep
<1> QED BY <1>1, <1>2, Invariance, PTL DEF Spec

\* What archd queues for telemetry leaves in the order it came: with the one priority archd
\* uses, prioqueue_add and prioqueue_pop_high on a tree keyed by arrival time implement a
\* bounded FIFO that drops its newest element when it is full (prioqueue.c:97-184).
THEOREM SourceQueueIsFifo == ASSUME MaxPriority = 0 PROVE Spec => SourceIsFifo
<1>1. Init => SourceFifo!Init
  BY EmptyView DEF Init, SourceFifo!Init, SourceFifo!EmptyQueue, Fifo!EmptyQueue
<1>2. IInv /\ BothListed /\ [Next]_vars => [SourceFifo!Next]_(View(source))
  <2> SUFFICES ASSUME IInv, BothListed, [Next]_vars PROVE [SourceFifo!Next]_(View(source))
    OBVIOUS
  <2>1. FifoStep(View(source), View(source'))
    BY BothStep
  <2> QED BY <2>1 DEF FifoStep, Fifo!EmptyQueue, Fifo!Put, Fifo!PutTied, Fifo!Taken, Fifo!MadeRoom,
                      Fifo!MustEvict, Fifo!EvictNewest, SourceFifo!Next, SourceFifo!Enqueue,
                      SourceFifo!LoseNew, SourceFifo!Dequeue, SourceFifo!Reset,
                      SourceFifo!EmptyQueue, SourceFifo!Put, SourceFifo!PutTied, SourceFifo!Taken,
                      SourceFifo!MadeRoom, SourceFifo!MustEvict, SourceFifo!EvictNewest
<1> QED BY <1>1, <1>2, Invariance, BothListedAlways, PTL DEF Spec, SourceIsFifo, SourceFifo!Spec

\* The same for the queue of a telemetry client, through the clone that fills it element by
\* element while nothing else is added, the sends and the disconnect (prioqueue.c:47-71).
THEOREM TargetQueueIsFifo == ASSUME MaxPriority = 0 PROVE Spec => TargetIsFifo
<1>1. Init => TargetFifo!Init
  BY EmptyView DEF Init, TargetFifo!Init, TargetFifo!EmptyQueue, Fifo!EmptyQueue
<1>2. IInv /\ BothListed /\ [Next]_vars => [TargetFifo!Next]_(View(target))
  <2> SUFFICES ASSUME IInv, BothListed, [Next]_vars PROVE [TargetFifo!Next]_(View(target))
    OBVIOUS
  <2>1. FifoStep(View(target), View(target'))
    BY BothStep
  <2> QED BY <2>1 DEF FifoStep, Fifo!EmptyQueue, Fifo!Put, Fifo!PutTied, Fifo!Taken, Fifo!MadeRoom,
                      Fifo!MustEvict, Fifo!EvictNewest, TargetFifo!Next, TargetFifo!Enqueue,
                      TargetFifo!LoseNew, TargetFifo!Dequeue, TargetFifo!Reset,
                      TargetFifo!EmptyQueue, TargetFifo!Put, TargetFifo!PutTied, TargetFifo!Taken,
                      TargetFifo!MadeRoom, TargetFifo!MustEvict, TargetFifo!EvictNewest
<1> QED BY <1>1, <1>2, Invariance, BothListedAlways, PTL DEF Spec, TargetIsFifo, TargetFifo!Spec
==============================================================================
