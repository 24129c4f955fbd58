---------------------------- MODULE NetReq_proofs ----------------------------
(***************************************************************************)
(* Theorems about NetReq, for any capacities, times and number of          *)
(* requests: the binary search stays inside the file and narrows with      *)
(* every turn, while archd extends and rotates the file; left alone, it    *)
(* finds what its comments promise, and what is sent after a sound lookup  *)
(* is never older than what was asked for, however archd goes on writing.  *)
(***************************************************************************)
EXTENDS NetReq, SequenceTheorems, FiniteSetTheorems, TLAPS

\* The file has at most its capacity of records, and tip is a slot of it.
FileInv ==
    /\ capacity \in Capacities
    /\ file \in Seq(Record) /\ Len(file) <= capacity
    /\ tip \in -1..(capacity - 1)

\* The search between min_index and max_index, which lies within the file as it
\* was measured.  Outside of the search the pivot is 0: a file of two records,
\* where the loop does not turn, is settled from there.
SearchInv ==
    /\ pc \in AtLabels
    /\ last_index \in Nat /\ min_index \in Nat /\ max_index \in Nat /\ pivot_index \in Nat
    /\ pc \in {"readFirst", "readLast", "turn", "before", "after"} => 1 <= last_index /\ last_index < Len(file)
    /\ pc = "turn" => max_index - min_index > 1 /\ max_index <= last_index
    /\ pc \in {"before", "after"} => pivot_index <= last_index
    /\ pc \notin {"turn", "before", "after"} => pivot_index = 0

NInv == FileInv /\ SearchInv

-----------------------------------------------------------------------------
(* The order of a rotated file, as a function S from slots to start times: *)
(* the slots up to tp hold the newer records, those above it the older     *)
(* ones, and each part increases.                                          *)

Rotated(S, last, tp) ==
    \A m \in 0..last : \A n \in 0..last :
        /\ m < n /\ (n <= tp \/ tp < m) => S[m] < S[n]
        /\ m <= tp /\ tp < n => S[n] < S[m]

\* What the search keeps about the ends of what is left.  In a file that has not
\* wrapped, a start time before and one after the target, but for the ends of the
\* file.  In one that has, the same within the part the target belongs to, and
\* an end that lies in the other part is on its proper side.
Between(S, last, tp, T, min, max) ==
    /\ tp = last => /\ min = 0 \/ S[min] < T
                    /\ max = last \/ T < S[max]
    /\ tp # last /\ S[0] < T => /\ min <= tp /\ S[min] < T
                                /\ tp < max \/ T < S[max]
    /\ tp # last /\ T <= S[0] => /\ tp < max /\ (max = last \/ T < S[max])
                                 /\ min <= tp \/ S[min] < T

\* The pivot and its neighbours hold the last record that starts before the target
\* and the first that does not, where there are such.
Surrounds(S, last, T, p) ==
    /\ \A k \in 0..last : S[k] < T =>
        \E c \in {p - 1, p, p + 1} : S[k] <= S[c] /\ S[c] < T
    /\ \A k \in 0..last : T <= S[k] =>
        \E c \in {p - 1, p, p + 1} : T <= S[c] /\ S[c] <= S[k]

\* The whole file is between its ends, unless the target lies across the seam.
LEMMA BetweenEnds ==
    ASSUME NEW last \in Nat, last > 1, NEW tp \in 0..last, NEW S \in [0..last -> Int],
           Rotated(S, last, tp), NEW T \in Int, ~(S[last] < T /\ T <= S[0])
    PROVE  Between(S, last, tp, T, 0, last)
BY DEF Rotated, Between

\* Going on from the pivot keeps the target between the ends, or it is met.
GoesOn(S, last, tp, T, min, max, p, way) ==
    \/ way = "here" /\ S[p] = T
    \/ way # "here" /\ Between(S, last, tp, T, MinAfter(way, min, p), MaxAfter(way, max, p))

\* A turn goes on where the target is.
LEMMA BetweenTurn ==
    ASSUME NEW last \in Nat, last > 1, NEW tp \in 0..last, NEW S \in [0..last -> Int],
           Rotated(S, last, tp), NEW T \in Int, ~(S[last] < T /\ T <= S[0]),
           NEW min \in Nat, NEW max \in Nat, max <= last, NEW p \in Nat, min < p, p < max,
           Between(S, last, tp, T, min, max), NEW way, way = Bisect(S[p], T, S[0], S[last])
    PROVE  GoesOn(S, last, tp, T, min, max, p, way)
<1>0. /\ p \in 0..last /\ 0 \in 0..last /\ last \in 0..last
      /\ S[p] \in Int /\ S[0] \in Int /\ S[last] \in Int
  OBVIOUS
<1>1. CASE S[p] = T
  BY <1>0, <1>1 DEF Bisect, GoesOn
<1>2. CASE tp = last /\ S[p] # T
  <2>1. S[0] < S[p] /\ S[p] < S[last]
    BY <1>0, <1>2 DEF Rotated
  <2>2. (S[p] < T /\ way = "right") \/ (T < S[p] /\ way = "left")
    BY <1>0, <1>2, <2>1 DEF Bisect
  <2> QED BY <1>0, <1>2, <2>2 DEF GoesOn, Between, MinAfter, MaxAfter
<1>3. CASE tp # last /\ S[0] < T /\ S[p] # T
  <2>1. S[last] < S[0]
    BY <1>0, <1>3 DEF Rotated
  <2>2. p <= tp => S[0] < S[p] 
    BY <1>0, <1>3 DEF Rotated
  <2>3. tp < p => S[p] <= S[last]
    BY <1>0, <1>3 DEF Rotated
  <2>4. \/ p <= tp /\ S[p] < T /\ way = "right"
        \/ p <= tp /\ T < S[p] /\ way = "left"
        \/ tp < p /\ way = "left"
    BY <1>0, <1>3, <2>1, <2>2, <2>3 DEF Bisect
  <2> QED BY <1>0, <1>3, <2>4 DEF GoesOn, Between, MinAfter, MaxAfter
<1>4. CASE tp # last /\ T <= S[0] /\ S[p] # T
  <2>1. S[last] < S[0] /\ T <= S[last]
    BY <1>0, <1>4 DEF Rotated
  <2>2. p <= tp => S[0] < S[p]
    BY <1>0, <1>4 DEF Rotated
  <2>3. tp < p => S[p] <= S[last]
    BY <1>0, <1>4 DEF Rotated
  <2>4. \/ tp < p /\ S[p] < T /\ way = "right"
        \/ tp < p /\ T < S[p] /\ way = "left"
        \/ p <= tp /\ way = "right"
    BY <1>0, <1>4, <2>1, <2>2, <2>3 DEF Bisect
  <2> QED BY <1>0, <1>4, <2>4 DEF GoesOn, Between, MinAfter, MaxAfter
<1> QED BY <1>0, <1>1, <1>2, <1>3, <1>4

\* When the search is over, the pivot and its neighbours surround the target.
LEMMA SearchSurrounds ==
    ASSUME NEW last \in Nat, last > 1, NEW tp \in 0..last, NEW S \in [0..last -> Int],
           Rotated(S, last, tp), NEW T \in Int, ~(S[last] < T /\ T <= S[0]),
           NEW p \in Nat, 0 < p, p < last, NEW min \in Nat, NEW max \in Nat, max <= last,
           \/ S[p] = T
           \/ max = min + 1 /\ p \in {min, max} /\ Between(S, last, tp, T, min, max)
    PROVE  Surrounds(S, last, T, p)
<1>0. /\ p \in 0..last /\ p - 1 \in 0..last /\ p + 1 \in 0..last /\ 0 \in 0..last /\ last \in 0..last
      /\ \A k \in 0..last : S[k] \in Int
  OBVIOUS
<1>1. CASE S[p] = T
  <2>1. ASSUME NEW k \in 0..last, S[k] < T PROVE S[k] <= S[p - 1] /\ S[p - 1] < T
    <3>1. p # tp + 1
      BY <1>0, <1>1, <2>1 DEF Rotated
    <3>2. S[p - 1] < S[p]
      BY <1>0, <3>1 DEF Rotated
    <3>3. k < p \/ p <= tp
      BY <1>0, <1>1, <2>1 DEF Rotated
    <3>4. k = p - 1 \/ S[k] < S[p - 1]
      BY <1>0, <1>1, <2>1, <3>1, <3>3 DEF Rotated
    <3> QED BY <1>0, <1>1, <3>2, <3>4
  <2> QED BY <1>0, <1>1, <2>1 DEF Surrounds
<1>2. CASE max = min + 1 /\ p \in {min, max} /\ Between(S, last, tp, T, min, max)
  <2>0. /\ {min, max} \subseteq {p - 1, p, p + 1}
        /\ min \in 0..last /\ max \in 0..last
    BY <1>0, <1>2
  <2>1. ASSUME NEW k \in 0..last, S[k] < T PROVE \E c \in {min, max} : S[k] <= S[c] /\ S[c] < T
    <3>1. CASE tp = last
      BY <1>0, <1>2, <2>0, <2>1, <3>1 DEF Between, Rotated
    <3>2. CASE tp # last /\ S[0] < T
      BY <1>0, <1>2, <2>0, <2>1, <3>2 DEF Between, Rotated
    <3>3. CASE tp # last /\ T <= S[0]
      <4>1. tp < max /\ (max = last \/ T < S[max]) /\ (min <= tp \/ S[min] < T) /\ T <= S[last]
        BY <1>0, <1>2, <3>3 DEF Between
      <4>2. tp < k
        BY <1>0, <2>1, <3>3 DEF Rotated
      <4>3. k < max
        BY <1>0, <2>0, <2>1, <4>1, <4>2 DEF Rotated
      <4>4. S[min] < T /\ (k = min \/ S[k] < S[min])
        BY <1>0, <1>2, <2>0, <4>1, <4>2, <4>3 DEF Rotated
      <4> QED BY <1>0, <2>0, <4>4
    <3> QED BY <1>0, <3>1, <3>2, <3>3
  <2>2. ASSUME NEW k \in 0..last, T <= S[k] PROVE \E c \in {min, max} : T <= S[c] /\ S[c] <= S[k]
    <3>1. CASE tp = last
      BY <1>0, <1>2, <2>0, <2>2, <3>1 DEF Between, Rotated
    <3>2. CASE tp # last /\ S[0] < T
      BY <1>0, <1>2, <2>0, <2>2, <3>2 DEF Between, Rotated
    <3>3. CASE tp # last /\ T <= S[0]
      <4>1. tp < max /\ (max = last \/ T < S[max]) /\ (min <= tp \/ S[min] < T) /\ T <= S[last]
        BY <1>0, <1>2, <3>3 DEF Between
      <4>2. T <= S[max]
        BY <1>0, <2>0, <4>1
      <4>3. k <= tp \/ max <= k
        BY <1>0, <1>2, <2>0, <2>2, <4>1 DEF Rotated
      <4>4. k = max \/ S[max] < S[k]
        BY <1>0, <2>0, <4>1, <4>3 DEF Rotated
      <4> QED BY <1>0, <2>0, <4>2, <4>4
    <3> QED BY <1>0, <3>1, <3>2, <3>3
  <2> QED BY <2>0, <2>1, <2>2 DEF Surrounds
<1> QED BY <1>1, <1>2

\* r is the index of the best of the three records that qualify, if one does.
TakesBest(r, before, this, after, T, w) ==
    LET fit == {x \in {before, this, after} : Fits(x, T, w)}
    IN  \/ fit = {} /\ r = -1
        \/ \E x \in fit : r = x.index /\ \A y \in fit : Nearness(y, w) <= Nearness(x, w)

\* The switch takes the best of the three.
LEMMA SettleTakesBest ==
    ASSUME NEW before, NEW this, NEW after,
           before.start \in Int, before.end \in Int, this.start \in Int, this.end \in Int,
           after.start \in Int, after.end \in Int,
           NEW T \in Int, NEW pivot, NEW w \in {BeforeInclusive, AfterInclusive}
    PROVE  TakesBest(Settle(before, this, after, pivot, T, w), before, this, after, T, w)
<1>0. PICK r : r = Settle(before, this, after, pivot, T, w)
  OBVIOUS
<1> DEFINE three == {x \in {before, this, after} : Fits(x, T, w)}
<1> SUFFICES \/ three = {} /\ r = -1
             \/ \E x \in three : r = x.index /\ \A y \in three : Nearness(y, w) <= Nearness(x, w)
  BY <1>0 DEF TakesBest
<1> DEFINE order == <<before, this, after>>
           fit == {k \in 1..3 : Fits(order[k], T, w)}
           best == {k \in fit : \A j \in fit : Nearness(order[j], w) <= Nearness(order[k], w)}
           first == CHOOSE k \in best : \A j \in best : k <= j
<1>1. w # Within
  BY DEF BeforeInclusive, AfterInclusive, Within
<1>2. r = IF fit = {} THEN -1 ELSE order[first].index
  BY <1>0, <1>1 DEF Settle
<1>3. /\ order[1] = before /\ order[2] = this /\ order[3] = after
      /\ \A k \in 1..3 : Nearness(order[k], w) \in Int
  BY DEF Nearness, BeforeInclusive, AfterInclusive, BeforeExclusive
<1>4. \A k \in 1..3 : k = 1 \/ k = 2 \/ k = 3
  OBVIOUS
<1>5. ASSUME fit # {} PROVE best # {}
  <2> DEFINE n(k) == Nearness(order[k], w)
  <2>0. n(1) \in Int /\ n(2) \in Int /\ n(3) \in Int
    BY <1>3
  <2>1. fit \subseteq {1, 2, 3}
    BY <1>4
  <2>2. best = {k \in fit : \A j \in fit : n(j) <= n(k)}
    OBVIOUS
  <2> HIDE DEF n, fit, best
  <2> QED BY <1>5, <2>0, <2>1, <2>2
<1>6. ASSUME fit # {} PROVE first \in best
  <2>1. best \subseteq {1, 2, 3} /\ best # {}
    BY <1>4, <1>5, <1>6
  <2> HIDE DEF best
  <2>2. \E k \in best : \A j \in best : k <= j
    <3>1. CASE 1 \in best
      BY <2>1, <3>1
    <3>2. CASE 1 \notin best /\ 2 \in best
      BY <2>1, <3>2
    <3>3. CASE 1 \notin best /\ 2 \notin best
      <4>1. best = {3}
        BY <2>1, <3>3
      <4> QED BY <4>1
    <3> QED BY <3>1, <3>2, <3>3
  <2> QED BY <2>2
<1>7. three = {order[k] : k \in fit}
  BY <1>3, <1>4
<1>8. CASE fit = {}
  BY <1>2, <1>7, <1>8
<1>9. CASE fit # {}
  <2>1. first \in fit /\ \A j \in fit : Nearness(order[j], w) <= Nearness(order[first], w)
    BY <1>6, <1>9
  <2>2. r = order[first].index
    BY <1>2, <1>9
  <2> HIDE DEF first, fit, order
  <2> QED BY <1>7, <2>1, <2>2
<1> QED BY <1>8, <1>9

-----------------------------------------------------------------------------
(* The order of the file archd writes.                                     *)

\* The newest record is at tip, older ones lie before it and then, once the loop is
\* full, behind it, the oldest first.
OrderInv ==
    /\ tip < Len(file) /\ (tip = -1 => Len(file) = 0)
    /\ tip + 1 < Len(file) => Len(file) = capacity
    /\ \A m \in 1..Len(file) : file[m].end = file[m].start + Span
    /\ \A m \in 1..Len(file) : \A n \in 1..Len(file) :
        /\ m < n /\ (n <= tip + 1 \/ tip + 1 < m) => file[m].start < file[n].start
        /\ m <= tip + 1 /\ tip + 1 < n => file[n].start < file[m].start

Starts == [x \in 0..(Len(file) - 1) |-> file[x + 1].start]

\* The types of what the file holds, and its order in terms of Starts.
LEMMA FileFacts ==
    ASSUME FileInv, OrderInv, Len(file) > 0
    PROVE  /\ Len(file) \in Nat /\ tip \in 0..(Len(file) - 1)
           /\ \A m \in 1..Len(file) : file[m].start \in Int /\ file[m].end \in Int
           /\ Starts \in [0..(Len(file) - 1) -> Int]
           /\ \A x \in 0..(Len(file) - 1) : Starts[x] = file[x + 1].start
           /\ Rotated(Starts, Len(file) - 1, tip)
<1>0. Len(file) \in Nat /\ capacity \in Nat
  BY LenProperties, CapacityAssumption DEF FileInv
<1>1. \A m \in 1..Len(file) : file[m] \in Record
  BY ElementOfSeq DEF FileInv
<1>2. \A m \in 1..Len(file) : file[m].start \in Int /\ file[m].end \in Int
  <2> SUFFICES ASSUME NEW m \in 1..Len(file) PROVE file[m].start \in Int /\ file[m].end \in Int
    OBVIOUS
  <2> QED BY <1>1, TimeAssumption DEF Record
<1> DEFINE n == Len(file)
<1>3. n \in Nat /\ n > 0
  BY <1>0
<1>4. tip \in Int /\ tip >= -1 /\ tip < n /\ (tip = -1 => n = 0)
  BY <1>0 DEF FileInv, OrderInv
<1>5. \A x \in 0..(n - 1) : x + 1 \in 1..n
  BY <1>3
<1>6. \A x \in 0..(n - 1) : Starts[x] = file[x + 1].start
  BY DEF Starts
<1>7. Starts \in [0..(n - 1) -> Int]
  BY <1>2, <1>5 DEF Starts
<1>8. Rotated(Starts, n - 1, tip)
  <2> SUFFICES ASSUME NEW x \in 0..(n - 1), NEW y \in 0..(n - 1)
               PROVE  /\ x < y /\ (y <= tip \/ tip < x) => Starts[x] < Starts[y]
                      /\ x <= tip /\ tip < y => Starts[y] < Starts[x]
    BY DEF Rotated
  <2> DEFINE m == x + 1
             k == y + 1
  <2>1. m \in 1..n /\ k \in 1..n /\ Starts[x] = file[m].start /\ Starts[y] = file[k].start
    BY <1>5, <1>6
  <2>2. /\ m < k /\ (k <= tip + 1 \/ tip + 1 < m) => file[m].start < file[k].start
        /\ m <= tip + 1 /\ tip + 1 < k => file[k].start < file[m].start
    BY <2>1 DEF OrderInv
  <2>3. /\ x < y => m < k
        /\ y <= tip => k <= tip + 1
        /\ tip < x => tip + 1 < m
        /\ x <= tip => m <= tip + 1
        /\ tip < y => tip + 1 < k
    BY <1>3, <1>4
  <2> HIDE DEF m, k
  <2> QED BY <2>1, <2>2, <2>3
<1> QED BY <1>2, <1>3, <1>4, <1>6, <1>7, <1>8

\* The slots of the file start no later than the newest record.
LEMMA TipIsNewest ==
    ASSUME FileInv, OrderInv, Len(file) > 0, NEW m \in 1..Len(file)
    PROVE  file[m].start <= file[tip + 1].start
<1>1. Len(file) \in Nat /\ tip \in 0..(Len(file) - 1)
      /\ \A k \in 1..Len(file) : file[k].start \in Int
  BY FileFacts
<1>2. tip + 1 \in 1..Len(file)
  BY <1>1
<1>3. m = tip + 1 \/ file[m].start < file[tip + 1].start
  BY <1>1, <1>2 DEF OrderInv
<1> QED BY <1>1, <1>2, <1>3

\* The promise, in terms of the records that fit and not of the best ones alone.
Delivers(loop, T, w, r) ==
    \/ r \in BestFits(loop, T, w)
    \/ r = -1 /\ \A k \in 0..(Len(loop) - 1) : ~Fits(loop[k + 1], T, w)

LEMMA DeliversAsPromised ==
    ASSUME NEW loop, NEW T, NEW w, NEW r, Delivers(loop, T, w, r)
    PROVE  Promised(loop, T, w, r)
BY DEF Delivers, Promised, BestFits

\* If the pivot and its neighbours surround the target, the switch returns what its
\* comments promise.
LEMMA SettleDelivers ==
    ASSUME FileInv, OrderInv, Len(file) > 2, NEW T \in Int, NEW p \in Nat, 0 < p, p < Len(file) - 1,
           Surrounds(Starts, Len(file) - 1, T, p), NEW w \in {BeforeInclusive, AfterInclusive},
           w = AfterInclusive => ~InOverlap(file, T)
    PROVE  Delivers(file, T, w, Settle(RecordInfo(file, p - 1), RecordInfo(file, p),
                                       RecordInfo(file, p + 1), p, T, w))
<1> DEFINE near == {p - 1, p, p + 1}
           r == Settle(RecordInfo(file, p - 1), RecordInfo(file, p), RecordInfo(file, p + 1), p, T, w)
<1>a. PICK last \in Nat : last = Len(file) - 1
  <2>1. Len(file) \in Nat
    BY FileFacts
  <2> QED BY <2>1
<1>b. PICK s \in [0..last -> Int] : s = Starts
  BY <1>a, FileFacts
<1>c. Span \in Nat
  BY TimeAssumption
<1>0. /\ last > 1 /\ near \subseteq 0..last
      /\ \A x \in 0..last : /\ x + 1 \in 1..Len(file) /\ s[x] \in Int
                            /\ file[x + 1].start = s[x] /\ file[x + 1].end = s[x] + Span
  <2>1. Len(file) \in Nat
    BY FileFacts
  <2>2. \A x \in 0..last : x + 1 \in 1..Len(file)
    BY <1>a, <2>1
  <2>3. \A x \in 0..last : file[x + 1].start = s[x]
    BY <1>a, <1>b, FileFacts
  <2>4. \A x \in 0..last : file[x + 1].end = file[x + 1].start + Span
    BY <2>2 DEF OrderInv
  <2>5. last > 1 /\ near \subseteq 0..last
    BY <1>a, <2>1
  <2> QED BY <1>b, <2>2, <2>3, <2>4, <2>5
<1>d. /\ near \subseteq 0..last
      /\ \A x \in 0..last : s[x] \in Int
  BY <1>0
<1>1. \A x \in 0..last : RecordInfo(file, x) = [start |-> s[x], end |-> s[x] + Span, index |-> x]
  BY <1>0 DEF RecordInfo
<1>2. \A x \in 0..last : RecordInfo(file, x).start \in Int /\ RecordInfo(file, x).end \in Int
  <2> SUFFICES ASSUME NEW x \in 0..last PROVE RecordInfo(file, x).start \in Int /\ RecordInfo(file, x).end \in Int
    OBVIOUS
  <2>1. s[x] \in Int /\ s[x] + Span \in Int
    BY <1>c, <1>d
  <2> QED BY <1>1, <2>1
<1>3. /\ \A k \in 0..last : s[k] < T => \E c \in near : s[k] <= s[c] /\ s[c] < T
      /\ \A k \in 0..last : T <= s[k] => \E c \in near : T <= s[c] /\ s[c] <= s[k]
  BY <1>a, <1>b DEF Surrounds
<1>4. w = BeforeInclusive \/ w = AfterInclusive
  OBVIOUS
<1>5. ASSUME NEW x \in 0..last
      PROVE  /\ w = BeforeInclusive =>
                   /\ Nearness(RecordInfo(file, x), w) = s[x] /\ Nearness(file[x + 1], w) = s[x]
                   /\ Fits(RecordInfo(file, x), T, w) <=> s[x] <= T
                   /\ Fits(file[x + 1], T, w) <=> s[x] <= T
             /\ w = AfterInclusive =>
                   /\ Nearness(RecordInfo(file, x), w) = -(s[x] + Span)
                   /\ Nearness(file[x + 1], w) = -(s[x] + Span)
                   /\ Fits(RecordInfo(file, x), T, w) <=> s[x] + Span >= T
                   /\ Fits(file[x + 1], T, w) <=> s[x] + Span >= T
  <2>1. /\ RecordInfo(file, x).start = s[x] /\ RecordInfo(file, x).end = s[x] + Span
        /\ file[x + 1].start = s[x] /\ file[x + 1].end = s[x] + Span
    BY <1>0, <1>1
  <2> QED BY <2>1 DEF Fits, Nearness, BeforeExclusive, BeforeInclusive, Within, AfterInclusive, AfterExclusive
<1>6. \A x \in 0..last : /\ Nearness(file[x + 1], w) \in Int
                         /\ Nearness(RecordInfo(file, x), w) = Nearness(file[x + 1], w)
                         /\ Fits(RecordInfo(file, x), T, w) => Fits(file[x + 1], T, w)
                         /\ Fits(file[x + 1], T, w) => Fits(RecordInfo(file, x), T, w)
  <2> SUFFICES ASSUME NEW x \in 0..last
               PROVE  /\ Nearness(file[x + 1], w) \in Int
                      /\ Nearness(RecordInfo(file, x), w) = Nearness(file[x + 1], w)
                      /\ Fits(RecordInfo(file, x), T, w) => Fits(file[x + 1], T, w)
                      /\ Fits(file[x + 1], T, w) => Fits(RecordInfo(file, x), T, w)
    OBVIOUS
  <2>1. s[x] \in Int /\ -(s[x] + Span) \in Int
    BY <1>c, <1>d
  <2>2. CASE w = BeforeInclusive
    BY <1>5, <2>1, <2>2
  <2>3. CASE w = AfterInclusive
    BY <1>5, <2>1, <2>3
  <2> QED BY <1>4, <2>2, <2>3
<1>7. ASSUME NEW k \in 0..last, Fits(file[k + 1], T, w)
      PROVE  \E c \in near : /\ Fits(file[c + 1], T, w)
                             /\ Nearness(file[k + 1], w) <= Nearness(file[c + 1], w)
  <2>1. CASE w = BeforeInclusive
    <3>1. s[k] <= T /\ s[k] \in Int
      BY <1>0, <1>5, <1>7, <2>1
    <3>2. CASE s[k] < T
      <4>1. PICK c \in near : s[k] <= s[c] /\ s[c] < T
        BY <1>3, <3>2
      <4>2. c \in 0..last /\ s[c] <= T
        BY <1>d, <4>1
      <4> QED BY <1>5, <2>1, <4>1, <4>2
    <3>3. CASE s[k] = T
      <4>1. PICK c \in near : T <= s[c] /\ s[c] <= s[k]
        BY <1>3, <3>1, <3>3
      <4>2. c \in 0..last /\ s[c] = T
        BY <1>d, <3>3, <4>1
      <4>3. s[c] <= T /\ s[k] <= s[c]
        BY <3>3, <4>2
      <4> QED BY <1>5, <2>1, <4>2, <4>3
    <3> QED BY <3>1, <3>2, <3>3
  <2>2. CASE w = AfterInclusive
    <3>1. s[k] + Span >= T /\ s[k] \in Int
      BY <1>0, <1>5, <1>7, <2>2
    <3>2. \E c \in near : s[c] <= s[k] /\ s[c] + Span >= T
      <4>1. CASE T <= s[k]
        <5>1. PICK c \in near : T <= s[c] /\ s[c] <= s[k]
          BY <1>3, <4>1
        <5>2. s[c] \in Int
          BY <1>d
        <5>3. s[c] + Span >= T
          BY <1>c, <5>1, <5>2
        <5> QED BY <5>1, <5>3
      <4>2. CASE s[k] < T
        <5>1. PICK c \in near : s[k] <= s[c] /\ s[c] < T
          BY <1>3, <4>2
        <5>2. c \in 0..last /\ s[c] \in Int
          BY <1>0
        <5>3. k + 1 \in 1..Len(file) /\ c + 1 \in 1..Len(file) /\ T <= file[k + 1].end
          BY <1>0, <1>c, <3>1, <5>2
        <5>4. ~(file[k + 1].start < file[c + 1].start /\ file[c + 1].start < T)
          BY <2>2, <5>3 DEF InOverlap
        <5>5. s[c] = s[k]
          <6>1. file[k + 1].start = s[k] /\ file[c + 1].start = s[c]
            BY <1>0, <5>2
          <6> QED BY <3>1, <5>1, <5>2, <5>4, <6>1
        <5> QED BY <3>1, <5>1, <5>5
      <4> QED BY <3>1, <4>1, <4>2
    <3>3. PICK c \in near : s[c] <= s[k] /\ s[c] + Span >= T
      BY <3>2
    <3>4. s[c] \in Int /\ c \in 0..last
      BY <1>0
    <3>5. -(s[k] + Span) <= -(s[c] + Span)
      BY <1>c, <3>1, <3>3, <3>4
    <3> QED BY <1>5, <2>2, <3>3, <3>4, <3>5
  <2> QED BY <1>4, <2>1, <2>2
<1> DEFINE fit == {x \in {RecordInfo(file, p - 1), RecordInfo(file, p), RecordInfo(file, p + 1)} : Fits(x, T, w)}
<1>8. \/ fit = {} /\ r = -1
      \/ \E x \in fit : r = x.index /\ \A y \in fit : Nearness(y, w) <= Nearness(x, w)
  <2>1. PICK b : b = RecordInfo(file, p - 1)
    OBVIOUS
  <2>2. PICK t : t = RecordInfo(file, p)
    OBVIOUS
  <2>3. PICK a : a = RecordInfo(file, p + 1)
    OBVIOUS
  <2>4. /\ b.start \in Int /\ b.end \in Int /\ t.start \in Int /\ t.end \in Int
        /\ a.start \in Int /\ a.end \in Int
    BY <1>0, <1>2, <2>1, <2>2, <2>3
  <2>5. TakesBest(Settle(b, t, a, p, T, w), b, t, a, T, w)
    BY <2>4, SettleTakesBest
  <2> QED BY <2>1, <2>2, <2>3, <2>5 DEF TakesBest
<1>9. {RecordInfo(file, p - 1), RecordInfo(file, p), RecordInfo(file, p + 1)} = {RecordInfo(file, c) : c \in near}
  OBVIOUS
<1> HIDE DEF r
<1>10. CASE fit = {} /\ r = -1
  <2>1. \A c \in near : ~Fits(file[c + 1], T, w)
    BY <1>0, <1>6, <1>9, <1>10
  <2>2. \A k \in 0..last : ~Fits(file[k + 1], T, w)
    BY <1>7, <2>1
  <2> QED BY <1>a, <1>10, <2>2 DEF Delivers, r
<1>11. ASSUME NEW x \in fit, r = x.index, \A y \in fit : Nearness(y, w) <= Nearness(x, w)
       PROVE  Delivers(file, T, w, r)
  <2>1. PICK c \in near : x = RecordInfo(file, c)
    BY <1>9
  <2>2. c \in 0..last /\ r = c /\ Fits(file[c + 1], T, w)
    <3>1. c \in 0..last
      BY <1>0
    <3>2. x.index = c
      BY <2>1 DEF RecordInfo
    <3>3. Fits(RecordInfo(file, c), T, w)
      BY <2>1
    <3> QED BY <1>6, <1>11, <3>1, <3>2, <3>3
  <2>3. ASSUME NEW k \in 0..last, Fits(file[k + 1], T, w)
        PROVE  Nearness(file[k + 1], w) <= Nearness(file[c + 1], w)
    <3>1. PICK d \in near : /\ Fits(file[d + 1], T, w)
                            /\ Nearness(file[k + 1], w) <= Nearness(file[d + 1], w)
      BY <1>7, <2>3
    <3>2. d \in 0..last /\ RecordInfo(file, d) \in fit
      BY <1>0, <1>6, <1>9, <3>1
    <3>3. Nearness(file[d + 1], w) <= Nearness(file[c + 1], w)
      BY <1>6, <1>11, <2>1, <2>2, <3>2
    <3>4. /\ Nearness(file[k + 1], w) \in Int /\ Nearness(file[d + 1], w) \in Int
          /\ Nearness(file[c + 1], w) \in Int
      BY <1>6, <2>2, <3>2
    <3> QED BY <3>1, <3>3, <3>4
  <2>4. c \in BestFits(file, T, w)
    BY <1>a, <2>2, <2>3 DEF BestFits
  <2> QED BY <2>2, <2>4 DEF Delivers
<1> QED BY <1>8, <1>10, <1>11 DEF r

-----------------------------------------------------------------------------
\* The pivot lies strictly between the ends of what is left to search.
LEMMA PivotBetween ==
    ASSUME NEW min \in Nat, NEW max \in Nat, max - min > 1
    PROVE  Pivot(min, max) \in Nat /\ min < Pivot(min, max) /\ Pivot(min, max) < max
BY DEF Pivot

\* Whichever way the search goes on from the pivot, the new ends are within the
\* old ones and closer to each other.
LEMMA TurnNarrows ==
    ASSUME NEW min \in Nat, NEW max \in Nat, max - min > 1, NEW way
    PROVE  LET p == Pivot(min, max) IN
           /\ MinAfter(way, min, p) \in Nat /\ MaxAfter(way, max, p) \in Nat
           /\ MaxAfter(way, max, p) <= max
           /\ MaxAfter(way, max, p) - MinAfter(way, min, p) < max - min
BY PivotBetween DEF MinAfter, MaxAfter

LEMMA InitNInv == Init => NInv
<1> SUFFICES ASSUME Init PROVE NInv
  OBVIOUS
<1>1. FileInv
  <2>1. capacity \in Nat \ {0} /\ capacity \in Capacities
    BY CapacityAssumption DEF Init
  <2>2. file \in Seq(Record) /\ Len(file) = 0
    BY EmptySeq DEF Init
  <2> QED BY <2>1, <2>2 DEF Init, FileInv
<1>2. SearchInv
  BY DEF Init, SearchInv, AtLabels
<1> QED BY <1>1, <1>2 DEF NInv

\* archd's write keeps the file in its bounds and never makes it shorter.
LEMMA PutGrows ==
    ASSUME FileInv, NEW t \in 1..MaxTime, Put(t)
    PROVE  FileInv' /\ Len(file') >= Len(file)
<1>1. capacity \in Nat \ {0} /\ tip \in Int
  BY CapacityAssumption DEF FileInv
<1>2. RecordAt(t) \in Record
  BY TimeAssumption DEF RecordAt, Record
<1> DEFINE slot == NextSlot + 1
<1>3. slot \in Nat /\ 1 <= slot /\ slot <= capacity /\ slot <= Len(file) + 1
  BY <1>1 DEF NextSlot, Put, FileInv
<1>4. tip' = slot - 1 /\ capacity' = capacity
  BY DEF Put
<1>5. CASE slot <= Len(file)
  <2>1. file' = [file EXCEPT ![slot] = RecordAt(t)]
    BY <1>5 DEF Put
  <2>2. file' \in Seq(Record) /\ Len(file') = Len(file)
    BY <1>2, <1>3, <1>5, <2>1, ExceptSeq DEF FileInv
  <2> QED BY <1>1, <1>3, <1>4, <2>2 DEF FileInv
<1>6. CASE ~(slot <= Len(file))
  <2>1. file' = Append(file, RecordAt(t))
    BY <1>6 DEF Put
  <2>2. file' \in Seq(Record) /\ Len(file') = Len(file) + 1
    BY <1>2, <2>1, AppendProperties DEF FileInv
  <2>3. Len(file) \in Nat
    BY LenProperties DEF FileInv
  <2>4. Len(file) + 1 <= capacity
    BY <1>1, <1>3, <1>6, <2>3
  <2> QED BY <1>1, <1>3, <1>4, <2>2, <2>3, <2>4 DEF FileInv
<1> QED BY <1>5, <1>6

\* archd's write replaces the oldest record or extends the file, and keeps its order.
LEMMA PutKeepsOrder ==
    ASSUME FileInv, OrderInv, NEW t \in 1..MaxTime, Put(t)
    PROVE  /\ OrderInv' /\ tip' + 1 \in 1..Len(file') /\ file'[tip' + 1] = RecordAt(t)
           /\ \A m \in 1..Len(file') : m # tip' + 1 => m \in 1..Len(file) /\ file'[m] = file[m]
           /\ Len(file) > 0 => file[tip + 1].start < t
<1>0. /\ capacity \in Nat \ {0} /\ tip \in Int /\ tip >= -1 /\ tip < capacity
      /\ Len(file) \in Nat /\ Len(file) <= capacity /\ Len(file') \in Nat
  <2>1. FileInv'
    BY PutGrows
  <2> QED BY <2>1, CapacityAssumption, LenProperties DEF FileInv
<1>1. /\ tip < Len(file) /\ (tip = -1 => Len(file) = 0)
      /\ tip + 1 < Len(file) => Len(file) = capacity
  BY DEF OrderInv
<1> DEFINE slot == NextSlot + 1
<1>2. tip' = slot - 1 /\ capacity' = capacity /\ slot <= Len(file) + 1
  BY DEF Put
<1>3. \/ slot = Len(file) + 1 /\ tip + 1 = Len(file) /\ Len(file) < capacity
      \/ slot <= Len(file) /\ slot = tip + 2 /\ tip + 1 < Len(file)
      \/ slot <= Len(file) /\ slot = 1 /\ tip + 1 = Len(file) /\ tip + 1 = capacity
  BY <1>0, <1>1, <1>2 DEF NextSlot
<1>4. slot \in Nat /\ slot >= 1
  BY <1>0 DEF NextSlot
<1>5. Len(file) > 0 => file[tip + 1].start < t
  <2>1. Len(file) > 0 => tip >= 0
    BY <1>0, <1>1
  <2> QED BY <2>1, <1>0 DEF Put
<1>6. /\ Len(file') = IF slot <= Len(file) THEN Len(file) ELSE Len(file) + 1
      /\ file'[slot] = RecordAt(t)
      /\ \A m \in 1..Len(file) : m # slot => file'[m] = file[m]
  <2>1. CASE slot <= Len(file)
    <3>1. file' = [file EXCEPT ![slot] = RecordAt(t)] /\ slot \in 1..Len(file)
      BY <1>0, <1>4, <2>1 DEF Put
    <3>2. RecordAt(t) \in Record
      BY TimeAssumption DEF RecordAt, Record
    <3>3. Len(file') = Len(file) /\ \A m \in 1..Len(file) : file'[m] = IF m = slot THEN RecordAt(t) ELSE file[m]
      BY <3>1, <3>2, ExceptSeq DEF FileInv
    <3> QED BY <2>1, <3>1, <3>3
  <2>2. CASE ~(slot <= Len(file))
    <3>1. file' = Append(file, RecordAt(t)) /\ slot = Len(file) + 1
      BY <1>0, <1>3, <1>4, <2>2 DEF Put
    <3>2. RecordAt(t) \in Record
      BY TimeAssumption DEF RecordAt, Record
    <3>3. /\ Len(file') = Len(file) + 1 /\ file'[Len(file) + 1] = RecordAt(t)
          /\ \A m \in 1..Len(file) : file'[m] = file[m]
      BY <3>1, <3>2, AppendProperties DEF FileInv
    <3> QED BY <2>2, <3>1, <3>3
  <2> QED BY <2>1, <2>2
<1> HIDE DEF slot
<1>7. slot \in 1..Len(file') /\ \A m \in 1..Len(file') : m # slot => m \in 1..Len(file) /\ file'[m] = file[m]
  <2>1. Len(file') = Len(file) \/ (Len(file') = Len(file) + 1 /\ slot = Len(file) + 1)
    BY <1>0, <1>3, <1>6
  <2>2. slot \in 1..Len(file')
    BY <1>0, <1>3, <1>4, <1>6
  <2>3. \A m \in 1..Len(file') : m # slot => m \in 1..Len(file)
    BY <1>0, <2>1
  <2> QED BY <1>6, <2>2, <2>3
<1>8. tip' + 1 = slot
  BY <1>2, <1>4
<1>9. \A m \in 1..Len(file) : file[m].start \in Int /\ file[m].start < t
  <2> SUFFICES ASSUME NEW m \in 1..Len(file) PROVE file[m].start \in Int /\ file[m].start < t
    OBVIOUS
  <2>1. Len(file) > 0
    BY <1>0
  <2>2. tip + 1 \in 1..Len(file) /\ file[m].start \in Int /\ file[tip + 1].start \in Int
    <3>1. tip \in 0..(Len(file) - 1) /\ \A k \in 1..Len(file) : file[k].start \in Int
      BY <2>1, FileFacts
    <3>2. tip + 1 \in 1..Len(file)
      BY <1>0, <3>1
    <3> QED BY <3>1, <3>2
  <2>3. file[m].start <= file[tip + 1].start
    BY <2>1, TipIsNewest
  <2> QED BY <1>5, <2>1, <2>2, <2>3
<1>10. file'[slot].start = t /\ file'[slot].end = t + Span
  BY <1>6 DEF RecordAt
<1>11. OrderInv'
  <2>1. /\ tip' < Len(file') /\ (tip' = -1 => Len(file') = 0)
        /\ tip' + 1 < Len(file') => Len(file') = capacity'
    <3>1. Len(file') = Len(file) \/ (Len(file') = Len(file) + 1 /\ slot = Len(file) + 1)
      BY <1>0, <1>3, <1>6
    <3>2. slot <= Len(file')
      BY <1>0, <1>7
    <3> QED BY <1>0, <1>1, <1>2, <1>3, <1>4, <3>1, <3>2
  <2>2. ASSUME NEW m \in 1..Len(file') PROVE file'[m].end = file'[m].start + Span
    <3>1. CASE m = slot
      BY <1>10, <3>1
    <3>2. CASE m # slot
      BY <1>7, <3>2 DEF OrderInv
    <3> QED BY <3>1, <3>2
  <2>3. ASSUME NEW m \in 1..Len(file'), NEW n \in 1..Len(file')
        PROVE  /\ m < n /\ (n <= tip' + 1 \/ tip' + 1 < m) => file'[m].start < file'[n].start
               /\ m <= tip' + 1 /\ tip' + 1 < n => file'[n].start < file'[m].start
    <3>1. CASE m = slot
      BY <1>0, <1>4, <1>7, <1>8, <1>9, <1>10, <3>1
    <3>2. CASE n = slot /\ m # slot
      BY <1>0, <1>4, <1>7, <1>8, <1>9, <1>10, <3>2
    <3>3. CASE n # slot /\ m # slot
      <4>1. /\ m \in 1..Len(file) /\ n \in 1..Len(file)
            /\ file'[m] = file[m] /\ file'[n] = file[n]
        BY <1>7, <3>3
      <4>2. /\ m < n /\ (n <= tip + 1 \/ tip + 1 < m) => file[m].start < file[n].start
            /\ m <= tip + 1 /\ tip + 1 < n => file[n].start < file[m].start
        BY <4>1 DEF OrderInv
      <4>3. /\ m < n /\ (n <= slot \/ slot < m) => file[m].start < file[n].start
            /\ m <= slot /\ slot < n => file[n].start < file[m].start
        BY <1>0, <1>3, <1>4, <3>3, <4>1, <4>2
      <4> QED BY <1>8, <4>1, <4>3
    <3> QED BY <3>1, <3>2, <3>3
  <2> QED BY <2>1, <2>2, <2>3 DEF OrderInv
<1> QED BY <1>5, <1>6, <1>7, <1>8, <1>11

LEMMA NInvStep == NInv /\ [Next]_vars => NInv'
<1> SUFFICES ASSUME NInv, [Next]_vars PROVE NInv'
  OBVIOUS
<1>0. FileInv /\ SearchInv /\ Len(file) \in Nat
  BY LenProperties DEF NInv, FileInv
<1> USE <1>0 DEF NInv, SearchInv, AtLabels
<1>1. ASSUME NEW t \in 1..MaxTime, Write(t) PROVE NInv'
  <2>1. FileInv' /\ Len(file') >= Len(file) /\ Len(file') \in Nat
    BY <1>1, PutGrows, LenProperties DEF Write, FileInv
  <2> QED BY <1>1, <2>1 DEF Write, search
<1>2. SUFFICES ASSUME UNCHANGED writer PROVE SearchInv'
  <2>1. UNCHANGED writer \/ \E t \in 1..MaxTime : Write(t)
    BY DEF Next, Serve, vars, writer, Accept, Open, Measure, ReadFirst, ReadLast, Turn, ReadBefore,
           ReadAfter, CountRecords, SendRecord, EndRequest
  <2>2. UNCHANGED writer => FileInv'
    BY DEF FileInv, writer
  <2> QED BY <1>1, <1>2, <2>1, <2>2
<1> USE <1>2 DEF writer
<1>3. ASSUME NEW b, NEW e, Accept(b, e) PROVE SearchInv'
  BY <1>3 DEF Accept, search
<1>4. CASE Open
  BY <1>4 DEF Open, search, Finish
<1>5. CASE Measure
  BY <1>5 DEF Measure, Found
<1>6. CASE ReadFirst
  BY <1>6 DEF ReadFirst
<1>7. CASE ReadLast
  BY <1>7 DEF ReadLast
<1>8. CASE Turn
  <2> DEFINE p == Pivot(min_index, max_index)
             way == Bisect(file[p + 1].start, target, file_first, file_last)
  <2>1. /\ p \in Nat /\ p < max_index
        /\ min_index' = MinAfter(way, min_index, p) /\ max_index' = MaxAfter(way, max_index, p)
        /\ pivot_index' = p /\ last_index' = last_index
        /\ pc' = IF max_index' - min_index' > 1 THEN "turn" ELSE "before"
    BY <1>8, PivotBetween DEF Turn
  <2>2. min_index' \in Nat /\ max_index' \in Nat /\ max_index' <= max_index
    BY <1>8, <2>1, TurnNarrows DEF Turn
  <2> HIDE DEF p, way
  <2> QED BY <1>8, <2>1, <2>2 DEF Turn
<1>9. CASE ReadBefore
  BY <1>9 DEF ReadBefore
<1>10. CASE ReadAfter
  BY <1>10 DEF ReadAfter, Found
<1>11. CASE CountRecords
  BY <1>11 DEF CountRecords, search, Finish
<1>12. CASE SendRecord
  BY <1>12 DEF SendRecord, search
<1>13. CASE EndRequest
  BY <1>13 DEF EndRequest, Finish, search
<1>14. CASE UNCHANGED vars
  BY <1>14 DEF vars
<1>15. ASSUME NEW t \in 1..MaxTime, Write(t) PROVE SearchInv'
  BY <1>1, <1>15
<1> QED BY <1>3, <1>4, <1>5, <1>6, <1>7, <1>8, <1>9, <1>10, <1>11, <1>12, <1>13, <1>14, <1>15 DEF Next, Serve

-----------------------------------------------------------------------------
(* What a search in a file left alone finds.                               *)

RequestInv ==
    /\ begin \in Nat /\ end \in Nat /\ finding \in {"first", "last"}
    /\ pc \in {"idle", "open", "range", "walk"} => finding = "first"

\* While archd has not written, what netreq has read is what the file holds, and the
\* target lies between the ends of what is left to search.
LookupInv ==
    quiet /\ Len(file) > 2 =>
        /\ pc \in {"readFirst", "readLast", "turn", "before", "after"} => last_index = Len(file) - 1
        /\ pc \in {"readLast", "turn", "before", "after"} => file_first = Starts[0]
        /\ pc \in {"turn", "before", "after"} => file_last = Starts[last_index]
        /\ pc = "turn" /\ ~AcrossTheSeam(file, target) =>
            Between(Starts, last_index, tip, target, min_index, max_index)
        /\ pc \in {"before", "after"} =>
            /\ 0 < pivot_index /\ pivot_index < last_index /\ max_index <= last_index
            /\ this_record = RecordInfo(file, pivot_index)
            /\ ~AcrossTheSeam(file, target) =>
                \/ Starts[pivot_index] = target
                \/ /\ max_index = min_index + 1 /\ pivot_index \in {min_index, max_index}
                   /\ Between(Starts, last_index, tip, target, min_index, max_index)
        /\ pc = "after" => record_before = RecordInfo(file, pivot_index - 1)

\* Once a search is over, its result is the one promised.
FoundInv ==
    quiet /\ Len(file) > 2 =>
        /\ (pc = "range" \/ finding = "last") /\ ~AcrossTheSeam(file, begin) /\ ~InOverlap(file, begin) =>
            Delivers(file, begin, AfterInclusive, iFirst)
        /\ pc = "range" /\ ~AcrossTheSeam(file, end) => Delivers(file, end, BeforeInclusive, iLast)

LInv == NInv /\ OrderInv /\ RequestInv /\ LookupInv /\ FoundInv

LEMMA InitLInv == Init => LInv
<1> SUFFICES ASSUME Init PROVE LInv
  OBVIOUS
<1>1. NInv
  BY InitNInv
<1>2. Len(file) = 0 /\ tip = -1
  BY EmptySeq DEF Init
<1>3. OrderInv
  BY <1>2 DEF OrderInv
<1>4. RequestInv /\ LookupInv /\ FoundInv
  BY <1>2 DEF Init, RequestInv, LookupInv, FoundInv
<1> QED BY <1>1, <1>3, <1>4 DEF LInv

\* The numbers a turn works with.
LEMMA TurnFacts ==
    ASSUME LInv, quiet, Len(file) > 2, pc \in {"turn", "before", "after"}
    PROVE  /\ last_index \in Nat /\ last_index > 1 /\ last_index = Len(file) - 1
           /\ tip \in 0..last_index /\ Starts \in [0..last_index -> Int]
           /\ Rotated(Starts, last_index, tip) /\ target \in Int
           /\ \A x \in 0..last_index : Starts[x] = file[x + 1].start
           /\ AcrossTheSeam(file, target) <=> (Starts[last_index] < target /\ target <= Starts[0])
<1>1. FileInv /\ OrderInv /\ last_index \in Nat /\ last_index = Len(file) - 1
  BY DEF LInv, NInv, SearchInv, LookupInv
<1>2. Len(file) \in Nat /\ target \in Int
  <2>1. begin \in Int /\ end \in Int
    BY DEF LInv, RequestInv
  <2> QED BY <1>1, <2>1, FileFacts DEF target
<1>3. /\ tip \in 0..last_index /\ Starts \in [0..last_index -> Int]
      /\ Rotated(Starts, last_index, tip)
      /\ \A x \in 0..last_index : Starts[x] = file[x + 1].start
  BY <1>1, <1>2, FileFacts
<1>4. last_index > 1 /\ last_index + 1 = Len(file)
  BY <1>1, <1>2
<1>5. Starts[0] = file[1].start /\ Starts[last_index] = file[Len(file)].start
  BY <1>3, <1>4, <1>1
<1> QED BY <1>1, <1>2, <1>3, <1>4, <1>5 DEF AcrossTheSeam

\* A turn.
LEMMA TurnKeepsBetween ==
    ASSUME LInv, Turn PROVE LookupInv'
<1> SUFFICES ASSUME quiet, Len(file) > 2 PROVE LookupInv'
  BY DEF Turn, history, writer, LookupInv
<1>0. /\ pc = "turn" /\ UNCHANGED <<file, tip, capacity, quiet, begin, end, finding, last_index, file_first, file_last>>
      /\ Starts' = Starts /\ target' = target
  BY DEF Turn, history, writer, request, Starts, target
<1>1. /\ last_index \in Nat /\ last_index > 1 /\ last_index = Len(file) - 1
      /\ tip \in 0..last_index /\ Starts \in [0..last_index -> Int]
      /\ Rotated(Starts, last_index, tip) /\ target \in Int
      /\ \A x \in 0..last_index : Starts[x] = file[x + 1].start
      /\ AcrossTheSeam(file, target) <=> (Starts[last_index] < target /\ target <= Starts[0])
  BY <1>0, TurnFacts
<1>2. /\ file_first = Starts[0] /\ file_last = Starts[last_index]
      /\ ~AcrossTheSeam(file, target) => Between(Starts, last_index, tip, target, min_index, max_index)
  BY <1>0 DEF LInv, LookupInv
<1>3. /\ min_index \in Nat /\ max_index \in Nat /\ max_index - min_index > 1 /\ max_index <= last_index
  BY <1>0 DEF LInv, NInv, SearchInv
<1> DEFINE p == Pivot(min_index, max_index)
           way == Bisect(file[p + 1].start, target, file_first, file_last)
<1>4. p \in Nat /\ min_index < p /\ p < max_index
  BY <1>3, PivotBetween
<1>5. /\ pivot_index' = p /\ this_record' = RecordInfo(file, p)
      /\ min_index' = MinAfter(way, min_index, p) /\ max_index' = MaxAfter(way, max_index, p)
      /\ pc' = IF max_index' - min_index' > 1 THEN "turn" ELSE "before"
  BY DEF Turn
<1>6. p \in 0..last_index
  BY <1>1, <1>3, <1>4
<1>7. way = Bisect(Starts[p], target, Starts[0], Starts[last_index])
  BY <1>1, <1>2, <1>6
<1>8. /\ min_index' \in Nat /\ max_index' \in Nat /\ max_index' <= last_index
      /\ way = "here" => max_index' = p /\ min_index' = p
      /\ pc' = "before" /\ way # "here" => max_index' = min_index' + 1 /\ p \in {min_index', max_index'}
  <2>1. way \in {"left", "right", "here"}
    BY DEF Bisect
  <2> HIDE DEF p, way
  <2> QED BY <1>1, <1>3, <1>4, <1>5, <2>1 DEF MinAfter, MaxAfter
<1>9. ASSUME ~AcrossTheSeam(file, target)
      PROVE  \/ way = "here" /\ Starts[p] = target
             \/ way # "here" /\ Between(Starts, last_index, tip, target, min_index', max_index')
  <2> HIDE DEF p, way
  <2>1. Between(Starts, last_index, tip, target, min_index, max_index)
    BY <1>2, <1>9
  <2>2. ~(Starts[last_index] < target /\ target <= Starts[0])
    BY <1>1, <1>9
  <2>3. GoesOn(Starts, last_index, tip, target, min_index, max_index, p, way)
    BY <1>1, <1>3, <1>4, <1>7, <2>1, <2>2, BetweenTurn
  <2> QED BY <1>5, <2>3 DEF GoesOn
<1>10. pc' \in {"turn", "before"}
  BY <1>5
<1>11. way = "here" => pc' = "before"
  BY <1>4, <1>5, <1>8
<1> HIDE DEF p, way
<1>12. 0 < p /\ p < last_index
  BY <1>3, <1>4, <1>1
<1> QED BY <1>0, <1>1, <1>2, <1>5, <1>8, <1>9, <1>10, <1>11, <1>12 DEF LookupInv

\* The end of a search.
LEMMA SettleFinds ==
    ASSUME LInv, ReadAfter, quiet, Len(file) > 2, ~AcrossTheSeam(file, target),
           finding = "first" => ~InOverlap(file, begin)
    PROVE  /\ finding = "first" => Delivers(file, begin, AfterInclusive, iFirst')
           /\ finding = "last" => Delivers(file, end, BeforeInclusive, iLast')
<1>0. pc = "after"
  BY DEF ReadAfter
<1>1. /\ last_index \in Nat /\ last_index > 1 /\ last_index = Len(file) - 1
      /\ tip \in 0..last_index /\ Starts \in [0..last_index -> Int]
      /\ Rotated(Starts, last_index, tip) /\ target \in Int
      /\ ~(Starts[last_index] < target /\ target <= Starts[0])
  BY <1>0, TurnFacts
<1>2. /\ 0 < pivot_index /\ pivot_index < last_index /\ max_index <= last_index
      /\ this_record = RecordInfo(file, pivot_index) /\ record_before = RecordInfo(file, pivot_index - 1)
      /\ \/ Starts[pivot_index] = target
         \/ /\ max_index = min_index + 1 /\ pivot_index \in {min_index, max_index}
            /\ Between(Starts, last_index, tip, target, min_index, max_index)
      /\ pivot_index \in Nat /\ min_index \in Nat /\ max_index \in Nat
  BY <1>0 DEF LInv, NInv, SearchInv, LookupInv
<1>3. Surrounds(Starts, last_index, target, pivot_index)
  BY <1>1, <1>2, SearchSurrounds
<1>4. IndexAfter(pivot_index, last_index) = pivot_index + 1
  BY <1>2 DEF IndexAfter
<1> DEFINE r == Settle(RecordInfo(file, pivot_index - 1), RecordInfo(file, pivot_index),
                       RecordInfo(file, pivot_index + 1), pivot_index, target, whence)
<1>5. FileInv /\ OrderInv /\ finding \in {"first", "last"}
  BY DEF LInv, NInv, RequestInv
<1>6. whence \in {BeforeInclusive, AfterInclusive} /\ (whence = AfterInclusive => ~InOverlap(file, target))
  BY <1>5 DEF whence, target, BeforeInclusive, AfterInclusive
<1>7. Delivers(file, target, whence, r)
  BY <1>1, <1>2, <1>3, <1>5, <1>6, SettleDelivers
<1>8. (finding = "first" => iFirst' = r) /\ (finding = "last" => iLast' = r)
  BY <1>2, <1>4, <1>5 DEF ReadAfter, Found
<1> HIDE DEF r
<1> QED BY <1>7, <1>8 DEF target, whence

LEMMA LInvStep == LInv /\ [Next]_vars => LInv'
<1> SUFFICES ASSUME LInv, [Next]_vars PROVE LInv'
  OBVIOUS
<1>0. NInv /\ NInv' /\ FileInv /\ SearchInv /\ OrderInv /\ RequestInv /\ LookupInv /\ FoundInv
  BY NInvStep DEF LInv, NInv
<1>1. ASSUME NEW t \in 1..MaxTime, Write(t) PROVE LInv'
  <2>1. OrderInv'
    BY <1>0, <1>1, PutKeepsOrder DEF Write
  <2>2. RequestInv'
    BY <1>0, <1>1 DEF Write, RequestInv, search, request
  <2>3. quiet' => pc' \in {"idle", "open", "walk"} /\ finding' = "first"
    BY <1>0, <1>1 DEF Write, RequestInv, search
  <2>4. LookupInv' /\ FoundInv'
    BY <2>3 DEF LookupInv, FoundInv
  <2> QED BY <1>0, <2>1, <2>2, <2>4 DEF LInv
<1>2. SUFFICES ASSUME UNCHANGED writer PROVE RequestInv' /\ LookupInv' /\ FoundInv'
  <2>1. UNCHANGED writer \/ \E t \in 1..MaxTime : Write(t)
    BY DEF Next, Serve, vars, writer, Accept, Open, Measure, ReadFirst, ReadLast, Turn, ReadBefore,
           ReadAfter, CountRecords, SendRecord, EndRequest
  <2>2. UNCHANGED writer => OrderInv'
    BY <1>0 DEF OrderInv, writer
  <2> QED BY <1>0, <1>1, <1>2, <2>1, <2>2 DEF LInv
<1>3. /\ file' = file /\ tip' = tip /\ capacity' = capacity /\ Starts' = Starts
      /\ Len(file) \in Nat
      /\ begin \in Nat /\ end \in Nat /\ finding \in {"first", "last"}
  BY <1>0, <1>2, LenProperties DEF writer, Starts, FileInv, RequestInv
<1>4. ASSUME NEW b \in 0..(MaxTime + Span + 1), NEW e \in b..(MaxTime + Span + 1), Accept(b, e)
      PROVE  RequestInv' /\ LookupInv' /\ FoundInv'
  <2>1. b \in Nat /\ e \in Nat
    BY TimeAssumption
  <2> QED BY <1>0, <1>3, <1>4, <2>1 DEF Accept, search, range, history, RequestInv, LookupInv, FoundInv
<1>5. ASSUME Open \/ CountRecords \/ SendRecord \/ EndRequest
      PROVE  RequestInv' /\ LookupInv' /\ FoundInv'
  <2>1. /\ finding = "first" /\ finding' = "first"
        /\ pc' \in {"idle", "size", "walk"}
        /\ begin' \in Nat /\ end' \in Nat
    <3>0. pc \in {"open", "range", "walk"} /\ finding = "first" /\ finding' = finding
      BY <1>0, <1>5 DEF Open, CountRecords, SendRecord, EndRequest, search, RequestInv
    <3>1. CASE Open
      BY <1>3, <3>0, <3>1 DEF Open, Finish
    <3>2. CASE CountRecords
      <4>1. Finish \/ (pc' = "walk" /\ begin' = begin /\ end' = end)
        BY <3>2, Zenon DEF CountRecords
      <4> QED BY <1>3, <3>0, <4>1 DEF Finish
    <3>3. CASE SendRecord
      BY <1>3, <3>0, <3>3 DEF SendRecord, request
    <3>4. CASE EndRequest
      BY <1>3, <3>0, <3>4 DEF EndRequest, Finish
    <3> QED BY <1>5, <3>1, <3>2, <3>3, <3>4
  <2> QED BY <2>1 DEF RequestInv, LookupInv, FoundInv
<1>6. CASE Measure
  <2>0. /\ UNCHANGED <<begin, end, quiet>> /\ pc = "size"
        /\ Len(file) > 2 => /\ pc' = "readFirst" /\ last_index' = Len(file) - 1
                            /\ UNCHANGED <<finding, iFirst, iLast>>
    BY <1>3, <1>6 DEF Measure, request, history
  <2>1. RequestInv'
    BY <1>0, <1>3, <1>6, <2>0 DEF Measure, Found, RequestInv
  <2> QED BY <1>0, <1>3, <2>0, <2>1 DEF LookupInv, FoundInv
<1>7. CASE ReadFirst
  <2>1. Len(file) > 2 => Starts[0] = file[1].start
    BY <1>3 DEF Starts
  <2> QED BY <1>0, <1>3, <1>7, <2>1 DEF ReadFirst, range, request, history, RequestInv, LookupInv, FoundInv
<1>8. CASE ReadLast
  <2>0. /\ pc = "readLast" /\ UNCHANGED <<begin, end, finding, quiet, iFirst, iLast, last_index, file_first>>
        /\ file_last' = file[last_index + 1].start /\ min_index' = 0 /\ max_index' = last_index
        /\ pc' \in {"turn", "before"} /\ (last_index > 1 => pc' = "turn")
    BY <1>8 DEF ReadLast, range, request, history
  <2>1. RequestInv' /\ FoundInv'
    BY <1>0, <1>3, <2>0 DEF RequestInv, FoundInv
  <2>2. ASSUME quiet, Len(file) > 2 PROVE LookupInv'
    <3>1. /\ last_index \in Nat /\ last_index > 1 /\ last_index = Len(file) - 1
          /\ file_first = Starts[0]
      BY <1>0, <1>3, <2>0, <2>2 DEF LookupInv
    <3>2. /\ tip \in 0..last_index /\ Starts \in [0..last_index -> Int]
          /\ Rotated(Starts, last_index, tip)
          /\ \A x \in 0..last_index : Starts[x] = file[x + 1].start
      BY <1>0, <1>3, <2>2, <3>1, FileFacts
    <3>3. /\ Starts[0] = file[1].start /\ Starts[last_index] = file[last_index + 1].start
          /\ last_index + 1 = Len(file) /\ target \in Int /\ target' = target
      BY <1>3, <2>0, <3>1, <3>2 DEF target
    <3>4. ASSUME ~AcrossTheSeam(file, target)
          PROVE  Between(Starts, last_index, tip, target, 0, last_index)
      <4>1. ~(Starts[last_index] < target /\ target <= Starts[0])
        BY <3>3, <3>4 DEF AcrossTheSeam
      <4> QED BY <3>1, <3>2, <3>3, <4>1, BetweenEnds
    <3> QED BY <1>3, <2>0, <3>1, <3>3, <3>4 DEF LookupInv
  <2>3. ~(quiet /\ Len(file) > 2) => LookupInv'
    BY <1>3, <2>0 DEF LookupInv
  <2> QED BY <2>1, <2>2, <2>3
<1>9. CASE Turn
  <2>1. RequestInv' /\ FoundInv'
    <3>1. /\ pc = "turn" /\ UNCHANGED <<begin, end, finding, quiet, iFirst, iLast>>
          /\ pc' \in {"turn", "before"}
      BY <1>9 DEF Turn, range, request, history
    <3> QED BY <1>0, <1>3, <3>1 DEF RequestInv, FoundInv
  <2> QED BY <1>9, <2>1, TurnKeepsBetween
<1>10. CASE ReadBefore
  <2>0. /\ pc = "before" /\ pc' = "after"
        /\ UNCHANGED <<begin, end, finding, quiet, iFirst, iLast, last_index, min_index, max_index,
                       pivot_index, file_first, file_last, this_record>>
        /\ record_before' = RecordInfo(file, IndexBefore(pivot_index, last_index))
        /\ target' = target
    BY <1>10 DEF ReadBefore, range, request, history, target
  <2>1. RequestInv' /\ FoundInv'
    BY <1>0, <1>3, <2>0 DEF RequestInv, FoundInv
  <2>2. 0 < pivot_index => IndexBefore(pivot_index, last_index) = pivot_index - 1
    BY <1>0 DEF IndexBefore, SearchInv
  <2>3. LookupInv'
    BY <1>0, <1>3, <2>0, <2>2 DEF LookupInv
  <2> QED BY <2>1, <2>3
<1>11. CASE ReadAfter
  <2>0. /\ pc = "after" /\ UNCHANGED <<begin, end, quiet>>
        /\ finding = "first" => pc' = "size" /\ finding' = "last" /\ UNCHANGED iLast
        /\ finding = "last" => pc' = "range" /\ finding' = "first" /\ UNCHANGED iFirst
    BY <1>3, <1>11 DEF ReadAfter, Found, request, history
  <2>1. RequestInv' /\ LookupInv'
    BY <1>0, <1>3, <2>0 DEF RequestInv, LookupInv
  <2>2. ASSUME quiet, Len(file) > 2 PROVE FoundInv'
    <3>1. CASE finding = "first"
      <4>1. ~AcrossTheSeam(file, begin) /\ ~InOverlap(file, begin) =>
                Delivers(file, begin, AfterInclusive, iFirst')
        BY <1>11, <2>2, <3>1, SettleFinds DEF target
      <4> QED BY <1>3, <2>0, <3>1, <4>1 DEF FoundInv
    <3>2. CASE finding = "last"
      <4>1. ~AcrossTheSeam(file, end) => Delivers(file, end, BeforeInclusive, iLast')
        BY <1>11, <2>2, <3>2, SettleFinds DEF target
      <4> QED BY <1>0, <1>3, <2>0, <2>2, <3>2, <4>1 DEF FoundInv
    <3> QED BY <1>3, <3>1, <3>2
  <2>3. ~(quiet /\ Len(file) > 2) => FoundInv'
    BY <1>3, <2>0 DEF FoundInv
  <2> QED BY <2>1, <2>2, <2>3
<1>12. CASE UNCHANGED vars
  <2>1. target' = target
    BY <1>12 DEF vars, target
  <2> QED BY <1>0, <1>3, <1>12, <2>1 DEF vars, RequestInv, LookupInv, FoundInv
<1>13. ASSUME NEW t \in 1..MaxTime, Write(t) PROVE RequestInv' /\ LookupInv' /\ FoundInv'
  BY <1>1, <1>13 DEF LInv
<1> QED BY <1>4, <1>5, <1>6, <1>7, <1>8, <1>9, <1>10, <1>11, <1>12, <1>13 DEF Next, Serve

-----------------------------------------------------------------------------
(* What a walk after a sound lookup sends.                                 *)

\* After a sound lookup the slots to send hold records that end in time, and so does
\* the newest record: what archd puts over one of them is newer still.
WalkInv ==
    /\ i \in Nat
    /\ pc # "walk" => ~sound /\ sent = <<>>
    /\ sound =>
        /\ opened \in Nat \ {0} /\ opened <= Len(file) /\ iFirst \in Nat /\ iCount \in Nat
        /\ \A n \in 0..(iCount - 1) : file[((iFirst + n) % opened) + 1].end >= begin
        /\ file[tip + 1].end >= begin
        /\ sent \in Seq(Record) /\ \A k \in 1..Len(sent) : sent[k].end >= begin

\* A set of more than one element has two.
LEMMA TwoMembers ==
    ASSUME NEW S, IsFiniteSet(S), Cardinality(S) > 1
    PROVE  \E a \in S : \E b \in S : a # b
<1> SUFFICES ASSUME ~\E a \in S : \E b \in S : a # b PROVE FALSE
  OBVIOUS
<1>1. CASE S = {}
  BY <1>1, FS_EmptySet
<1>2. CASE S # {}
  <2>1. PICK a : a \in S
    BY <1>2
  <2>2. S = {a}
    BY <2>1
  <2>3. Cardinality(S) = 1
    BY <2>2, FS_Singleton
  <2> QED BY <2>3
<1> QED BY <1>1, <1>2

LEMMA ModOnce ==
    ASSUME NEW c \in Nat, NEW d \in Nat, d > 0
    PROVE  /\ c < d => c % d = c
           /\ d <= c /\ c - d < d => c % d = c - d
OBVIOUS

\* On a rotated file, going round from one record to a later one meets later ones only.
LEMMA LaterOnTheWay ==
    ASSUME NEW last \in Nat, NEW tp \in 0..last, NEW S \in [0..last -> Int], Rotated(S, last, tp),
           NEW a \in 0..last, NEW b \in 0..last, S[a] < S[b],
           NEW size \in Nat, size = last + 1, NEW n \in Nat, n < RecordCount(a, b, size)
    PROVE  /\ (a + n) % size \in 0..last
           /\ S[a] <= S[(a + n) % size]
<1>0. \A k \in 0..last : S[k] \in Int
  OBVIOUS
<1>1. a # b
  BY <1>0
<1>2. PICK c \in Nat : c = a + n
  OBVIOUS
<1> SUFFICES \E x \in 0..last : c % size = x /\ (x = a \/ S[a] < S[x])
  <2> SUFFICES ASSUME NEW x \in 0..last, c % size = x, x = a \/ S[a] < S[x]
               PROVE  (a + n) % size = x /\ S[a] <= S[x]
    OBVIOUS
  <2> QED BY <1>0, <1>2
<1>3. CASE a < b
  <2>1. c < b /\ c \in 0..last /\ a <= c
    BY <1>2, <1>3 DEF RecordCount
  <2>2. c % size = c
    <3>1. size \in Nat /\ size > 0 /\ c < size
      BY <2>1
    <3> QED BY ONLY c \in Nat, <3>1, ModOnce
  <2>3. b <= tp \/ tp < a
    BY <1>0, <1>3 DEF Rotated
  <2>4. c = a \/ S[a] < S[c]
    BY <2>1, <2>3 DEF Rotated
  <2> QED BY <2>1, <2>2, <2>4
<1>4. CASE b < a
  <2>1. c < size + b /\ a <= c
    BY <1>2, <1>4 DEF RecordCount
  <2>2. b <= tp /\ tp < a
    BY <1>0, <1>4 DEF Rotated
  <2>3. CASE c <= last
    <3>1. c % size = c /\ c \in 0..last
      <4>1. size \in Nat /\ size > 0 /\ c < size /\ c \in 0..last
        BY <2>3
      <4> QED BY ONLY c \in Nat, <4>1, ModOnce
    <3>2. c = a \/ S[a] < S[c]
      BY <2>1, <2>2, <3>1 DEF Rotated
    <3> QED BY <3>1, <3>2
  <2>4. CASE last < c
    <3>1. PICK x \in Nat : x = c - size
      BY <2>4
    <3>2. x < b /\ x \in 0..last
      BY <2>1, <3>1
    <3>3. c % size = x
      <4>1. size \in Nat /\ size > 0 /\ size <= c /\ c - size < size
        BY <2>4, <3>1, <3>2
      <4>2. c % size = c - size
        BY ONLY c \in Nat, <4>1, ModOnce
      <4> QED BY ONLY <3>1, <4>2
    <3>4. S[a] < S[x]
      BY <2>2, <3>2 DEF Rotated
    <3> QED BY <3>2, <3>3, <3>4
  <2> QED BY <2>3, <2>4
<1> QED BY <1>1, <1>3, <1>4

\* A sound lookup whose range holds two records: all the slots to send end in time.
LEMMA RangeIsRecent ==
    ASSUME LInv, pc = "range", quiet, opened = Len(file), Len(file) > 2, Cardinality(RecordsWithin) > 1,
           ~AcrossTheSeam(file, begin), ~AcrossTheSeam(file, end), ~InOverlap(file, begin)
    PROVE  /\ iFirst \in Nat /\ RecordCount(iFirst, iLast, opened) \in Nat
           /\ \A n \in 0..(RecordCount(iFirst, iLast, opened) - 1) :
                file[((iFirst + n) % opened) + 1].end >= begin
           /\ file[tip + 1].end >= begin
<1>0. /\ FileInv /\ OrderInv /\ begin \in Nat /\ end \in Nat /\ Span \in Nat
      /\ Delivers(file, begin, AfterInclusive, iFirst) /\ Delivers(file, end, BeforeInclusive, iLast)
  BY TimeAssumption DEF LInv, NInv, RequestInv, FoundInv
<1>a. PICK last \in Nat : last = Len(file) - 1 /\ last > 1
  <2>1. Len(file) \in Nat
    BY <1>0, FileFacts
  <2>2. Len(file) - 1 \in Nat /\ Len(file) - 1 > 1
    BY <2>1
  <2> QED BY <2>2
<1>b. PICK s \in [0..last -> Int] : s = Starts
  BY <1>0, <1>a, FileFacts
<1>c. \A x \in 0..last : s[x] \in Int
  OBVIOUS
<1>1. /\ tip \in 0..last /\ Rotated(s, last, tip)
      /\ \A x \in 0..last : file[x + 1].start = s[x]
  BY <1>0, <1>a, <1>b, FileFacts
<1>2. Len(file) \in Nat /\ Len(file) = last + 1 /\ \A x \in 0..last : x + 1 \in 1..Len(file)
  <2>1. Len(file) \in Nat
    BY <1>0, FileFacts
  <2> QED BY <1>a, <2>1
<1>3. \A x \in 0..last : file[x + 1].end = s[x] + Span
  BY <1>0, <1>1, <1>2 DEF OrderInv
<1>4. PICK a \in 0..last : \E b \in 0..last :
        a # b /\ s[a] + Span >= begin /\ s[a] <= end /\ s[b] + Span >= begin /\ s[b] <= end
  <2>1. IsFiniteSet(RecordsWithin)
    <3>1. IsFiniteSet(1..Len(file))
      BY <1>2, FS_Interval
    <3>2. RecordsWithin \subseteq 1..Len(file)
      BY DEF RecordsWithin
    <3> QED BY <3>1, <3>2, FS_Subset
  <2>2. PICK m \in RecordsWithin : \E n \in RecordsWithin : m # n
    BY <2>1, TwoMembers
  <2>3. PICK n \in RecordsWithin : m # n
    BY <2>2
  <2>4. /\ m \in 1..Len(file) /\ file[m].end >= begin /\ file[m].start <= end
        /\ n \in 1..Len(file) /\ file[n].end >= begin /\ file[n].start <= end
    BY DEF RecordsWithin
  <2>5. PICK x \in 0..last : m = x + 1
    <3>1. m - 1 \in 0..last /\ m = (m - 1) + 1
      BY <1>2, <2>4
    <3> QED BY <3>1
  <2>6. PICK y \in 0..last : n = y + 1
    <3>1. n - 1 \in 0..last /\ n = (n - 1) + 1
      BY <1>2, <2>4
    <3> QED BY <3>1
  <2>7. /\ s[x] + Span >= begin /\ s[x] <= end /\ s[y] + Span >= begin /\ s[y] <= end
    BY <1>1, <1>3, <2>4, <2>5, <2>6
  <2>8. x # y
    BY <2>3, <2>5, <2>6
  <2> QED BY <2>7, <2>8
<1>5. PICK b \in 0..last :
        a # b /\ s[a] + Span >= begin /\ s[a] <= end /\ s[b] + Span >= begin /\ s[b] <= end
  BY <1>4
<1>6. \A x \in 0..last : /\ Fits(file[x + 1], begin, AfterInclusive) <=> s[x] + Span >= begin
                         /\ Nearness(file[x + 1], AfterInclusive) = -(s[x] + Span)
  BY <1>3 DEF Fits, Nearness, BeforeExclusive, BeforeInclusive, Within, AfterInclusive, AfterExclusive
<1>7. \A x \in 0..last : /\ Fits(file[x + 1], end, BeforeInclusive) <=> s[x] <= end
                         /\ Nearness(file[x + 1], BeforeInclusive) = s[x]
  BY <1>1 DEF Fits, Nearness, BeforeExclusive, BeforeInclusive, Within, AfterInclusive, AfterExclusive
<1>8. /\ iFirst \in 0..last /\ s[iFirst] + Span >= begin
      /\ \A x \in 0..last : s[x] + Span >= begin => s[iFirst] <= s[x]
  <2>1. iFirst \in BestFits(file, begin, AfterInclusive)
    BY <1>0, <1>a, <1>5, <1>6 DEF Delivers
  <2>2. /\ iFirst \in 0..last /\ Fits(file[iFirst + 1], begin, AfterInclusive)
        /\ \A x \in 0..last : Fits(file[x + 1], begin, AfterInclusive) =>
              Nearness(file[x + 1], AfterInclusive) <= Nearness(file[iFirst + 1], AfterInclusive)
    BY <1>a, <2>1 DEF BestFits, AfterInclusive, Within
  <2>3. \A x \in 0..last : s[x] + Span >= begin => -(s[x] + Span) <= -(s[iFirst] + Span)
    BY <1>6, <2>2
  <2>4. \A x \in 0..last : s[x] + Span >= begin => s[iFirst] <= s[x]
    BY <1>0, <1>c, <2>2, <2>3
  <2> QED BY <1>6, <2>2, <2>4
<1>9. /\ iLast \in 0..last /\ s[iLast] <= end
      /\ \A x \in 0..last : s[x] <= end => s[x] <= s[iLast]
  <2>1. iLast \in BestFits(file, end, BeforeInclusive)
    BY <1>0, <1>a, <1>5, <1>7 DEF Delivers
  <2>2. /\ iLast \in 0..last /\ Fits(file[iLast + 1], end, BeforeInclusive)
        /\ \A x \in 0..last : Fits(file[x + 1], end, BeforeInclusive) =>
              Nearness(file[x + 1], BeforeInclusive) <= Nearness(file[iLast + 1], BeforeInclusive)
    BY <1>a, <2>1 DEF BestFits, BeforeInclusive, Within
  <2> QED BY <1>7, <2>2
<1>10. s[iFirst] < s[iLast]
  <2>1. s[a] # s[b]
    <3>1. s[a] < s[b] \/ s[b] < s[a]
      BY <1>1, <1>5 DEF Rotated
    <3> QED BY <1>c, <3>1
  <2>2. s[iFirst] <= s[a] /\ s[a] <= s[iLast] /\ s[iFirst] <= s[b] /\ s[b] <= s[iLast]
    BY <1>5, <1>8, <1>9
  <2> QED BY <1>c, <1>8, <1>9, <2>1, <2>2
<1>11. opened \in Nat /\ opened = last + 1
  BY <1>2
<1>12. ASSUME NEW n \in 0..(RecordCount(iFirst, iLast, opened) - 1)
       PROVE  file[((iFirst + n) % opened) + 1].end >= begin
  <2>1. n \in Nat /\ n < RecordCount(iFirst, iLast, opened)
    BY <1>8, <1>9, <1>11 DEF RecordCount
  <2>2. PICK x : x = (iFirst + n) % opened
    OBVIOUS
  <2>3. x \in 0..last /\ s[iFirst] <= s[x]
    BY <1>1, <1>8, <1>9, <1>10, <1>11, <2>1, <2>2, LaterOnTheWay
  <2>4. s[x] + Span >= begin
    BY <1>0, <1>c, <1>8, <2>3
  <2> QED BY <1>3, <2>2, <2>3, <2>4
<1>13. file[tip + 1].end >= begin
  <2>1. file[iFirst + 1].start <= file[tip + 1].start
    BY <1>0, <1>2, <1>8, TipIsNewest
  <2>2. s[iFirst] <= s[tip]
    BY <1>1, <1>8, <2>1
  <2>3. s[tip] + Span >= begin
    BY <1>0, <1>c, <1>1, <1>8, <2>2
  <2> QED BY <1>1, <1>3, <2>3
<1>14. RecordCount(iFirst, iLast, opened) \in Nat
  BY <1>8, <1>9, <1>11 DEF RecordCount
<1> QED BY <1>8, <1>12, <1>13, <1>14

\* archd's write, while netreq walks.
LEMMA WriteKeepsWalk ==
    ASSUME LInv, WalkInv, NEW t \in 1..MaxTime, Write(t)
    PROVE  WalkInv'
<1>0. /\ FileInv /\ OrderInv /\ Put(t) /\ FileInv' /\ Len(file') >= Len(file)
      /\ UNCHANGED <<pc, opened, sound, iFirst, iCount, i, sent, begin>>
  BY PutGrows DEF LInv, NInv, Write, range, request
<1> SUFFICES ASSUME sound PROVE WalkInv'
  BY <1>0 DEF WalkInv
<1>1. /\ opened \in Nat \ {0} /\ opened <= Len(file) /\ iFirst \in Nat /\ iCount \in Nat /\ i \in Nat
      /\ \A n \in 0..(iCount - 1) : file[((iFirst + n) % opened) + 1].end >= begin
      /\ file[tip + 1].end >= begin /\ pc = "walk"
      /\ sent \in Seq(Record) /\ \A k \in 1..Len(sent) : sent[k].end >= begin
  BY DEF WalkInv
<1>2. /\ tip' + 1 \in 1..Len(file') /\ file'[tip' + 1] = RecordAt(t)
      /\ \A m \in 1..Len(file') : m # tip' + 1 => m \in 1..Len(file) /\ file'[m] = file[m]
      /\ Len(file) > 0 => file[tip + 1].start < t
  BY <1>0, PutKeepsOrder
<1>3. Len(file) \in Nat /\ Len(file') \in Nat /\ Len(file) > 0
  BY <1>0, <1>1, LenProperties DEF FileInv
<1>4. file'[tip' + 1].end >= begin
  <2>1. tip + 1 \in 1..Len(file)
    <3>1. tip \in 0..(Len(file) - 1)
      BY <1>0, <1>3, FileFacts
    <3> QED BY <1>3, <3>1
  <2>2. file[tip + 1].end = file[tip + 1].start + Span /\ file[tip + 1].start \in Int
    BY <1>0, <1>3, <2>1, FileFacts DEF OrderInv
  <2>3. begin \in Nat /\ Span \in Nat
    BY TimeAssumption DEF LInv, RequestInv
  <2>4. t + Span >= begin
    BY <1>1, <1>2, <1>3, <2>2, <2>3
  <2> QED BY <1>2, <2>4 DEF RecordAt
<1>5. ASSUME NEW n \in 0..(iCount - 1) PROVE file'[((iFirst + n) % opened) + 1].end >= begin
  <2>1. PICK x \in Nat : x = iFirst + n
    BY <1>1
  <2>2. x % opened \in 0..(opened - 1)
    BY <1>1
  <2>3. PICK m : m = (x % opened) + 1
    OBVIOUS
  <2>4. m \in 1..Len(file')
    BY <1>0, <1>1, <1>3, <2>2, <2>3
  <2>5. file[m].end >= begin
    BY <1>1, <2>1, <2>3
  <2>6. file'[m].end >= begin
    BY <1>2, <1>4, <2>4, <2>5
  <2> QED BY <2>1, <2>3, <2>6
<1>6. opened <= Len(file')
  BY <1>0, <1>1, <1>3
<1> QED BY <1>0, <1>1, <1>4, <1>5, <1>6 DEF WalkInv

LEMMA WalkInvStep == LInv /\ WalkInv /\ [Next]_vars => WalkInv'
<1> SUFFICES ASSUME LInv, WalkInv, [Next]_vars PROVE WalkInv'
  OBVIOUS
<1>1. ASSUME NEW t \in 1..MaxTime, Write(t) PROVE WalkInv'
  BY <1>1, WriteKeepsWalk
<1>2. ASSUME NEW b, NEW e, Accept(b, e) PROVE WalkInv'
  BY <1>2 DEF Accept, history, range, WalkInv
<1>3. CASE Open
  BY <1>3 DEF Open, Finish, history, range, WalkInv
<1>4. CASE Measure
  BY <1>4 DEF Measure, Found, history, WalkInv
<1>5. CASE ReadFirst \/ ReadLast \/ Turn \/ ReadBefore
  BY <1>5 DEF ReadFirst, ReadLast, Turn, ReadBefore, history, range, WalkInv
<1>6. CASE ReadAfter
  BY <1>6 DEF ReadAfter, Found, history, WalkInv
<1>7. CASE CountRecords
  <2>1. pc = "range" /\ sent = <<>> /\ UNCHANGED <<opened, file, tip>>
    BY <1>7 DEF CountRecords, WalkInv, writer
  <2>2. CASE Finish
    BY <2>2 DEF Finish, WalkInv
  <2>3. CASE ~(RecordCount(iFirst, iLast, opened) < 1)
    <3>1. /\ pc' = "walk" /\ iCount' = RecordCount(iFirst, iLast, opened)
          /\ UNCHANGED <<iFirst, i, sent, begin>>
      BY <1>7, <2>3, Zenon DEF CountRecords
    <3>2. sound' => (/\ quiet /\ opened = Len(file) /\ Len(file) > 2
                     /\ Cardinality(RecordsWithin) > 1
                     /\ ~AcrossTheSeam(file, begin) /\ ~AcrossTheSeam(file, end)
                     /\ ~InOverlap(file, begin))
      BY <1>7, <2>3, Zenon DEF CountRecords
    <3>3. CASE ~sound'
      BY <3>1, <3>3 DEF WalkInv
    <3>4. CASE sound'
      <4>1. /\ iFirst \in Nat /\ RecordCount(iFirst, iLast, opened) \in Nat
            /\ \A n \in 0..(RecordCount(iFirst, iLast, opened) - 1) :
                 file[((iFirst + n) % opened) + 1].end >= begin
            /\ file[tip + 1].end >= begin
        BY <2>1, <3>2, <3>4, RangeIsRecent
      <4>2. Len(file) \in Nat /\ i \in Nat
        BY LenProperties DEF LInv, NInv, FileInv, WalkInv
      <4>3. sent' \in Seq(Record) /\ Len(sent') = 0
        BY <2>1, <3>1, EmptySeq
      <4> QED BY <2>1, <3>1, <3>2, <3>4, <4>1, <4>2, <4>3 DEF WalkInv
    <3> QED BY <3>3, <3>4
  <2> QED BY <1>7, <2>2, <2>3 DEF CountRecords
<1>8. CASE SendRecord
  <2>1. /\ pc = "walk" /\ i < iCount /\ Slot >= 0 /\ Slot < Len(file)
        /\ sent' = Append(sent, file[Slot + 1]) /\ i' = i + 1
        /\ UNCHANGED <<pc, opened, iFirst, iCount, file, tip, begin, sound>>
    BY <1>8 DEF SendRecord, writer, request, history
  <2>2. CASE ~sound
    <3>1. i' \in Nat
      BY <2>1 DEF WalkInv
    <3> QED BY <2>1, <2>2, <3>1 DEF WalkInv
  <2>3. CASE sound
    <3>1. /\ opened \in Nat \ {0} /\ opened <= Len(file) /\ iFirst \in Nat /\ iCount \in Nat /\ i \in Nat
          /\ \A n \in 0..(iCount - 1) : file[((iFirst + n) % opened) + 1].end >= begin
          /\ file[tip + 1].end >= begin
          /\ sent \in Seq(Record) /\ \A k \in 1..Len(sent) : sent[k].end >= begin
      BY <2>3 DEF WalkInv
    <3>2. Slot = (iFirst + i) % opened
      BY <3>1 DEF Slot
    <3>3. file[Slot + 1].end >= begin
      <4>1. i \in 0..(iCount - 1)
        BY <2>1, <3>1
      <4> QED BY <3>1, <3>2, <4>1
    <3>4. file[Slot + 1] \in Record
      <4>1. file \in Seq(Record) /\ Len(file) \in Nat
        BY LenProperties DEF LInv, NInv, FileInv
      <4>2. Slot \in Int
        BY <3>1, <3>2
      <4>3. Slot + 1 \in 1..Len(file)
        BY <2>1, <4>1, <4>2
      <4> QED BY <4>1, <4>3, ElementOfSeq
    <3>5. /\ sent' \in Seq(Record) /\ Len(sent') = Len(sent) + 1 /\ sent'[Len(sent) + 1] = file[Slot + 1]
          /\ \A k \in 1..Len(sent) : sent'[k] = sent[k]
      BY <2>1, <3>1, <3>4, AppendProperties
    <3>6. Len(sent) \in Nat
      BY <3>1, LenProperties
    <3>7. \A k \in 1..Len(sent') : k \in 1..Len(sent) \/ k = Len(sent) + 1
      BY <3>5, <3>6
    <3>8. \A k \in 1..Len(sent') : sent'[k].end >= begin
      BY <3>1, <3>3, <3>5, <3>7
    <3>9. i' \in Nat
      BY <2>1, <3>1
    <3> QED BY <2>1, <2>3, <3>1, <3>5, <3>8, <3>9 DEF WalkInv
  <2> QED BY <2>2, <2>3
<1>9. CASE EndRequest
  BY <1>9 DEF EndRequest, Finish, WalkInv
<1>10. CASE UNCHANGED vars
  BY <1>10 DEF vars, WalkInv
<1> QED BY <1>1, <1>2, <1>3, <1>4, <1>5, <1>6, <1>7, <1>8, <1>9, <1>10 DEF Next, Serve

-----------------------------------------------------------------------------
\* The bounds hold for any capacities, times and number of requests.
THEOREM SearchInvariance == Spec => []NInv
<1> QED BY InitNInv, NInvStep, PTL DEF Spec

\* Every index adl_locate_index works out is a record of the file, although archd
\* writes between its reads.
THEOREM SearchStaysInFile == Spec => []SearchInFile
<1>1. NInv => SearchInFile
  BY PivotBetween DEF NInv, SearchInv, SearchInFile
<1> QED BY SearchInvariance, <1>1, PTL

\* In a file of at least three records that archd leaves alone, adl_locate_index
\* finds the record its comments promise, for every capacity, length of a record
\* and rotation of the file.
THEOREM SearchFindsPromised == Spec => []SearchFinds
<1>1. Spec => []LInv
  BY InitLInv, LInvStep, PTL DEF Spec
<1>2. LInv => SearchFinds
  BY DeliversAsPromised DEF LInv, FoundInv, SearchFinds
<1> QED BY <1>1, <1>2, PTL

\* After a sound lookup the client gets no record that ended before the time it
\* asked for, however far archd overwrites the file while TransferData walks it.
THEOREM NothingOlderIsSent == Spec => []SendsNothingOlder
<1>1. Init => LInv /\ WalkInv
  BY InitLInv DEF Init, WalkInv
<1>2. (LInv /\ WalkInv) /\ [Next]_vars => (LInv /\ WalkInv)'
  BY LInvStep, WalkInvStep
<1>3. WalkInv => SendsNothingOlder
  BY DEF WalkInv, SendsNothingOlder
<1> QED BY <1>1, <1>2, <1>3, PTL DEF Spec

\* Each turn of adl_locate_index leaves less to search: the loop ends.
THEOREM SearchAlwaysNarrows == Spec => SearchNarrows
<1>1. NInv /\ [Next]_vars =>
        [pc = "turn" => max_index' - min_index' < max_index - min_index]_<<min_index, max_index, pivot_index>>
  <2> SUFFICES ASSUME NInv, Next, pc = "turn", ~UNCHANGED <<min_index, max_index, pivot_index>>
               PROVE  max_index' - min_index' < max_index - min_index
    BY DEF vars
  <2>1. Turn
    BY DEF Next, Serve, Write, Accept, Open, Measure, ReadFirst, ReadLast, ReadBefore, ReadAfter,
           CountRecords, SendRecord, EndRequest, search
  <2> QED BY <2>1, TurnNarrows DEF NInv, SearchInv, Turn
<1> QED BY SearchInvariance, <1>1, PTL DEF Spec, SearchNarrows
==============================================================================
