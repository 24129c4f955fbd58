----------------------------- MODULE LoopSearch -----------------------------
(***************************************************************************)
(* lib/disklooplib.c, adl_locate_index: the binary search for a time in a  *)
(* loop file.  The file is a sequence of records in the order written,     *)
(* rotated: record i of the code is loop[i + 1], and the oldest one may be *)
(* anywhere.  compare_dcc_times is the sign of a difference (SeedTime).    *)
(***************************************************************************)
EXTENDS Integers, Sequences

\* whence: what the record found has to do with the time looked for.
BeforeExclusive == -2
BeforeInclusive == -1
Within == 0
AfterInclusive == 1
AfterExclusive == 2

\* prepare_record_info: a record of the loop and where it is.
RecordInfo(loop, i) == [start |-> loop[i + 1].start, end |-> loop[i + 1].end, index |-> i]

\* A slip a maintainer could make here, for the mutation checks.
BisectUnrotated(current, target, first, last) ==
    IF current < target THEN "right" ELSE IF current > target THEN "left" ELSE "here"
\* Where one turn of the loop goes on from the pivot, given the start times of
\* the pivot, of the record looked for, and of the file's two end records.
Bisect(current, target, first, last) ==
    IF current < target
    THEN IF current < first /\ target > last THEN "left" ELSE "right"
    ELSE IF current > target
    THEN IF current > last /\ target < first THEN "right" ELSE "left"
    ELSE "here"

Pivot(min, max) == min + ((max - min) \div 2)
MinAfter(way, min, pivot) == IF way = "left" THEN min ELSE pivot
MaxAfter(way, max, pivot) == IF way = "right" THEN max ELSE pivot

\* The neighbours of the pivot on the ring.
IndexBefore(pivot, last_index) == IF pivot > 0 THEN pivot - 1 ELSE last_index
IndexAfter(pivot, last_index) == IF pivot < last_index THEN pivot + 1 ELSE 0

\* Whether a record qualifies, and the time by which qualifying ones compare.
Fits(r, target, whence) ==
    CASE whence = BeforeExclusive -> r.end < target
      [] whence = BeforeInclusive -> r.start <= target
      [] whence = Within -> r.start <= target /\ r.end >= target
      [] whence = AfterInclusive -> r.end >= target
      [] whence = AfterExclusive -> r.start > target
      [] OTHER -> FALSE
Nearness(r, whence) ==
    CASE whence = BeforeExclusive -> r.end
      [] whence = BeforeInclusive -> r.start
      [] whence = AfterInclusive -> -r.end
      [] OTHER -> -r.start

\* The switch over whence: the best of the last record read and the pivot's
\* neighbours; INDEX_WITHIN takes the first that fits, starting with the pivot.
Settle(before, this, after, pivot, target, whence) ==
    LET order == <<before, this, after>>
        fit == {k \in 1..3 : Fits(order[k], target, whence)}
        best == {k \in fit : \A j \in fit : Nearness(order[j], whence) <= Nearness(order[k], whence)}
    IN  IF fit = {} THEN -1
        ELSE IF whence = Within
        THEN IF 2 \in fit THEN pivot ELSE IF 1 \in fit THEN before.index ELSE after.index
        ELSE order[CHOOSE k \in best : \A j \in best : k <= j].index

\* The indices one turn of the loop leaves to search between, <<min, max>>.
AfterTurn(loop, target, ends) ==
    LET pivot == Pivot(ends[1], ends[2])
        way == Bisect(loop[pivot + 1].start, target, loop[1].start, loop[Len(loop)].start)
    IN  <<MinAfter(way, ends[1], pivot), MaxAfter(way, ends[2], pivot)>>

\* The last pivot of the search between two indices.
Narrowed(loop, target) ==
    LET narrow[ends \in (0..(Len(loop) - 1)) \X (0..(Len(loop) - 1))] ==
            LET rest == AfterTurn(loop, target, ends)
            IN  IF rest[2] - rest[1] > 1 THEN narrow[rest] ELSE Pivot(ends[1], ends[2])
    IN  narrow
LastPivot(loop, target) ==
    IF Len(loop) > 2 THEN Narrowed(loop, target)[<<0, Len(loop) - 1>>] ELSE 0

\* adl_locate_index in a loop nobody writes to.  unset is what *index held
\* before: a file longer than the capacity cannot be read to its end, and the
\* error is not returned.  With two records the loop does not turn, and the
\* last record read is the last of the file.
Locate(loop, capacity, target, whence, unset) ==
    LET last_index == Len(loop) - 1
        pivot == LastPivot(loop, target)
        this == IF last_index > 1 THEN pivot ELSE last_index
    IN  IF loop = <<>> THEN -1
        ELSE IF last_index = 0 THEN 0
        ELSE IF last_index >= capacity THEN unset
        ELSE Settle(RecordInfo(loop, IndexBefore(pivot, last_index)), RecordInfo(loop, this),
                    RecordInfo(loop, IndexAfter(pivot, last_index)), pivot, target, whence)

-----------------------------------------------------------------------------
(* What the comments of the switch promise, as a reference.                *)

\* The records of the loop that qualify and are not beaten by another.
BestFits(loop, target, whence) ==
    LET fit == {i \in 0..(Len(loop) - 1) : Fits(loop[i + 1], target, whence)}
    IN  {i \in fit : \A j \in fit :
            whence = Within \/ Nearness(loop[j + 1], whence) <= Nearness(loop[i + 1], whence)}

\* Whether an index is the one promised, -1 when no record qualifies.
Promised(loop, target, whence, index) ==
    LET best == BestFits(loop, target, whence)
    IN  IF best = {} THEN index = -1 ELSE index \in best

\* The loop has wrapped, and the time is later than the start of the file's last
\* record but not later than that of its first one: the case a turn of the
\* search mistakes for a time in the other half.
AcrossTheSeam(loop, target) ==
    /\ loop[Len(loop)].start < target
    /\ target <= loop[1].start

\* The time lies in a record and, past its start, in the one that follows: archd
\* tells an overlap from rounding only by its length.  The search goes by start
\* times, and may stop beyond the earlier of the two.
InOverlap(loop, target) ==
    \E m \in 1..Len(loop) : \E n \in 1..Len(loop) :
        /\ loop[m].start < loop[n].start
        /\ loop[n].start < target
        /\ target <= loop[m].end
==============================================================================
