------------------------------ MODULE LoopFile ------------------------------
(***************************************************************************)
(* What archd promises the processes that read a channel's loop file: a    *)
(* record goes behind the newest one, over the oldest when the loop is     *)
(* full, and starts later than the newest one does.                        *)
(***************************************************************************)
EXTENDS LoopSearch

CONSTANTS
    Span,     \* the time a record covers
    MaxTime   \* bound on start times

VARIABLES
    file,      \* the records of the .buf file
    tip,       \* the slot of the newest one, -1 in an empty file
    capacity   \* the slots of the loop

RecordAt(t) == [start |-> t, end |-> t + Span]

NextSlot == IF tip + 1 >= capacity THEN 0 ELSE tip + 1

\* The record that starts at t reaches the file.
Put(t) ==
    LET slot == NextSlot + 1
    IN  /\ tip >= 0 => t > file[tip + 1].start
        /\ slot <= Len(file) + 1
        /\ file' = IF slot <= Len(file) THEN [file EXCEPT ![slot] = RecordAt(t)]
                   ELSE Append(file, RecordAt(t))
        /\ tip' = slot - 1
        /\ UNCHANGED capacity

WriterNext == \E t \in 1..MaxTime : Put(t)
==============================================================================
