------------------------------- MODULE NetReq -------------------------------
(***************************************************************************)
(* netreq/netreq.c: answers requests for archived data, one client at a    *)
(* time, from the loop file archd is writing (LoopFile).  A request looks  *)
(* up two times in the file by binary search (adl_locate_index, one step   *)
(* per record read), works out how many records lie between, and walks the *)
(* file from the first on.                                                 *)
(*                                                                         *)
(* netreq keeps the context of the loop it opened for an earlier request:  *)
(* its size is that of the file at the time, while the search looks at the *)
(* file as it is.                                                          *)
(***************************************************************************)
EXTENDS LoopFile, FiniteSets

CONSTANTS
    Capacities,   \* the capacities of loops
    MaxRequests,  \* bound on requests
    NoContext     \* the loop has not been opened

ASSUME CapacityAssumption == Capacities \subseteq Nat \ {0}
ASSUME TimeAssumption == Span \in Nat /\ MaxTime \in Nat
ASSUME RequestAssumption == MaxRequests \in Nat

VARIABLES
    pc,         \* where netreq is
    opened,     \* context->size, or NoContext
    begin, end, \* the times requested
    \* adl_locate_index
    finding,            \* "first" or "last": what the search is for
    last_index, min_index, max_index, pivot_index,
    file_first, file_last,     \* start times of the file's end records
    this_record, record_before,
    \* GetRecordRange and TransferData
    iFirst, iLast, iCount, i,
    sent,       \* the records sent to the client
    requests,
    \* history
    quiet,      \* archd has not written while netreq looked the times up
    sound       \* the lookup met none of the cases it gets wrong

writer == <<file, tip, capacity>>
search == <<finding, last_index, min_index, max_index, pivot_index, file_first, file_last,
            this_record, record_before>>
range == <<iFirst, iLast, iCount, i, sent>>
request == <<begin, end, requests>>
history == <<quiet, sound>>
vars == <<file, tip, capacity, pc, opened, begin, end, finding, last_index, min_index, max_index,
          pivot_index, file_first, file_last, this_record, record_before, iFirst, iLast, iCount, i,
          sent, requests, quiet, sound>>

Record == [start : 1..MaxTime, end : Nat]
Info == [start : 1..MaxTime, end : Nat, index : Nat]
AtLabels == {"idle", "open", "size", "readFirst", "readLast", "turn", "before", "after", "range", "walk"}

TypeOK ==
    /\ file \in Seq(Record) /\ Len(file) <= capacity
    /\ capacity \in Capacities /\ tip \in -1..(capacity - 1)
    /\ pc \in AtLabels
    /\ opened \in Nat \cup {NoContext}
    /\ begin \in Nat /\ end \in Nat
    /\ finding \in {"first", "last"}
    /\ {last_index, min_index, max_index, pivot_index} \subseteq 0..(capacity - 1)
    /\ file_first \in Nat /\ file_last \in Nat
    /\ this_record \in Info \cup {NoContext} /\ record_before \in Info \cup {NoContext}
    /\ iFirst \in Int /\ iLast \in Int /\ iCount \in Int /\ i \in Nat
    /\ sent \in Seq(Record)
    /\ requests \in 0..MaxRequests
    /\ quiet \in BOOLEAN /\ sound \in BOOLEAN

target == IF finding = "first" THEN begin ELSE end
whence == IF finding = "first" THEN AfterInclusive ELSE BeforeInclusive

-----------------------------------------------------------------------------
(* archd.                                                                  *)

Write(t) ==
    /\ Put(t)
    /\ quiet' = (quiet /\ pc \in {"idle", "open", "walk"})
    /\ UNCHANGED <<pc, opened, sound>> /\ UNCHANGED search /\ UNCHANGED range /\ UNCHANGED request

-----------------------------------------------------------------------------
(* A request.                                                              *)

\* main, read_socket and process__request: a connection with a valid request.
\* A connection that sends none is closed and changes nothing.
Accept(b, e) ==
    /\ pc = "idle" /\ requests < MaxRequests
    /\ requests' = requests + 1
    /\ begin' = b /\ end' = e
    /\ pc' = "open"
    /\ UNCHANGED opened /\ UNCHANGED writer /\ UNCHANGED search /\ UNCHANGED range /\ UNCHANGED history

\* The log record is sent and the connection closed.
Finish ==
    /\ pc' = "idle"
    /\ iFirst' = 0 /\ iLast' = 0 /\ iCount' = 0 /\ i' = 0 /\ sent' = <<>>
    /\ begin' = 0 /\ end' = 0 /\ quiet' = TRUE /\ sound' = FALSE

\* GetRecordRange opens the loop unless its context is in the map.  An empty
\* loop cannot be opened: the client is told that there are no data.
Open ==
    /\ pc = "open"
    /\ IF opened = NoContext /\ file = <<>>
       THEN Finish /\ UNCHANGED opened
       ELSE /\ opened' = IF opened = NoContext THEN Len(file) ELSE opened
            /\ pc' = "size"
            /\ UNCHANGED <<begin, end>> /\ UNCHANGED range /\ UNCHANGED history
    /\ UNCHANGED requests /\ UNCHANGED writer /\ UNCHANGED search

-----------------------------------------------------------------------------
(* adl_locate_index.                                                       *)

\* The search is over: *index is set, its locals are gone, and adl_range_indices
\* goes on with the second search or GetRecordRange with the result.
Found(index) ==
    /\ IF finding = "first"
       THEN pc' = "size" /\ finding' = "last" /\ iFirst' = index /\ UNCHANGED iLast
       ELSE pc' = "range" /\ finding' = "first" /\ iLast' = index /\ UNCHANGED iFirst
    /\ last_index' = 0 /\ min_index' = 0 /\ max_index' = 0 /\ pivot_index' = 0
    /\ file_first' = 0 /\ file_last' = 0 /\ this_record' = NoContext /\ record_before' = NoContext

\* A slip a maintainer could make here, for the mutation checks.
MeasureTooFar ==
    /\ pc = "size"
    /\ IF Len(file) < 2
       THEN Found(Len(file) - 1)
       ELSE /\ last_index' = Len(file) /\ pc' = "readFirst"
            /\ UNCHANGED <<finding, iFirst, iLast, min_index, max_index, pivot_index,
                           file_first, file_last, this_record, record_before>>
    /\ UNCHANGED <<iCount, i, sent, opened>>
    /\ UNCHANGED writer /\ UNCHANGED request /\ UNCHANGED history
\* The file size; one record is the answer.
Measure ==
    /\ pc = "size"
    /\ IF Len(file) < 2
       THEN Found(Len(file) - 1)
       ELSE /\ last_index' = Len(file) - 1 /\ pc' = "readFirst"
            /\ UNCHANGED <<finding, iFirst, iLast, min_index, max_index, pivot_index,
                           file_first, file_last, this_record, record_before>>
    /\ UNCHANGED <<iCount, i, sent, opened>>
    /\ UNCHANGED writer /\ UNCHANGED request /\ UNCHANGED history

ReadFirst ==
    /\ pc = "readFirst"
    /\ file_first' = file[1].start
    /\ pc' = "readLast"
    /\ UNCHANGED <<opened, finding, last_index, min_index, max_index, pivot_index, file_last,
                   this_record, record_before>>
    /\ UNCHANGED writer /\ UNCHANGED range /\ UNCHANGED request /\ UNCHANGED history

ReadLast ==
    /\ pc = "readLast"
    /\ file_last' = file[last_index + 1].start
    /\ this_record' = RecordInfo(file, last_index)
    /\ min_index' = 0 /\ max_index' = last_index
    /\ pc' = IF last_index > 1 THEN "turn" ELSE "before"
    /\ UNCHANGED <<opened, finding, last_index, pivot_index, file_first, record_before>>
    /\ UNCHANGED writer /\ UNCHANGED range /\ UNCHANGED request /\ UNCHANGED history

\* A slip a maintainer could make here, for the mutation checks.
TurnPastPivot ==
    LET p == Pivot(min_index, max_index) + 1
        way == Bisect(file[p + 1].start, target, file_first, file_last)
    IN  /\ pc = "turn"
        /\ pivot_index' = p
        /\ this_record' = RecordInfo(file, p)
        /\ min_index' = MinAfter(way, min_index, p)
        /\ max_index' = MaxAfter(way, max_index, p)
        /\ pc' = IF max_index' - min_index' > 1 THEN "turn" ELSE "before"
        /\ UNCHANGED <<opened, finding, last_index, file_first, file_last, record_before>>
        /\ UNCHANGED writer /\ UNCHANGED range /\ UNCHANGED request /\ UNCHANGED history
\* One turn of the loop.
Turn ==
    LET p == Pivot(min_index, max_index)
        way == Bisect(file[p + 1].start, target, file_first, file_last)
    IN  /\ pc = "turn"
        /\ pivot_index' = p
        /\ this_record' = RecordInfo(file, p)
        /\ min_index' = MinAfter(way, min_index, p)
        /\ max_index' = MaxAfter(way, max_index, p)
        /\ pc' = IF max_index' - min_index' > 1 THEN "turn" ELSE "before"
        /\ UNCHANGED <<opened, finding, last_index, file_first, file_last, record_before>>
        /\ UNCHANGED writer /\ UNCHANGED range /\ UNCHANGED request /\ UNCHANGED history

ReadBefore ==
    /\ pc = "before"
    /\ record_before' = RecordInfo(file, IndexBefore(pivot_index, last_index))
    /\ pc' = "after"
    /\ UNCHANGED <<opened, finding, last_index, min_index, max_index, pivot_index, file_first,
                   file_last, this_record>>
    /\ UNCHANGED writer /\ UNCHANGED range /\ UNCHANGED request /\ UNCHANGED history

ReadAfter ==
    /\ pc = "after"
    /\ Found(Settle(record_before, this_record,
                    RecordInfo(file, IndexAfter(pivot_index, last_index)),
                    pivot_index, target, whence))
    /\ UNCHANGED <<opened, iCount, i, sent>>
    /\ UNCHANGED writer /\ UNCHANGED request /\ UNCHANGED history

-----------------------------------------------------------------------------
(* TransferData.                                                           *)

\* A slip a maintainer could make here, for the mutation checks.
CountWrapped(first, last, size) == (size - first) + last
\* GetRecordRange: how many records to send.
RecordCount(first, last, size) == IF first < last THEN last - first ELSE (size - first) + last

\* The slots of the file that overlap the time requested.
RecordsWithin == {k \in 1..Len(file) : file[k].end >= begin /\ file[k].start <= end}

CountRecords ==
    LET count == RecordCount(iFirst, iLast, opened)
    IN  /\ pc = "range"
        /\ IF count < 1 THEN Finish
           ELSE /\ pc' = "walk" /\ iCount' = count
                /\ sound' = (/\ quiet /\ opened = Len(file) /\ Len(file) > 2
                             /\ Cardinality(RecordsWithin) > 1
                             /\ ~AcrossTheSeam(file, begin) /\ ~AcrossTheSeam(file, end)
                             /\ ~InOverlap(file, begin))
                /\ UNCHANGED <<iFirst, iLast, i, sent, begin, end, quiet>>
        /\ UNCHANGED <<opened, requests>> /\ UNCHANGED writer /\ UNCHANGED search

\* C's remainder keeps the sign: -1 % n is -1, and the seek fails.
Slot == IF iFirst + i < 0 THEN iFirst + i ELSE (iFirst + i) % opened

\* A record is read and sent.
SendRecord ==
    /\ pc = "walk" /\ i < iCount
    /\ Slot >= 0 /\ Slot < Len(file)
    /\ sent' = Append(sent, file[Slot + 1]) /\ i' = i + 1
    /\ UNCHANGED <<pc, opened, iFirst, iLast, iCount>>
    /\ UNCHANGED writer /\ UNCHANGED search /\ UNCHANGED request /\ UNCHANGED history

\* The loop ends after the last record, at a slot that cannot be read, or when
\* the client has gone or stopped reading: send_record gives up after a number
\* of attempts.
EndRequest ==
    /\ pc = "walk"
    /\ Finish
    /\ UNCHANGED <<opened, requests>> /\ UNCHANGED writer /\ UNCHANGED search

-----------------------------------------------------------------------------
Init ==
    /\ file = <<>> /\ tip = -1 /\ capacity \in Capacities
    /\ pc = "idle" /\ opened = NoContext /\ begin = 0 /\ end = 0 /\ finding = "first"
    /\ last_index = 0 /\ min_index = 0 /\ max_index = 0 /\ pivot_index = 0
    /\ file_first = 0 /\ file_last = 0 /\ this_record = NoContext /\ record_before = NoContext
    /\ iFirst = 0 /\ iLast = 0 /\ iCount = 0 /\ i = 0 /\ sent = <<>>
    /\ requests = 0 /\ quiet = TRUE /\ sound = FALSE

Serve ==
    \/ Open \/ Measure \/ ReadFirst \/ ReadLast \/ Turn \/ ReadBefore \/ ReadAfter
    \/ CountRecords \/ SendRecord \/ EndRequest

Next ==
    \/ \E t \in 1..MaxTime : Write(t)
    \/ \E b \in 0..(MaxTime + Span + 1) : \E e \in b..(MaxTime + Span + 1) : Accept(b, e)
    \/ Serve

\* netreq's own steps are plain calls, or sends it gives up after a time.
Spec == Init /\ [][Next]_vars /\ WF_vars(Serve)

-----------------------------------------------------------------------------
(* Properties.                                                             *)

\* Every index the search has worked out is a record of the file, although archd
\* extends the file and rotates it in between: the slots it goes on to read exist.
SearchInFile ==
    /\ pc \in {"readFirst", "readLast", "turn", "before", "after"} =>
        last_index < Len(file) /\ last_index >= 1
    /\ pc = "turn" => /\ max_index - min_index > 1 /\ max_index <= last_index
                      /\ Pivot(min_index, max_index) \in (min_index + 1)..(max_index - 1)
    /\ pc \in {"before", "after"} => pivot_index <= last_index

\* Each turn of the search leaves less to search, whatever archd writes meanwhile.
SearchNarrows ==
    [][pc = "turn" => max_index' - min_index' < max_index - min_index]_<<min_index, max_index, pivot_index>>

\* In a file of at least three records that archd leaves alone, the search finds
\* what the comments of its switch promise, unless the time lies across the
\* seam of the loop or, for the first record, where two records overlap.
SearchFinds ==
    quiet /\ Len(file) > 2 /\ pc = "range" =>
        /\ ~AcrossTheSeam(file, begin) /\ ~InOverlap(file, begin) =>
            Promised(file, begin, AfterInclusive, iFirst)
        /\ ~AcrossTheSeam(file, end) => Promised(file, end, BeforeInclusive, iLast)

\* After a sound lookup the client gets no record that ended before the time it
\* asked for, although archd goes on overwriting the file netreq walks through:
\* what replaces a record is newer.  The lookup is not sound if archd wrote
\* during it, if the size netreq knows is an old one, if fewer than two records
\* overlap the time requested (netreq then takes the range to go all the way
\* round), or if a time lies across the seam or the first one in an overlap.
SendsNothingOlder == sound => \A k \in 1..Len(sent) : sent[k].end >= begin

\* Every request comes to an end, so that the next client is served.
AlwaysServes == []<>(pc = "idle")

\* "Returns number of records within the time" (GetRecordRange): the number of
\* records to send is that of the records that overlap the time requested.
CountsRecordsWithin ==
    quiet /\ Len(file) > 2 /\ opened = Len(file) /\ pc = "range" =>
        RecordCount(iFirst, iLast, opened) = Cardinality(RecordsWithin)
==============================================================================
