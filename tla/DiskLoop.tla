------------------------------ MODULE DiskLoop ------------------------------
(***************************************************************************)
(* lib/disklooplib.c, the adl_* functions: one channel's circular archive, *)
(* as archd writes it.  A loop is two files: the records (.buf) and three  *)
(* copies of "last index written, capacity" (.idx).  The context is what   *)
(* archd remembers of an open loop; it dies with the process, and adl_open *)
(* makes a new one from the two files.                                     *)
(*                                                                         *)
(* A record written stays in the stdio buffer until the next fseek of the  *)
(* stream or a flush, so a killed archd loses at most that one.  The index *)
(* file lags: it is written when index_interval has passed, when a feeder  *)
(* disconnects, and on a clean exit.                                       *)
(*                                                                         *)
(* adl_open begins with a dead read through a null pointer.  A compiler    *)
(* that drops it leaves the behaviour modelled here; one that keeps it     *)
(* ends the process at that call, before anything has changed.             *)
(***************************************************************************)
EXTENDS LoopSearch, SequencesExt

CONSTANTS
    Sizes,       \* the capacities diskloop.config can give the channel
    Span,        \* the time a record covers
    Slack,       \* how far a record may begin before the last one's end
    MaxTime,     \* bound on start times
    LogTimes,    \* the start times of messages in a log channel
    MaxWrites,   \* bound on accepted records
    MaxFaults,   \* bound on kills and failing writes
    MaxResizes,  \* bound on runs of dlresize
    NoFile,      \* a file that does not exist
    Null,        \* no context for the channel
    NoRecord     \* no call of WriteChan is under way

ASSUME SizesAssumption == Sizes \subseteq Nat \ {0}
ASSUME SpanAssumption == Span \in Nat /\ Slack \in Nat /\ Slack < Span
ASSUME TimeAssumption == MaxTime \in Nat \ {0} /\ LogTimes \subseteq 1..MaxTime
ASSUME BoundAssumption == {MaxWrites, MaxFaults, MaxResizes} \subseteq Nat

VARIABLES
    kind,      \* whether the channel's records carry samples ("data") or text ("log")
    buf, idx,  \* the two files
    context,   \* diskloop_context_t, in pDiskLoops
    pending,   \* the write the stream of loop_fp still holds, as a sequence
    writing,   \* the record WriteChan has opened the loop for
    result,    \* what the last call of WriteChan returned
    accepted,  \* history: the writes that succeeded, less those lost with the process
    misled,    \* history: why a restart or dlresize may have gone by a wrong position
    faults, resizes

vars == <<kind, buf, idx, context, pending, writing, result, accepted, misled, faults, resizes>>

Record == [start : 1..MaxTime, end : Nat]
Write == [index : Nat, record : Record]
RecordAt(t) == [start |-> t, end |-> t + Span]
IndexLine == [flip : Int, max : Nat \ {0}]
Context == [index : Nat, size : Nat, capacity : Nat \ {0}, last : Record,
            has_written : BOOLEAN, stamped : BOOLEAN]

ASSUME NoFileAssumption == NoFile \notin Seq(Record) /\ NoFile \notin Seq(IndexLine)
ASSUME NullAssumption == Null \notin Context /\ NoRecord \notin Record

TypeOK ==
    /\ kind \in {"data", "log"}
    /\ buf \in Seq(Record) \cup {NoFile}
    /\ idx \in Seq(IndexLine) \cup {NoFile}
    /\ context \in Context \cup {Null}
    /\ context # Null => context.index < context.capacity /\ context.size <= context.capacity
    /\ pending \in Seq(Write) /\ Len(pending) <= 1
    /\ writing \in Record \cup {NoRecord}
    /\ result \in {"none", "okay", "overlap", "notOpened", "notWritten"}
    /\ accepted \in Seq(Write)
    /\ misled \subseteq {"stale", "unordered", "twoRecords"}
    /\ faults \in 0..MaxFaults /\ resizes \in 0..MaxResizes

-----------------------------------------------------------------------------
(* The files.                                                              *)

\* The records of the file once the stream's write has reached it.
Stored(loop, writes) ==
    IF writes = <<>> THEN loop
    ELSE [i \in 1..Max({Len(loop), writes[1].index + 1}) |->
            IF i = writes[1].index + 1 THEN writes[1].record ELSE loop[i]]

\* Three lines that agree.
Lines(flip, max) == [k \in 1..3 |-> [flip |-> flip, max |-> max]]

\* ParseIndexInfo: the capacities agree unless dlresize was interrupted, so in
\* practice line 1 counts.
ParseIndexInfo(lines) ==
    IF lines[1].flip = lines[2].flip \/ lines[1].max = lines[2].max THEN lines[1] ELSE lines[3]

\* The records of the loop from the oldest to the last written.
Ring(c, loop) ==
    [k \in 1..c.size |-> loop[((c.index - c.size + k + c.capacity) % c.capacity) + 1]]

\* Whether the last record written is in slot i; -1 is that of an empty loop.
IsNewest(i) == i = IF accepted = <<>> THEN -1 ELSE Last(accepted).index

-----------------------------------------------------------------------------
(* Opening.                                                                *)

\* max_time: later than every record.
MaximalTime == MaxTime + Span + 1

\* adl_newest_index; on an error the caller's index stays as it was.
adl_newest_index(loop, capacity, index) ==
    Locate(loop, capacity, MaximalTime, BeforeInclusive, index)

\* The size and index adl_open derives from the files.  newer is the outcome of
\* comparing the record at the index with temp_B, which nothing has filled.
SizeFound(loop, line) == IF Len(loop) < line.max THEN Len(loop) ELSE line.max
\* A slip a maintainer could make here, for the mutation checks.
IndexTrusted(loop, line, newer) == line.flip
IndexFound(loop, line, newer) ==
    IF Len(loop) < line.max THEN Len(loop) - 1
    ELSE IF line.flip >= 0 /\ newer THEN adl_newest_index(loop, line.max, line.flip)
    ELSE line.flip

\* The context adl_open builds, or Null: the index file is not three lines, the
\* index is out of range, or the record at the index cannot be read.
ContextFor(loop, lines, newer) ==
    LET line == ParseIndexInfo(lines)
        index == IndexFound(loop, line, newer)
    IN  IF Len(lines) # 3 \/ line.flip < -1 \/ line.flip >= line.max \/ index \notin 0..(Len(loop) - 1) THEN Null
        ELSE [index |-> index, size |-> SizeFound(loop, line), capacity |-> line.max,
              last |-> loop[index + 1], has_written |-> FALSE, stamped |-> FALSE]

\* Why the position found may not be the last one: the loop is full and either
\* the index is stale and no search finds the end, or a search runs in a loop
\* that is not in order of time or has two records.
Misleads(loop, lines, newer) ==
    LET line == ParseIndexInfo(lines)
        full == Len(loop) >= line.max
        searched == newer /\ Len(loop) = line.max
    IN  {why \in {"stale", "unordered", "twoRecords"} :
            full /\ CASE why = "stale" -> ~searched /\ ~IsNewest(line.flip)
                      [] why = "unordered" -> searched /\ kind = "log"
                      [] why = "twoRecords" -> searched /\ line.max = 2}

\* WriteChan finds the context in the map.
OpenCached(r) ==
    /\ writing = NoRecord /\ context # Null
    /\ writing' = r
    /\ UNCHANGED <<kind, buf, idx, context, pending, result, accepted, misled, faults, resizes>>

\* WriteChan opens the loop; NewBuffer truncates both files if either is missing.
\* If that fails the call is over.
OpenFiles(r, size, newer) ==
    LET fresh == buf = NoFile \/ idx = NoFile
        loop == IF fresh THEN <<>> ELSE buf
        lines == IF fresh THEN Lines(-1, size) ELSE idx
        c == ContextFor(loop, lines, newer)
    IN  /\ writing = NoRecord /\ context = Null
        /\ buf' = loop /\ idx' = lines
        /\ context' = c
        /\ IF c = Null
           THEN writing' = NoRecord /\ result' = "notOpened" /\ UNCHANGED misled
           ELSE /\ writing' = r /\ UNCHANGED result
                /\ misled' = misled \cup Misleads(loop, lines, newer)
        /\ UNCHANGED <<kind, pending, accepted, faults, resizes>>

-----------------------------------------------------------------------------
(* Writing.                                                                *)

\* A slip a maintainer could make here, for the mutation checks.
NeverOverlaps(r) == FALSE
\* Records that carry samples must not begin before the last one's end.
Overlaps(r) == kind = "data" /\ r.start - context.last.end < -Slack

\* adl_write skips a record that overlaps.
SkipOverlap ==
    /\ writing # NoRecord
    /\ Overlaps(writing)
    /\ writing' = NoRecord /\ result' = "overlap"
    /\ UNCHANGED <<kind, buf, idx, context, pending, accepted, misled, faults, resizes>>

\* The slot after the last one written.
NewIndex == IF context.index + 1 >= context.capacity THEN 0 ELSE context.index + 1

\* A slip a maintainer could make here, for the mutation checks.
AppendedKeepingSize(r) == [context EXCEPT !.has_written = TRUE, !.index = NewIndex, !.last = r]
\* The context after fwrite.
Appended(r) ==
    [context EXCEPT
        !.has_written = TRUE,
        !.size = IF @ < context.capacity /\ @ = NewIndex THEN @ + 1 ELSE @,
        !.index = NewIndex,
        !.last = r]

\* adl_write: fseek makes the stream write out the record before.
SeekNext ==
    /\ writing # NoRecord /\ ~Overlaps(writing) /\ pending # <<>>
    /\ buf' = Stored(buf, pending) /\ pending' = <<>>
    /\ UNCHANGED <<kind, idx, context, writing, result, accepted, misled, faults, resizes>>

\* adl_write: fwrite takes the record, and due says whether an interval has
\* passed.  A context that never wrote its index is due.  adl_flush and
\* adl_write_index act because has_written is set.
AdlWrite(due) ==
    LET write == <<[index |-> NewIndex, record |-> writing]>>
        c == Appended(writing)
    IN  /\ writing # NoRecord /\ ~Overlaps(writing) /\ pending = <<>>
        /\ Len(accepted) < MaxWrites
        /\ ~context.stamped => due = "index"
        /\ buf' = IF due = "none" THEN buf ELSE Stored(buf, write)
        /\ pending' = IF due = "none" THEN write ELSE <<>>
        /\ idx' = IF due = "index" THEN Lines(c.index, c.capacity) ELSE idx
        /\ context' = IF due = "index" THEN [c EXCEPT !.stamped = TRUE, !.has_written = FALSE] ELSE c
        /\ accepted' = accepted \o write
        /\ writing' = NoRecord /\ result' = "okay"
        /\ UNCHANGED <<kind, misled, faults, resizes>>

\* fwrite fails.
WriteFails ==
    /\ writing # NoRecord /\ ~Overlaps(writing) /\ pending = <<>>
    /\ faults < MaxFaults /\ faults' = faults + 1
    /\ writing' = NoRecord /\ result' = "notWritten"
    /\ UNCHANGED <<kind, buf, idx, context, pending, accepted, misled, resizes>>

-----------------------------------------------------------------------------
(* Flushing, closing, dying.                                               *)

\* write_index_callback (a feeder has disconnected) does nothing unless a record
\* was written since the index was.
WriteAllIndices ==
    /\ writing = NoRecord /\ context # Null /\ context.has_written
    /\ buf' = Stored(buf, pending) /\ pending' = <<>>
    /\ idx' = Lines(context.index, context.capacity)
    /\ context' = [context EXCEPT !.has_written = FALSE, !.stamped = TRUE]
    /\ UNCHANGED <<kind, writing, result, accepted, misled, faults, resizes>>

\* A slip a maintainer could make here, for the mutation checks.
CloseWithoutIndex ==
    /\ writing = NoRecord /\ context # Null
    /\ buf' = Stored(buf, pending) /\ pending' = <<>>
    /\ context' = Null
    /\ UNCHANGED <<kind, idx, writing, result, accepted, misled, faults, resizes>>
\* adl_close, from adl_close_all when archd is told to exit.
CloseAll ==
    /\ writing = NoRecord /\ context # Null
    /\ buf' = Stored(buf, pending) /\ pending' = <<>>
    /\ idx' = IF context.has_written THEN Lines(context.index, context.capacity) ELSE idx
    /\ context' = Null
    /\ UNCHANGED <<kind, writing, result, accepted, misled, faults, resizes>>

\* The process dies: what the stream held is gone.
Kill ==
    /\ context # Null
    /\ faults < MaxFaults /\ faults' = faults + 1
    /\ accepted' = IF pending = <<>> THEN accepted ELSE Front(accepted)
    /\ context' = Null /\ pending' = <<>> /\ writing' = NoRecord
    /\ UNCHANGED <<kind, buf, idx, result, misled, resizes>>

\* A slip a maintainer could make here, for the mutation checks.
KillIndexFirst(lines) ==
    /\ context # Null /\ context.has_written
    /\ faults < MaxFaults /\ faults' = faults + 1
    /\ idx' = [k \in 1..3 |-> IF k <= lines THEN Lines(context.index, context.capacity)[k] ELSE idx[k]]
    /\ context' = Null /\ writing' = NoRecord /\ pending' = <<>>
    /\ accepted' = IF pending = <<>> THEN accepted ELSE Front(accepted)
    /\ UNCHANGED <<kind, buf, result, misled, resizes>>
\* The process dies inside adl_write_index: the records are flushed and the
\* first lines of the index are new.
KillWritingIndex(lines) ==
    /\ context # Null /\ context.has_written
    /\ faults < MaxFaults /\ faults' = faults + 1
    /\ buf' = Stored(buf, pending) /\ pending' = <<>>
    /\ idx' = [k \in 1..3 |-> IF k <= lines THEN Lines(context.index, context.capacity)[k] ELSE idx[k]]
    /\ context' = Null /\ writing' = NoRecord
    /\ UNCHANGED <<kind, result, accepted, misled, resizes>>

\* The process dies inside NewBuffer: the files made so far are empty.
KillMakingBuffer(made) ==
    /\ context = Null /\ (buf = NoFile \/ idx = NoFile)
    /\ faults < MaxFaults /\ faults' = faults + 1
    /\ buf' = <<>>
    /\ idx' = IF made THEN <<>> ELSE idx
    /\ UNCHANGED <<kind, context, pending, writing, result, accepted, misled, resizes>>

-----------------------------------------------------------------------------
(* dlresize, which is run while archd is stopped.                          *)

\* Only the capacity changes: nothing has wrapped, or the last index is the last slot.
JustTheIndex(line, config) ==
    (Len(buf) < line.max /\ config >= Len(buf)) \/ line.flip = config - 1

\* A slip a maintainer could make here, for the mutation checks.
TruncatedAnyway(line, config) == config
\* The capacity with the truncate option.
TruncatedSize(line, config) == IF line.flip > config THEN line.flip + 1 ELSE config

Resize(config, truncate) ==
    LET line == ParseIndexInfo(idx)
    IN  /\ context = Null /\ buf # NoFile /\ idx # NoFile /\ Len(idx) = 3
        /\ resizes < MaxResizes /\ resizes' = resizes + 1
        /\ line.max # config
        /\ \/ /\ JustTheIndex(line, config)
              /\ idx' = Lines(line.flip, config)
              /\ UNCHANGED buf
           \/ /\ ~JustTheIndex(line, config) /\ truncate
              /\ idx' = Lines(line.flip, TruncatedSize(line, config))
              /\ buf' = SubSeq(buf, 1, line.flip + 1)
        /\ misled' = IF IsNewest(line.flip) THEN misled ELSE misled \cup {"stale"}
        /\ UNCHANGED <<kind, context, pending, writing, result, accepted, faults>>

-----------------------------------------------------------------------------
\* Nothing has been stored of the channel, or a loop of one record, its index
\* written, has been left by a release whose adl_open could start a loop.
Init ==
    /\ kind \in {"data", "log"}
    /\ \/ buf = NoFile /\ idx = NoFile /\ accepted = <<>>
       \/ \E size \in Sizes :
            buf = <<RecordAt(1)>> /\ idx = Lines(0, size) /\ accepted = <<[index |-> 0, record |-> RecordAt(1)]>>
    /\ context = Null /\ pending = <<>> /\ writing = NoRecord /\ result = "none"
    /\ misled = {} /\ faults = 0 /\ resizes = 0

Times == IF kind = "data" THEN 1..MaxTime ELSE LogTimes

WriteChan ==
    \/ \E t \in Times : OpenCached(RecordAt(t))
    \/ \E t \in Times, size \in Sizes, newer \in BOOLEAN : OpenFiles(RecordAt(t), size, newer)
    \/ SkipOverlap
    \/ SeekNext
    \/ \E due \in {"none", "flush", "index"} : AdlWrite(due)
    \/ WriteFails

Next ==
    \/ WriteChan
    \/ WriteAllIndices
    \/ CloseAll
    \/ Kill
    \/ \E lines \in 0..2 : KillWritingIndex(lines)
    \/ \E made \in BOOLEAN : KillMakingBuffer(made)
    \/ \E config \in Sizes, truncate \in BOOLEAN : Resize(config, truncate)

Spec == Init /\ [][Next]_vars

-----------------------------------------------------------------------------
(* Properties.                                                             *)

\* An open loop holds the last records accepted, oldest first, as many as it has
\* room for: writes replace the oldest record, a killed process loses the record
\* in its stream and no other, and adl_open goes on behind the newest one,
\* whatever the index file says, unless it was misled.
HoldsTheLatest ==
    context # Null /\ misled = {} =>
        /\ context.size = Min({Len(Stored(buf, pending)), context.capacity})
        /\ context.size <= Len(accepted)
        /\ Ring(context, Stored(buf, pending))
             = [k \in 1..context.size |-> accepted[Len(accepted) - context.size + k].record]

\* In a loop of records with samples each record accepted begins after the one
\* before, over restarts too: adl_open remembers the last record stored, against
\* which adl_write checks.
KeepsOrder ==
    kind = "data" /\ misled = {} =>
        \A i, j \in 1..Len(accepted) : i < j => accepted[i].record.start < accepted[j].record.start

\* The index file never names a slot the record file does not have, even when
\* archd dies while it writes the one or the other: adl_flush comes first.
IndexNamesStored ==
    buf # NoFile /\ idx # NoFile => \A k \in 1..Len(idx) : idx[k].flip < Len(buf)

\* The file other processes see, and the slot of its newest record.
FileSeen == IF buf = NoFile THEN <<>> ELSE buf
TipSeen ==
    LET stored == IF pending = <<>> THEN accepted ELSE Front(accepted)
    IN  IF stored = <<>> THEN -1 ELSE Last(stored).index
CapacitySeen == IF idx = NoFile \/ idx = <<>> THEN 0 ELSE ParseIndexInfo(idx).max

File == INSTANCE LoopFile WITH file <- FileSeen, tip <- TipSeen, capacity <- CapacitySeen

\* As long as nothing has misled it, archd writes a channel's file the way its
\* readers rely on (LoopFile), whether a record reaches the file by a flush, by
\* the next seek or on exit, and over deaths and restarts; only dlresize
\* does anything else to it.
WritesForReaders ==
    [][kind = "data" /\ misled' = {} /\ resizes' = resizes => File!WriterNext]_FileSeen

\* Only a process that died leaves an index behind that is not the last: after a
\* clean exit the restart and dlresize go by the position of the last record.
StaleOnlyAfterDeath == "stale" \in misled => faults > 0

\* A loop that holds a record can be opened again, whatever happened to archd and
\* whatever size dlresize gave it, but for one: the size that equals the index.
StoredLoopOpens ==
    context = Null /\ buf \notin {NoFile, <<>>} /\ idx # NoFile =>
        \/ \A newer \in BOOLEAN : ContextFor(buf, idx, newer) # Null
        \/ resizes > 0 /\ ParseIndexInfo(idx).flip = ParseIndexInfo(idx).max

\* adl_open starts the loop of a channel nothing has been stored of, as its
\* comment says ("Buffer file does not exist so start a new set").
NewLoopOpens == faults = 0 => result # "notOpened"
==============================================================================
