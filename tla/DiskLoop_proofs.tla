--------------------------- MODULE DiskLoop_proofs ---------------------------
(***************************************************************************)
(* Theorems about DiskLoop, for any sizes, times and bounds, whatever      *)
(* archd is killed in the middle of and whatever dlresize does to the      *)
(* files: the index file never names a record that was not stored, and     *)
(* until archd dies it names the last one whenever it is gone by; a loop   *)
(* that holds a record opens again; an open loop holds the last records    *)
(* accepted, in order, because the search adl_open makes ends and finds    *)
(* the newest; and its file changes only the way its readers rely on.      *)
(***************************************************************************)
EXTENDS DiskLoop, SequenceTheorems, WellFoundedInduction, TLAPS

\* The files exist together, and each line of the index names a stored record.
FilesInv ==
    /\ buf \in Seq(Record) \cup {NoFile}
    /\ idx \in Seq(IndexLine) \cup {NoFile}
    /\ idx # NoFile =>
        /\ buf # NoFile
        /\ Len(idx) \in {0, 3}
        /\ \A k \in 1..Len(idx) : -1 <= idx[k].flip /\ idx[k].flip < Len(buf)

\* The stream holds at most one write, which extends the file by at most one
\* record, and only while the loop is open.
StreamInv ==
    /\ pending \in Seq(Write) /\ Len(pending) <= 1
    /\ pending # <<>> => context # Null /\ buf # NoFile /\ pending[1].index <= Len(buf)
    /\ writing \in Record \cup {NoRecord}
    /\ writing # NoRecord => context # Null

\* The position archd remembers is in the file once the stream is written out.
ContextInv ==
    context # Null =>
        /\ context \in Context
        /\ buf # NoFile /\ idx # NoFile /\ Len(idx) = 3
        /\ context.index < Len(Stored(buf, pending))

LInv == FilesInv /\ StreamInv /\ ContextInv

-----------------------------------------------------------------------------
(* Operators.                                                              *)

LEMMA MaxOfTwo ==
    ASSUME NEW a \in Int, NEW b \in Int
    PROVE  Max({a, b}) = IF a >= b THEN a ELSE b
<1> DEFINE m == IF a >= b THEN a ELSE b
<1>1. m \in {a, b} /\ \A y \in {a, b} : m >= y
  OBVIOUS
<1>2. \A x \in {a, b} : (\A y \in {a, b} : x >= y) => x = m
  OBVIOUS
<1> QED BY <1>1, <1>2 DEF Max

\* A write at most one record behind the end leaves a file of records that has the
\* record written, and is not shorter.
LEMMA StoredProperties ==
    ASSUME NEW loop \in Seq(Record), NEW writes, writes # <<>>, writes[1] \in Write,
           writes[1].index <= Len(loop)
    PROVE  /\ Stored(loop, writes) \in Seq(Record)
           /\ Len(Stored(loop, writes)) >= Len(loop)
           /\ writes[1].index < Len(Stored(loop, writes))
<1> DEFINE w == writes[1]
           n == Max({Len(loop), w.index + 1})
           s == [i \in 1..n |-> IF i = w.index + 1 THEN w.record ELSE loop[i]]
<1>1. Len(loop) \in Nat /\ w.index \in Nat /\ w.record \in Record
  BY LenProperties DEF Write
<1>2. n \in Nat /\ n >= Len(loop) /\ n >= w.index + 1 /\ n <= Len(loop) + 1
      /\ (n = Len(loop) + 1 => n = w.index + 1)
  BY <1>1, MaxOfTwo
<1>3. Stored(loop, writes) = s
  BY DEF Stored
<1> HIDE DEF n
<1>4. \A i \in 1..n : (IF i = w.index + 1 THEN w.record ELSE loop[i]) \in Record
  <2> SUFFICES ASSUME NEW i \in 1..n, i # w.index + 1 PROVE loop[i] \in Record
    BY <1>1
  <2>1. i \in 1..Len(loop)
    BY <1>1, <1>2
  <2> QED BY <2>1, ElementOfSeq
<1>5. s \in Seq(Record)
  BY <1>2, <1>4, IsASeq
<1>6. Len(s) = n
  BY <1>2, <1>5, LenProperties
<1> QED BY <1>1, <1>2, <1>3, <1>5, <1>6

LEMMA StoredNothing == ASSUME NEW loop PROVE Stored(loop, <<>>) = loop
BY DEF Stored

\* What the stream holds can always be written out.
LEMMA StoredPending ==
    ASSUME FilesInv, StreamInv, buf # NoFile
    PROVE  Stored(buf, pending) \in Seq(Record) /\ Len(Stored(buf, pending)) >= Len(buf)
<1>1. buf \in Seq(Record) /\ Len(buf) \in Nat
  BY LenProperties DEF FilesInv
<1>2. CASE pending = <<>>
  BY <1>1, <1>2, StoredNothing
<1>3. CASE pending # <<>>
  <2>1. pending[1] \in Write
    BY <1>3, EmptySeq, LenProperties, ElementOfSeq DEF StreamInv
  <2>2. pending[1].index <= Len(buf)
    BY <1>3 DEF StreamInv
  <2> QED BY <1>1, <1>3, <2>1, <2>2, StoredProperties
<1> QED BY <1>2, <1>3

LEMMA LinesProperties ==
    ASSUME NEW flip \in Int, NEW max \in Nat \ {0}
    PROVE  Lines(flip, max) \in Seq(IndexLine) /\ Len(Lines(flip, max)) = 3
           /\ \A k \in 1..3 : Lines(flip, max)[k].flip = flip
<1>1. [flip |-> flip, max |-> max] \in IndexLine
  BY DEF IndexLine
<1>2. Lines(flip, max) \in Seq(IndexLine)
  BY <1>1, IsASeq DEF Lines
<1>3. Len(Lines(flip, max)) = 3
  BY <1>2, LenProperties DEF Lines
<1> QED BY <1>2, <1>3 DEF Lines

\* The lines of a well-formed index file.
LEMMA ThreeLines ==
    ASSUME NEW lines \in Seq(IndexLine), Len(lines) = 3
    PROVE  \A k \in 1..3 : lines[k] \in IndexLine /\ lines[k].flip \in Int
<1> SUFFICES ASSUME NEW k \in 1..3 PROVE lines[k] \in IndexLine /\ lines[k].flip \in Int
  OBVIOUS
<1>1. lines[k] \in IndexLine
  BY ElementOfSeq
<1> QED BY <1>1 DEF IndexLine

\* The line ParseIndexInfo takes is one of the three.
LEMMA ParsedLine ==
    ASSUME NEW lines \in Seq(IndexLine), Len(lines) = 3
    PROVE  \E k \in 1..3 : ParseIndexInfo(lines) = lines[k] /\ lines[k] \in IndexLine
<1>1. lines[1] \in IndexLine /\ lines[3] \in IndexLine
  BY ElementOfSeq
<1> QED BY <1>1 DEF ParseIndexInfo

\* A context adl_open builds has its position in the file.
LEMMA OpenedInFile ==
    ASSUME NEW loop \in Seq(Record), NEW lines \in Seq(IndexLine), NEW newer \in BOOLEAN,
           ContextFor(loop, lines, newer) # Null
    PROVE  /\ ContextFor(loop, lines, newer) \in Context /\ Len(lines) = 3
           /\ ContextFor(loop, lines, newer).index < Len(loop)
<1> DEFINE line == ParseIndexInfo(lines)
           index == IndexFound(loop, line, newer)
<1>1. Len(lines) = 3 /\ index \in 0..(Len(loop) - 1)
      /\ ContextFor(loop, lines, newer) =
            [index |-> index, size |-> SizeFound(loop, line), capacity |-> line.max,
             last |-> loop[index + 1], has_written |-> FALSE, stamped |-> FALSE]
  BY DEF ContextFor
<1>2. line \in IndexLine
  BY <1>1, ParsedLine
<1> HIDE DEF line, index
<1>3. line.max \in Nat \ {0} /\ Len(loop) \in Nat
  BY <1>2, LenProperties DEF IndexLine
<1>4. SizeFound(loop, line) \in Nat /\ loop[index + 1] \in Record
  BY <1>1, <1>3, ElementOfSeq DEF SizeFound
<1> QED BY <1>1, <1>3, <1>4 DEF Context

-----------------------------------------------------------------------------
(* Steps.                                                                  *)

LEMMA InitLInv == Init => LInv
<1> SUFFICES ASSUME Init PROVE LInv
  OBVIOUS
<1>1. context = Null /\ pending = <<>> /\ writing = NoRecord
  BY DEF Init
<1>2. StreamInv /\ ContextInv
  BY <1>1, EmptySeq DEF StreamInv, ContextInv
<1>3. CASE buf = NoFile /\ idx = NoFile
  BY <1>2, <1>3 DEF LInv, FilesInv
<1>4. ASSUME NEW size \in Sizes, buf = <<RecordAt(1)>>, idx = Lines(0, size), 1 \in 1..MaxTime
      PROVE  LInv
  <2>1. RecordAt(1) \in Record
    BY <1>4, SpanAssumption DEF RecordAt, Record
  <2>2. buf \in Seq(Record) /\ Len(buf) = 1
    BY <1>4, <2>1
  <2>3. idx \in Seq(IndexLine) /\ Len(idx) = 3 /\ \A k \in 1..3 : idx[k].flip = 0
    BY <1>4, LinesProperties, SizesAssumption
  <2> QED BY <1>2, <2>2, <2>3, NoFileAssumption DEF LInv, FilesInv
<1>5. 1 \in 1..MaxTime
  BY TimeAssumption
<1> QED BY <1>3, <1>4, <1>5 DEF Init

\* A record is a value of its type for every time the model offers.
LEMMA OfferedRecord == ASSUME NEW t \in Times PROVE RecordAt(t) \in Record
<1>1. t \in 1..MaxTime
  BY TimeAssumption DEF Times
<1> QED BY <1>1, TimeAssumption, SpanAssumption DEF RecordAt, Record

\* The slot after the last one written is in the file or just behind its end.
LEMMA NextSlotFits ==
    ASSUME LInv, writing # NoRecord, pending = <<>>
    PROVE  /\ NewIndex \in Nat /\ NewIndex <= Len(buf)
           /\ Appended(writing) \in Context /\ Appended(writing).index = NewIndex
           /\ buf \in Seq(Record) /\ buf # NoFile /\ idx # NoFile /\ Len(idx) = 3
           /\ writing \in Record /\ context \in Context /\ context # Null
<1>1. context \in Context /\ context # Null /\ buf # NoFile /\ idx # NoFile /\ Len(idx) = 3
  BY DEF LInv, StreamInv, ContextInv
<1>2. buf \in Seq(Record) /\ Len(buf) \in Nat /\ context.index < Len(buf) /\ writing \in Record
  BY <1>1, StoredNothing, LenProperties DEF LInv, FilesInv, StreamInv, ContextInv
<1>3. context.index \in Nat /\ context.capacity \in Nat \ {0} /\ context.size \in Nat
  BY <1>1 DEF Context
<1>4. NewIndex \in Nat /\ NewIndex <= Len(buf)
  BY <1>2, <1>3 DEF NewIndex
<1>5. Appended(writing) \in Context /\ Appended(writing).index = NewIndex
  <2> DEFINE size == IF context.size < context.capacity /\ context.size = NewIndex
                     THEN context.size + 1 ELSE context.size
  <2>1. size \in Nat /\ context.stamped \in BOOLEAN
    BY <1>1, <1>3 DEF Context
  <2>2. Appended(writing) = [context EXCEPT !.has_written = TRUE, !.size = size,
                                            !.index = NewIndex, !.last = writing]
    BY DEF Appended
  <2> HIDE DEF size
  <2> QED BY <1>1, <1>2, <1>4, <2>1, <2>2 DEF Context
<1> QED BY <1>1, <1>2, <1>4, <1>5

\* An index written after the records were flushed names one of them.
LEMMA IndexAfterFlush ==
    ASSUME LInv, context # Null
    PROVE  LET flushed == Stored(buf, pending)
               lines == Lines(context.index, context.capacity)
           IN  /\ flushed \in Seq(Record) /\ flushed # NoFile /\ Len(flushed) >= Len(buf)
               /\ lines \in Seq(IndexLine) /\ lines # NoFile /\ Len(lines) = 3
               /\ \A k \in 1..3 : lines[k].flip = context.index
               /\ context.index \in Nat /\ context.index < Len(flushed)
<1>1. context \in Context /\ buf # NoFile /\ context.index < Len(Stored(buf, pending))
  BY DEF LInv, ContextInv
<1>2. context.index \in Nat /\ context.capacity \in Nat \ {0}
  BY <1>1 DEF Context
<1>3. Stored(buf, pending) \in Seq(Record) /\ Len(Stored(buf, pending)) >= Len(buf)
  BY <1>1, StoredPending DEF LInv
<1> DEFINE flushed == Stored(buf, pending)
           lines == Lines(context.index, context.capacity)
<1>4. lines \in Seq(IndexLine) /\ Len(lines) = 3 /\ \A k \in 1..3 : lines[k].flip = context.index
  BY <1>2, LinesProperties
<1>5. flushed # NoFile /\ lines # NoFile
  BY <1>3, <1>4, NoFileAssumption
<1> QED BY <1>1, <1>2, <1>3, <1>4, <1>5

LEMMA LInvStep == LInv /\ [Next]_vars => LInv'
<1> SUFFICES ASSUME LInv, [Next]_vars PROVE LInv'
  OBVIOUS
<1>0. FilesInv /\ StreamInv /\ ContextInv
  BY DEF LInv
<1>1. ASSUME NEW r \in Record, OpenCached(r) PROVE LInv'
  <2>1. UNCHANGED <<buf, idx, context, pending>> /\ writing' = r /\ context # Null
    BY <1>1 DEF OpenCached
  <2> QED BY <1>0, <2>1 DEF LInv, FilesInv, StreamInv, ContextInv
<1>2. ASSUME NEW r \in Record, NEW size \in Sizes, NEW newer \in BOOLEAN, OpenFiles(r, size, newer)
      PROVE  LInv'
  <2>1. writing = NoRecord /\ context = Null /\ pending = <<>> /\ pending' = <<>>
    BY <1>0, <1>2 DEF OpenFiles, StreamInv
  <2>2. buf' \in Seq(Record) /\ idx' \in Seq(IndexLine) /\ Len(idx') \in {0, 3}
        /\ \A k \in 1..Len(idx') : -1 <= idx'[k].flip /\ idx'[k].flip < Len(buf')
    <3>1. CASE buf = NoFile \/ idx = NoFile
      <4>1. buf' = <<>> /\ idx' = Lines(-1, size)
        BY <1>2, <3>1 DEF OpenFiles
      <4>2. size \in Nat \ {0} /\ -1 \in Int
        BY SizesAssumption
      <4>3. idx' \in Seq(IndexLine) /\ Len(idx') = 3 /\ \A k \in 1..3 : idx'[k].flip = -1
        BY <4>1, <4>2, LinesProperties
      <4>4. buf' \in Seq(Record) /\ Len(buf') = 0
        BY <4>1, EmptySeq
      <4> QED BY <4>3, <4>4
    <3>2. CASE ~(buf = NoFile \/ idx = NoFile)
      <4>1. buf' = buf /\ idx' = idx
        BY <1>2, <3>2 DEF OpenFiles
      <4> QED BY <1>0, <3>2, <4>1 DEF FilesInv
    <3> QED BY <3>1, <3>2
  <2>3. FilesInv'
    BY <2>2, NoFileAssumption DEF FilesInv
  <2>4. /\ context' = ContextFor(buf', idx', newer)
        /\ writing' = IF context' = Null THEN NoRecord ELSE r
    BY <1>2 DEF OpenFiles
  <2>5. StreamInv'
    BY <2>1, <2>4, EmptySeq DEF StreamInv
  <2>6. ContextInv'
    <3> SUFFICES ASSUME context' # Null PROVE ContextInv'
      BY DEF ContextInv
    <3>1. context' \in Context /\ Len(idx') = 3 /\ context'.index < Len(buf')
      BY <2>2, <2>4, OpenedInFile
    <3>2. Stored(buf', pending') = buf'
      BY <2>1, StoredNothing
    <3> QED BY <2>2, <3>1, <3>2, NoFileAssumption DEF ContextInv
  <2> QED BY <2>3, <2>5, <2>6 DEF LInv
<1>3. CASE SkipOverlap
  <2>1. UNCHANGED <<buf, idx, context, pending>> /\ writing' = NoRecord
    BY <1>3 DEF SkipOverlap
  <2> QED BY <1>0, <2>1 DEF LInv, FilesInv, StreamInv, ContextInv
<1>4. CASE SeekNext
  <2>1. /\ context # Null /\ buf' = Stored(buf, pending) /\ pending' = <<>>
        /\ UNCHANGED <<idx, context, writing>>
    BY <1>0, <1>4 DEF SeekNext, StreamInv
  <2>2. /\ buf' \in Seq(Record) /\ buf' # NoFile /\ Len(buf') >= Len(buf)
        /\ context.index < Len(buf')
    BY <2>1, IndexAfterFlush
  <2>3. FilesInv'
    <3>1. idx \in Seq(IndexLine) /\ Len(idx) = 3 /\ idx # NoFile /\ Len(buf) \in Nat /\ Len(buf') \in Nat
      BY <1>0, <2>1, <2>2, LenProperties DEF FilesInv, ContextInv
    <3>2. \A k \in 1..3 : idx[k].flip \in Int
      BY <3>1, ThreeLines
    <3> QED BY <1>0, <2>1, <2>2, <3>1, <3>2 DEF FilesInv
  <2>4. StreamInv' /\ ContextInv'
    BY <1>0, <2>1, <2>2, StoredNothing, EmptySeq DEF StreamInv, ContextInv
  <2> QED BY <2>3, <2>4 DEF LInv
<1>5. ASSUME NEW due \in {"none", "flush", "index"}, AdlWrite(due) PROVE LInv'
  <2> DEFINE write == <<[index |-> NewIndex, record |-> writing]>>
             c == Appended(writing)
  <2>1. writing # NoRecord /\ pending = <<>>
    BY <1>5 DEF AdlWrite
  <2>2. /\ NewIndex \in Nat /\ NewIndex <= Len(buf) /\ c \in Context /\ c.index = NewIndex
        /\ buf \in Seq(Record) /\ buf # NoFile /\ idx # NoFile /\ Len(idx) = 3
        /\ writing \in Record /\ context \in Context /\ context # Null
    BY <2>1, NextSlotFits
  <2>3. write[1] \in Write /\ write[1].index = NewIndex /\ write # <<>> /\ write \in Seq(Write) /\ Len(write) = 1
    BY <2>2 DEF Write
  <2>4. /\ Stored(buf, write) \in Seq(Record) /\ Len(Stored(buf, write)) >= Len(buf)
        /\ NewIndex < Len(Stored(buf, write))
    BY <2>2, <2>3, StoredProperties
  <2>5. /\ buf' = IF due = "none" THEN buf ELSE Stored(buf, write)
        /\ pending' = IF due = "none" THEN write ELSE <<>>
        /\ idx' = IF due = "index" THEN Lines(c.index, c.capacity) ELSE idx
        /\ context' = IF due = "index" THEN [c EXCEPT !.stamped = TRUE, !.has_written = FALSE] ELSE c
        /\ writing' = NoRecord
    BY <1>5 DEF AdlWrite
  <2> HIDE DEF write, c
  <2>6. context' \in Context /\ context'.index = NewIndex /\ context' # Null
    BY <2>2, <2>5, NullAssumption DEF Context
  <2>7. buf' \in Seq(Record) /\ buf' # NoFile /\ Len(buf') >= Len(buf) /\ Len(buf) \in Nat /\ Len(buf') \in Nat
    BY <2>2, <2>4, <2>5, NoFileAssumption, LenProperties
  <2>8. NewIndex < Len(Stored(buf', pending')) /\ (due # "none" => NewIndex < Len(buf'))
    BY <2>4, <2>5, StoredNothing
  <2>9. FilesInv' /\ idx' # NoFile /\ Len(idx') = 3
    <3>1. CASE due = "index"
      <4>1. idx' = Lines(c.index, c.capacity) /\ c.index \in Nat /\ c.capacity \in Nat \ {0}
        BY <2>2, <2>5, <3>1 DEF Context
      <4>2. idx' \in Seq(IndexLine) /\ Len(idx') = 3 /\ \A k \in 1..3 : idx'[k].flip = NewIndex
        BY <2>2, <4>1, LinesProperties
      <4> QED BY <2>2, <2>7, <2>8, <3>1, <4>2, NoFileAssumption DEF FilesInv
    <3>2. CASE due # "index"
      <4>1. idx' = idx /\ idx \in Seq(IndexLine)
        BY <1>0, <2>2, <2>5, <3>2 DEF FilesInv
      <4>2. \A k \in 1..3 : idx[k].flip \in Int
        BY <2>2, <4>1, ThreeLines
      <4>3. \A k \in 1..3 : -1 <= idx[k].flip /\ idx[k].flip < Len(buf)
        BY <1>0, <2>2 DEF FilesInv
      <4>4. \A k \in 1..3 : -1 <= idx'[k].flip /\ idx'[k].flip < Len(buf')
        BY <2>7, <4>1, <4>2, <4>3
      <4>5. FilesInv'
        BY <2>2, <2>7, <4>1, <4>4 DEF FilesInv
      <4> QED BY <2>2, <4>1, <4>5
    <3> QED BY <3>1, <3>2
  <2>10. StreamInv'
    <3>1. CASE due = "none"
      <4>1. pending' = write /\ buf' = buf
        BY <2>5, <3>1
      <4>2. pending' \in Seq(Write) /\ Len(pending') = 1 /\ pending'[1].index <= Len(buf')
        BY <2>2, <2>3, <4>1
      <4>3. writing' \in Record \cup {NoRecord} /\ (writing' # NoRecord => context' # Null)
        BY <2>5
      <4> QED BY <2>6, <2>7, <4>2, <4>3 DEF StreamInv
    <3>2. CASE due # "none"
      <4>1. pending' = <<>>
        BY <2>5, <3>2
      <4>2. pending' \in Seq(Write) /\ Len(pending') = 0
        BY <4>1, EmptySeq
      <4>3. writing' \in Record \cup {NoRecord} /\ (writing' # NoRecord => context' # Null)
        BY <2>5
      <4> QED BY <4>1, <4>2, <4>3 DEF StreamInv
    <3> QED BY <3>1, <3>2
  <2>11. ContextInv'
    BY <2>6, <2>7, <2>8, <2>9 DEF ContextInv
  <2> QED BY <2>9, <2>10, <2>11 DEF LInv
<1>6. CASE WriteFails
  <2>1. UNCHANGED <<buf, idx, context, pending>> /\ writing' = NoRecord
    BY <1>6 DEF WriteFails
  <2> QED BY <1>0, <2>1 DEF LInv, FilesInv, StreamInv, ContextInv
<1>7. CASE WriteAllIndices
  <2>1. /\ context # Null /\ buf' = Stored(buf, pending) /\ pending' = <<>>
        /\ idx' = Lines(context.index, context.capacity)
        /\ context' = [context EXCEPT !.has_written = FALSE, !.stamped = TRUE]
        /\ writing' = writing
    BY <1>7 DEF WriteAllIndices
  <2>2. context' \in Context /\ context'.index = context.index /\ context' # Null
    BY <1>0, <2>1, NullAssumption DEF ContextInv, Context
  <2>3. FilesInv' /\ buf' # NoFile /\ idx' # NoFile /\ Len(idx') = 3 /\ context.index < Len(buf')
    BY <2>1, IndexAfterFlush DEF FilesInv
  <2>4. StreamInv' /\ ContextInv'
    BY <1>0, <2>1, <2>2, <2>3, StoredNothing, EmptySeq DEF StreamInv, ContextInv
  <2> QED BY <2>3, <2>4 DEF LInv
<1>8. CASE CloseAll
  <2>1. /\ context # Null /\ buf' = Stored(buf, pending) /\ pending' = <<>>
        /\ idx' = IF context.has_written THEN Lines(context.index, context.capacity) ELSE idx
        /\ context' = Null /\ writing' = NoRecord
    BY <1>8 DEF CloseAll
  <2>2. FilesInv'
    <3>1. buf' \in Seq(Record) /\ buf' # NoFile /\ Len(buf') >= Len(buf) /\ Len(buf) \in Nat /\ Len(buf') \in Nat
      BY <1>0, <2>1, IndexAfterFlush, LenProperties DEF FilesInv, ContextInv
    <3>2. idx # NoFile /\ idx \in Seq(IndexLine) /\ Len(idx) = 3
      BY <1>0, <2>1 DEF FilesInv, ContextInv
    <3>3. \A k \in 1..3 : idx[k].flip \in Int
      BY <3>2, ThreeLines
    <3>4. CASE context.has_written
      BY <2>1, <3>1, <3>4, IndexAfterFlush DEF FilesInv
    <3>5. CASE ~context.has_written
      <4>1. idx' = idx
        BY <2>1, <3>5
      <4>2. \A k \in 1..3 : -1 <= idx[k].flip /\ idx[k].flip < Len(buf)
        BY <1>0, <3>2 DEF FilesInv
      <4>3. \A k \in 1..3 : -1 <= idx'[k].flip /\ idx'[k].flip < Len(buf')
        BY <3>1, <3>3, <4>1, <4>2
      <4> QED BY <3>1, <3>2, <4>1, <4>3 DEF FilesInv
    <3> QED BY <3>4, <3>5
  <2>3. StreamInv' /\ ContextInv'
    BY <2>1, EmptySeq DEF StreamInv, ContextInv
  <2> QED BY <2>2, <2>3 DEF LInv
<1>9. CASE Kill
  <2>1. UNCHANGED <<buf, idx>> /\ context' = Null /\ pending' = <<>> /\ writing' = NoRecord
    BY <1>9 DEF Kill
  <2> QED BY <1>0, <2>1, EmptySeq DEF LInv, FilesInv, StreamInv, ContextInv
<1>10. ASSUME NEW lines \in 0..2, KillWritingIndex(lines) PROVE LInv'
  <2>1. /\ context # Null /\ buf' = Stored(buf, pending) /\ pending' = <<>>
        /\ idx' = [k \in 1..3 |-> IF k <= lines THEN Lines(context.index, context.capacity)[k] ELSE idx[k]]
        /\ context' = Null /\ writing' = NoRecord
    BY <1>10 DEF KillWritingIndex
  <2>2. buf' \in Seq(Record) /\ buf' # NoFile /\ Len(buf') >= Len(buf) /\ Len(buf) \in Nat /\ Len(buf') \in Nat
    BY <1>0, <2>1, IndexAfterFlush, LenProperties DEF FilesInv, ContextInv
  <2>3. idx # NoFile /\ idx \in Seq(IndexLine) /\ Len(idx) = 3
    BY <1>0, <2>1 DEF FilesInv, ContextInv
  <2> DEFINE new == Lines(context.index, context.capacity)
  <2>4. /\ new \in Seq(IndexLine) /\ Len(new) = 3 /\ \A k \in 1..3 : new[k].flip = context.index
        /\ context.index \in Nat /\ context.index < Len(buf')
    BY <2>1, IndexAfterFlush
  <2>5. \A k \in 1..3 : idx[k] \in IndexLine /\ new[k] \in IndexLine /\ idx[k].flip \in Int
    BY <2>3, <2>4, ThreeLines
  <2> HIDE DEF new
  <2>6. \A k \in 1..3 : idx'[k] \in IndexLine /\ -1 <= idx'[k].flip /\ idx'[k].flip < Len(buf')
    BY <1>0, <2>1, <2>2, <2>3, <2>4, <2>5 DEF FilesInv, new
  <2>7. idx' \in Seq(IndexLine) /\ Len(idx') = 3
    <3>1. idx' = [k \in 1..3 |-> IF k <= lines THEN new[k] ELSE idx[k]]
      BY <2>1 DEF new
    <3>2. \A k \in 1..3 : (IF k <= lines THEN new[k] ELSE idx[k]) \in IndexLine
      BY <2>5
    <3>3. idx' \in Seq(IndexLine)
      BY <3>1, <3>2, IsASeq
    <3> QED BY <3>1, <3>3, LenProperties
  <2>8. FilesInv'
    BY <2>2, <2>6, <2>7 DEF FilesInv
  <2>9. StreamInv' /\ ContextInv'
    BY <2>1, EmptySeq DEF StreamInv, ContextInv
  <2> QED BY <2>8, <2>9 DEF LInv
<1>11. ASSUME NEW made \in BOOLEAN, KillMakingBuffer(made) PROVE LInv'
  <2>1. /\ context = Null /\ idx = NoFile /\ buf' = <<>> /\ (idx' = <<>> \/ idx' = NoFile)
        /\ UNCHANGED <<context, pending, writing>>
    BY <1>0, <1>11 DEF KillMakingBuffer, FilesInv
  <2>2. FilesInv'
    <3>1. buf' \in Seq(Record) /\ buf' # NoFile
      BY <2>1, EmptySeq, NoFileAssumption
    <3>2. idx' # NoFile => idx' \in Seq(IndexLine) /\ Len(idx') = 0
      BY <2>1, EmptySeq
    <3> QED BY <3>1, <3>2 DEF FilesInv
  <2> QED BY <1>0, <2>1, <2>2 DEF LInv, StreamInv, ContextInv
<1>12. ASSUME NEW config \in Sizes, NEW truncate \in BOOLEAN, Resize(config, truncate) PROVE LInv'
  <2> DEFINE line == ParseIndexInfo(idx)
  <2>1. /\ context = Null /\ buf # NoFile /\ idx # NoFile /\ Len(idx) = 3
        /\ UNCHANGED <<context, pending, writing>>
        /\ \/ idx' = Lines(line.flip, config) /\ buf' = buf
           \/ idx' = Lines(line.flip, TruncatedSize(line, config)) /\ buf' = SubSeq(buf, 1, line.flip + 1)
    BY <1>12 DEF Resize
  <2>2. buf \in Seq(Record) /\ idx \in Seq(IndexLine) /\ Len(buf) \in Nat
    BY <1>0, <2>1, LenProperties DEF FilesInv
  <2>3. line \in IndexLine /\ -1 <= line.flip /\ line.flip < Len(buf)
    BY <1>0, <2>1, <2>2, ParsedLine DEF FilesInv
  <2> HIDE DEF line
  <2>4. line.flip \in Int /\ config \in Nat \ {0} /\ TruncatedSize(line, config) \in Nat \ {0}
    BY <2>3, SizesAssumption DEF IndexLine, TruncatedSize
  <2>5. idx' \in Seq(IndexLine) /\ Len(idx') = 3 /\ \A k \in 1..3 : idx'[k].flip = line.flip
    <3>1. PICK max \in Nat \ {0} : idx' = Lines(line.flip, max)
      BY <2>1, <2>4
    <3> QED BY <2>4, <3>1, LinesProperties
  <2>6. buf' \in Seq(Record) /\ line.flip < Len(buf')
    <3> DEFINE cut == SubSeq(buf, 1, line.flip + 1)
    <3>1. \A i \in 1..(line.flip + 1) : buf[i] \in Record
      BY <2>2, <2>3, <2>4, ElementOfSeq
    <3>2. cut \in Seq(Record) /\ Len(cut) = IF 1 <= line.flip + 1 THEN line.flip + 1 - 1 + 1 ELSE 0
      BY <2>4, <3>1, SubSeqProperties
    <3>3. line.flip < Len(cut)
      BY <2>3, <2>4, <3>2
    <3> QED BY <2>1, <2>2, <2>3, <3>2, <3>3
  <2>7. FilesInv'
    BY <2>3, <2>5, <2>6, NoFileAssumption DEF FilesInv
  <2> QED BY <1>0, <2>1, <2>7 DEF LInv, StreamInv, ContextInv
<1>13. CASE UNCHANGED vars
  BY <1>0, <1>13 DEF vars, LInv, FilesInv, StreamInv, ContextInv
<1> QED BY <1>1, <1>2, <1>3, <1>4, <1>5, <1>6, <1>7, <1>8, <1>9, <1>10, <1>11, <1>12, <1>13, OfferedRecord
        DEF Next, WriteChan

-----------------------------------------------------------------------------
\* The files and the context agree, for any sizes, times and bounds.
THEOREM LoopInvariance == Spec => []LInv
<1> QED BY InitLInv, LInvStep, PTL DEF Spec

\* The index file never names a record the loop file does not have, whatever step
\* of adl_write, adl_write_index, NewBuffer or dlresize came last.
THEOREM IndexAlwaysNamesStored == Spec => []IndexNamesStored
<1>1. LInv => IndexNamesStored
  BY DEF LInv, FilesInv, IndexNamesStored
<1> QED BY LoopInvariance, <1>1, PTL

-----------------------------------------------------------------------------
(* Who leaves a stale index behind.                                        *)

\* The slot of the last of a sequence of writes.
NewestOf(writes) == IF writes = <<>> THEN -1 ELSE Last(writes).index

\* As long as no process died and no write failed, the index file names the last
\* record accepted, or archd still knows that it has to be written.
FreshInv ==
    /\ accepted \in Seq(Write)
    /\ faults \in Nat
    /\ faults = 0 =>
        /\ "stale" \notin misled
        /\ idx = NoFile => accepted = <<>> /\ context = Null
        /\ context # Null /\ context.has_written => context.index = NewestOf(accepted)
        /\ idx # NoFile /\ ~(context # Null /\ context.has_written) =>
            \A k \in 1..Len(idx) : idx[k].flip = NewestOf(accepted)

LEMMA InitFreshInv == Init => FreshInv
<1> SUFFICES ASSUME Init PROVE FreshInv
  OBVIOUS
<1>1. context = Null /\ misled = {} /\ faults = 0
  BY DEF Init
<1>2. CASE idx = NoFile /\ accepted = <<>>
  BY <1>1, <1>2, EmptySeq DEF FreshInv
<1>3. ASSUME NEW size \in Sizes, idx = Lines(0, size), accepted = <<[index |-> 0, record |-> RecordAt(1)]>>
      PROVE  FreshInv
  <2>1. RecordAt(1) \in Record
    BY TimeAssumption, SpanAssumption DEF RecordAt, Record
  <2>2. accepted \in Seq(Write) /\ Len(accepted) = 1 /\ accepted[1].index = 0
    BY <1>3, <2>1 DEF Write
  <2>3. idx \in Seq(IndexLine) /\ Len(idx) = 3 /\ \A k \in 1..3 : idx[k].flip = 0
    BY <1>3, LinesProperties, SizesAssumption
  <2>4. NewestOf(accepted) = 0
    BY <2>2 DEF NewestOf, Last
  <2> QED BY <1>1, <2>2, <2>3, <2>4, NoFileAssumption DEF FreshInv
<1> QED BY <1>2, <1>3 DEF Init

\* The position ParseIndexInfo takes from an index that agrees with the records.
LEMMA ParsedIsNewest ==
    ASSUME NEW lines \in Seq(IndexLine), Len(lines) = 3,
           \A k \in 1..Len(lines) : lines[k].flip = NewestOf(accepted)
    PROVE  IsNewest(ParseIndexInfo(lines).flip)
<1>1. PICK k \in 1..3 : ParseIndexInfo(lines) = lines[k]
  BY ParsedLine
<1> QED BY <1>1 DEF IsNewest, NewestOf

LEMMA FreshInvStep == LInv /\ FreshInv /\ [Next]_vars => FreshInv'
<1> SUFFICES ASSUME LInv, FreshInv, [Next]_vars PROVE FreshInv'
  OBVIOUS
<1>0. FilesInv /\ StreamInv /\ ContextInv
  BY DEF LInv
<1>1. ASSUME NEW r \in Record, OpenCached(r) PROVE FreshInv'
  BY <1>1 DEF OpenCached, FreshInv
<1>2. ASSUME NEW r \in Record, NEW size \in Sizes, NEW newer \in BOOLEAN, OpenFiles(r, size, newer)
      PROVE  FreshInv'
  <2>1. /\ context = Null /\ UNCHANGED <<accepted, faults>>
        /\ context' = ContextFor(buf', idx', newer)
        /\ misled' = IF context' = Null THEN misled ELSE misled \cup Misleads(buf', idx', newer)
    BY <1>2 DEF OpenFiles
  <2> SUFFICES ASSUME faults = 0
               PROVE  /\ "stale" \notin misled' /\ idx' # NoFile
                      /\ ~(context' # Null /\ context'.has_written)
                      /\ \A k \in 1..Len(idx') : idx'[k].flip = NewestOf(accepted')
    BY <2>1 DEF FreshInv
  <2>2. /\ idx' \in Seq(IndexLine) /\ idx' # NoFile /\ buf' \in Seq(Record)
        /\ \A k \in 1..Len(idx') : idx'[k].flip = NewestOf(accepted)
    <3>1. CASE buf = NoFile \/ idx = NoFile
      <4>1. idx' = Lines(-1, size) /\ buf' = <<>> /\ idx = NoFile
        BY <1>0, <1>2, <3>1 DEF OpenFiles, FilesInv
      <4>2. size \in Nat \ {0} /\ -1 \in Int
        BY SizesAssumption
      <4>3. idx' \in Seq(IndexLine) /\ Len(idx') = 3 /\ \A k \in 1..3 : idx'[k].flip = -1
        BY <4>1, <4>2, LinesProperties
      <4>4. accepted = <<>>
        BY <4>1 DEF FreshInv
      <4> QED BY <4>1, <4>3, <4>4, EmptySeq, NoFileAssumption DEF NewestOf
    <3>2. CASE ~(buf = NoFile \/ idx = NoFile)
      <4>1. idx' = idx /\ buf' = buf
        BY <1>2, <3>2 DEF OpenFiles
      <4> QED BY <1>0, <2>1, <3>2, <4>1 DEF FreshInv, FilesInv
    <3> QED BY <3>1, <3>2
  <2>3. \A k \in 1..Len(idx') : idx'[k].flip = NewestOf(accepted')
    BY <2>1, <2>2
  <2>4. "stale" \notin misled'
    <3>1. CASE context' = Null
      BY <2>1, <3>1 DEF FreshInv
    <3>2. CASE context' # Null
      <4>1. Len(idx') = 3
        BY <2>1, <2>2, <3>2, OpenedInFile
      <4>2. IsNewest(ParseIndexInfo(idx').flip)
        BY <2>2, <4>1, ParsedIsNewest
      <4>3. "stale" \notin Misleads(buf', idx', newer)
        BY <4>2 DEF Misleads
      <4> QED BY <2>1, <3>2, <4>3 DEF FreshInv
    <3> QED BY <3>1, <3>2
  <2>5. ~(context' # Null /\ context'.has_written)
    BY <2>1 DEF ContextFor
  <2> QED BY <2>2, <2>3, <2>4, <2>5
<1>3. CASE SkipOverlap
  BY <1>3 DEF SkipOverlap, FreshInv
<1>4. CASE SeekNext
  BY <1>4 DEF SeekNext, FreshInv
<1>5. ASSUME NEW due \in {"none", "flush", "index"}, AdlWrite(due) PROVE FreshInv'
  <2> DEFINE write == <<[index |-> NewIndex, record |-> writing]>>
             c == Appended(writing)
  <2>1. writing # NoRecord /\ pending = <<>>
    BY <1>5 DEF AdlWrite
  <2>2. /\ NewIndex \in Nat /\ c \in Context /\ c.index = NewIndex /\ idx # NoFile
        /\ writing \in Record /\ context \in Context
    BY <2>1, NextSlotFits
  <2>3. c.has_written
    BY <2>2 DEF Appended, Context
  <2>4. write \in Seq(Write) /\ Len(write) = 1 /\ write[1].index = NewIndex
    BY <2>2 DEF Write
  <2>5. /\ idx' = IF due = "index" THEN Lines(c.index, c.capacity) ELSE idx
        /\ context' = IF due = "index" THEN [c EXCEPT !.stamped = TRUE, !.has_written = FALSE] ELSE c
        /\ accepted' = accepted \o write
        /\ UNCHANGED <<misled, faults>>
    BY <1>5 DEF AdlWrite
  <2> HIDE DEF write, c
  <2>6. accepted' \in Seq(Write) /\ NewestOf(accepted') = NewIndex
    <3>1. accepted \in Seq(Write) /\ Len(accepted) \in Nat
      BY LenProperties DEF FreshInv
    <3>2. accepted' \in Seq(Write)
      BY <2>4, <2>5, <3>1, ConcatProperties
    <3>3. Len(accepted') = Len(accepted) + 1
      <4>1. Len(accepted \o write) = Len(accepted) + Len(write)
        BY <2>4, <3>1, ConcatProperties
      <4> QED BY <2>4, <2>5, <4>1
    <3>5. accepted'[Len(accepted) + 1] = write[1]
      <4>1. Len(accepted) + 1 \in 1..(Len(accepted) + Len(write)) /\ ~(Len(accepted) + 1 <= Len(accepted))
            /\ Len(accepted) + 1 - Len(accepted) = 1
        BY <2>4, <3>1
      <4> QED BY <2>4, <2>5, <3>1, <4>1, ConcatProperties
    <3>4. accepted' # <<>>
      BY <3>1, <3>3, EmptySeq
    <3> QED BY <2>4, <3>2, <3>3, <3>4, <3>5 DEF NewestOf, Last
  <2>7. CASE due = "index"
    <3>1. c.capacity \in Nat \ {0}
      BY <2>2 DEF Context
    <3>2. idx' \in Seq(IndexLine) /\ Len(idx') = 3 /\ \A k \in 1..3 : idx'[k].flip = NewIndex
      BY <2>2, <2>5, <2>7, <3>1, LinesProperties
    <3>3. ~context'.has_written
      BY <2>2, <2>5, <2>7 DEF Context
    <3> QED BY <2>5, <2>6, <3>2, <3>3, NoFileAssumption DEF FreshInv
  <2>8. CASE due # "index"
    <3>1. idx' = idx /\ context' = c
      BY <2>5, <2>8
    <3>2. context' # Null /\ context'.has_written /\ context'.index = NewIndex
      BY <2>2, <2>3, <3>1, NullAssumption
    <3> QED BY <2>2, <2>5, <2>6, <3>1, <3>2 DEF FreshInv
  <2> QED BY <2>7, <2>8
<1>6. CASE WriteFails \/ Kill \/ \E lines \in 0..2 : KillWritingIndex(lines)
  <2>1. faults' = faults + 1 /\ accepted' \in {accepted, Front(accepted)}
    BY <1>6 DEF WriteFails, Kill, KillWritingIndex
  <2>2. accepted \in Seq(Write) /\ Len(accepted) \in Nat /\ faults \in Nat
    BY LenProperties DEF FreshInv
  <2>3. Front(accepted) \in Seq(Write)
    <3>1. \A i \in 1..(Len(accepted) - 1) : accepted[i] \in Write
      BY <2>2, ElementOfSeq
    <3> QED BY <2>2, <3>1, SubSeqProperties DEF Front
  <2>4. accepted' \in Seq(Write) /\ faults' \in Nat /\ faults' # 0
    BY <2>1, <2>2, <2>3
  <2> QED BY <2>4 DEF FreshInv
<1>7. CASE WriteAllIndices
  <2>1. /\ context # Null /\ context.has_written
        /\ idx' = Lines(context.index, context.capacity)
        /\ context' = [context EXCEPT !.has_written = FALSE, !.stamped = TRUE]
        /\ UNCHANGED <<accepted, misled, faults>>
    BY <1>7 DEF WriteAllIndices
  <2>2. /\ idx' \in Seq(IndexLine) /\ idx' # NoFile /\ Len(idx') = 3
        /\ \A k \in 1..3 : idx'[k].flip = context.index
    BY <2>1, IndexAfterFlush
  <2>3. ~context'.has_written
    BY <1>0, <2>1 DEF ContextInv, Context
  <2> QED BY <2>1, <2>2, <2>3 DEF FreshInv
<1>8. CASE CloseAll
  <2>1. /\ context # Null /\ context' = Null
        /\ idx' = IF context.has_written THEN Lines(context.index, context.capacity) ELSE idx
        /\ UNCHANGED <<accepted, misled, faults>>
    BY <1>8 DEF CloseAll
  <2>2. CASE context.has_written
    <3>1. /\ idx' \in Seq(IndexLine) /\ idx' # NoFile /\ Len(idx') = 3
          /\ \A k \in 1..3 : idx'[k].flip = context.index
      BY <2>1, <2>2, IndexAfterFlush
    <3> QED BY <2>1, <2>2, <3>1 DEF FreshInv
  <2>3. CASE ~context.has_written
    BY <2>1, <2>3 DEF FreshInv
  <2> QED BY <2>2, <2>3
<1>9. ASSUME NEW made \in BOOLEAN, KillMakingBuffer(made) PROVE FreshInv'
  BY <1>9 DEF KillMakingBuffer, FreshInv
<1>10. ASSUME NEW config \in Sizes, NEW truncate \in BOOLEAN, Resize(config, truncate) PROVE FreshInv'
  <2> DEFINE line == ParseIndexInfo(idx)
  <2>1. /\ context = Null /\ idx # NoFile /\ Len(idx) = 3
        /\ UNCHANGED <<context, accepted, faults>>
        /\ \/ idx' = Lines(line.flip, config)
           \/ idx' = Lines(line.flip, TruncatedSize(line, config))
        /\ misled' = IF IsNewest(line.flip) THEN misled ELSE misled \cup {"stale"}
    BY <1>10 DEF Resize
  <2> SUFFICES ASSUME faults = 0
               PROVE  /\ "stale" \notin misled' /\ idx' # NoFile
                      /\ \A k \in 1..Len(idx') : idx'[k].flip = NewestOf(accepted')
    BY <2>1 DEF FreshInv
  <2>2. idx \in Seq(IndexLine)
    BY <1>0, <2>1 DEF FilesInv
  <2>3. line \in IndexLine
    BY <2>1, <2>2, ParsedLine
  <2>4. IsNewest(line.flip)
    BY <2>1, <2>2, ParsedIsNewest DEF FreshInv
  <2> HIDE DEF line
  <2>5. line.flip \in Int /\ config \in Nat \ {0} /\ TruncatedSize(line, config) \in Nat \ {0}
    <3>1. line.flip \in Int /\ config \in Nat \ {0}
      BY <2>3, SizesAssumption DEF IndexLine
    <3>2. line.flip > config => line.flip + 1 \in Nat \ {0}
      BY <3>1
    <3> QED BY <3>1, <3>2 DEF TruncatedSize
  <2>6. idx' \in Seq(IndexLine) /\ Len(idx') = 3 /\ \A k \in 1..3 : idx'[k].flip = line.flip
    <3>1. PICK max \in Nat \ {0} : idx' = Lines(line.flip, max)
      BY <2>1, <2>5
    <3> QED BY <2>5, <3>1, LinesProperties
  <2>7. line.flip = NewestOf(accepted')
    BY <2>1, <2>4 DEF IsNewest, NewestOf
  <2> QED BY <2>1, <2>4, <2>6, <2>7, NoFileAssumption DEF FreshInv
<1>11. CASE UNCHANGED vars
  BY <1>11 DEF vars, FreshInv
<1> QED BY <1>1, <1>2, <1>3, <1>4, <1>5, <1>6, <1>7, <1>8, <1>9, <1>10, <1>11, OfferedRecord
        DEF Next, WriteChan

\* Only a process that died, or a write that failed, leaves an index that is not
\* the last one: the restart and dlresize may otherwise trust the index file.
THEOREM CleanExitLeavesFreshIndex == Spec => []StaleOnlyAfterDeath
<1>1. FreshInv => StaleOnlyAfterDeath
  BY DEF FreshInv, StaleOnlyAfterDeath
<1> QED BY InitFreshInv, FreshInvStep, LoopInvariance, <1>1, PTL DEF Spec

-----------------------------------------------------------------------------
(* The search of adl_newest_index.                                         *)

LEMMA NatHasLeast ==
    ASSUME NEW S, S \subseteq Nat, S # {}
    PROVE  \E m \in S : \A n \in S : m <= n
<1>1. PICK m \in S : \A n \in S : ~(<<n, m>> \in OpToRel(<, Nat))
  BY NatLessThanWellFounded, WFMin
<1>2. \A n \in S : m <= n
  <2> SUFFICES ASSUME NEW n \in S PROVE m <= n
    OBVIOUS
  <2>1. <<n, m>> \in Nat \X Nat
    OBVIOUS
  <2>2. ~(n < m)
    BY <1>1, <2>1 DEF OpToRel
  <2> QED BY <2>2
<1> QED BY <1>2

\* g calls itself on the elements of more; and each such call is of a smaller size.
Recurses(E, next, more, base, g) == g = [e \in E |-> IF e \in more THEN g[next[e]] ELSE base[e]]
Shrinks(E, next, more, size, bound) ==
    /\ \A e \in E : size[e] \in 0..bound
    /\ \A e \in E : e \in more => next[e] \in E /\ size[next[e]] < size[e]

\* A recursive function whose argument gets smaller at each call exists.
LEMMA RecursionEnds ==
    ASSUME NEW E, NEW next, NEW more, NEW base, NEW size, NEW bound \in Nat,
           Shrinks(E, next, more, size, bound)
    PROVE  \E g : Recurses(E, next, more, base, g)
<1>0. /\ \A e \in E : size[e] \in 0..bound
      /\ \A e \in E : e \in more => next[e] \in E /\ size[next[e]] < size[e]
  BY DEF Shrinks
<1> DEFINE Solves(g, n) == \A e \in E : size[e] < n =>
                               g[e] = IF e \in more THEN g[next[e]] ELSE base[e]
           F == {n \in Nat : ~\E g : Solves(g, n)}
<1>1. F = {}
  <2> SUFFICES ASSUME F # {} PROVE FALSE
    OBVIOUS
  <2>1. PICK n \in F : \A m \in F : n <= m
    BY NatHasLeast
  <2>2. n \in Nat /\ ~\E g : Solves(g, n)
    BY <2>1
  <2>3. n # 0
    <3>1. Solves(base, 0)
      BY <1>0
    <3> QED BY <2>2, <3>1
  <2>4. PICK m \in Nat : n = m + 1
    <3>1. n - 1 \in Nat /\ n = (n - 1) + 1
      BY <2>2, <2>3
    <3> QED BY <3>1
  <2>5. m \notin F
    BY <2>1, <2>4
  <2>6. PICK g : Solves(g, m)
    BY <2>5
  <2> DEFINE h == [e \in E |-> IF size[e] = m THEN IF e \in more THEN g[next[e]] ELSE base[e] ELSE g[e]]
  <2>7. ASSUME NEW e \in E, size[e] < m + 1
        PROVE  h[e] = IF e \in more THEN h[next[e]] ELSE base[e]
    <3>1. size[e] \in Nat
      BY <1>0
    <3>2. e \in more => next[e] \in E /\ size[next[e]] < m /\ h[next[e]] = g[next[e]]
      <4> SUFFICES ASSUME e \in more PROVE next[e] \in E /\ size[next[e]] < m /\ h[next[e]] = g[next[e]]
        OBVIOUS
      <4>1. next[e] \in E /\ size[next[e]] < size[e] /\ size[next[e]] \in Nat
        BY <1>0
      <4>2. size[next[e]] < m
        BY <2>7, <3>1, <4>1
      <4> QED BY <4>1, <4>2
    <3>3. CASE size[e] = m
      BY <3>2, <3>3
    <3>4. CASE size[e] # m
      <4>1. size[e] < m
        BY <2>7, <3>1, <3>4
      <4>2. g[e] = IF e \in more THEN g[next[e]] ELSE base[e]
        BY <2>6, <4>1
      <4> QED BY <3>2, <3>4, <4>2
    <3> QED BY <3>3, <3>4
  <2>8. Solves(h, m + 1)
    BY <2>7
  <2> QED BY <2>2, <2>4, <2>8
<1>2. bound + 1 \in Nat
  OBVIOUS
<1>3. PICK g : Solves(g, bound + 1)
  BY <1>1, <1>2
<1>4. \A e \in E : size[e] < bound + 1
  BY <1>0
<1> DEFINE h == [e \in E |-> g[e]]
<1>5. h = [e \in E |-> IF e \in more THEN h[next[e]] ELSE base[e]]
  <2>1. ASSUME NEW e \in E PROVE g[e] = IF e \in more THEN h[next[e]] ELSE base[e]
    BY <1>0, <1>3, <1>4
  <2> QED BY <2>1
<1> QED BY <1>5 DEF Recurses

\* The pivot lies between the indices searched, and the turn leaves a smaller gap
\* between them, if any.
LEMMA TurnGap ==
    ASSUME NEW last \in Nat, NEW min \in 0..last, NEW max \in 0..last, NEW way,
           LET p == Pivot(min, max) IN MaxAfter(way, max, p) - MinAfter(way, min, p) > 1
    PROVE  LET p == Pivot(min, max) IN
           /\ max - min > 1 /\ p \in 0..last /\ min < p /\ p < max
           /\ MinAfter(way, min, p) \in 0..last /\ MaxAfter(way, max, p) \in 0..last
           /\ MaxAfter(way, max, p) - MinAfter(way, min, p) < max - min
<1> DEFINE p == min + ((max - min) \div 2)
<1>1. p \in Int
  OBVIOUS
<1>2. Pivot(min, max) = p
  BY DEF Pivot
<1>3. CASE max - min > 1
  <2>1. min < p /\ p < max
    BY <1>3
  <2> HIDE DEF p
  <2> QED BY <1>1, <1>2, <1>3, <2>1 DEF MinAfter, MaxAfter
<1>4. CASE ~(max - min > 1)
  <2>1. max - p <= 1 /\ p - min <= 1
    BY <1>4
  <2> HIDE DEF p
  <2> QED BY <1>1, <1>2, <1>4, <2>1 DEF MinAfter, MaxAfter
<1> QED BY <1>3, <1>4

\* What one turn of the search leaves: the gap narrows, so the loop ends.
LEMMA TurnNarrows ==
    ASSUME NEW loop, Len(loop) \in Nat \ {0}, NEW target,
           NEW ends \in (0..(Len(loop) - 1)) \X (0..(Len(loop) - 1))
    PROVE  LET rest == AfterTurn(loop, target, ends) IN
           rest[2] - rest[1] > 1 =>
              /\ ends[2] - ends[1] > 1
              /\ rest \in (0..(Len(loop) - 1)) \X (0..(Len(loop) - 1))
              /\ rest[2] - rest[1] < ends[2] - ends[1]
<1> DEFINE p == Pivot(ends[1], ends[2])
           way == Bisect(loop[p + 1].start, target, loop[1].start, loop[Len(loop)].start)
           rest == <<MinAfter(way, ends[1], p), MaxAfter(way, ends[2], p)>>
<1>1. AfterTurn(loop, target, ends) = rest
  BY DEF AfterTurn
<1>0. Len(loop) - 1 \in Nat
  OBVIOUS
<1>2. PICK last \in Nat : last = Len(loop) - 1
  BY <1>0
<1>3. PICK min \in 0..last, max \in 0..last : ends[1] = min /\ ends[2] = max
  BY <1>2
<1> HIDE DEF way
<1>4. rest[1] = MinAfter(way, min, Pivot(min, max)) /\ rest[2] = MaxAfter(way, max, Pivot(min, max))
  BY <1>3
<1> HIDE DEF rest
<1>5. rest = <<rest[1], rest[2]>>
  BY DEF rest
<1> SUFFICES ASSUME rest[2] - rest[1] > 1
             PROVE  /\ ends[2] - ends[1] > 1
                    /\ rest \in (0..(Len(loop) - 1)) \X (0..(Len(loop) - 1))
                    /\ rest[2] - rest[1] < ends[2] - ends[1]
  BY <1>1
<1>6. /\ max - min > 1
      /\ rest[1] \in 0..last /\ rest[2] \in 0..last
      /\ rest[2] - rest[1] < max - min
  BY <1>4, TurnGap
<1>7. rest \in (0..last) \X (0..last)
  BY <1>5, <1>6
<1> QED BY <1>2, <1>3, <1>6, <1>7

\* The search between two indices is the search in what a turn leaves of them.
LEMMA NarrowedTurns ==
    ASSUME NEW loop, Len(loop) \in Nat \ {0}, NEW target
    PROVE  \A ends \in (0..(Len(loop) - 1)) \X (0..(Len(loop) - 1)) :
              LET rest == AfterTurn(loop, target, ends) IN
              Narrowed(loop, target)[ends] = IF rest[2] - rest[1] > 1 THEN Narrowed(loop, target)[rest]
                                             ELSE Pivot(ends[1], ends[2])
<1> DEFINE E == (0..(Len(loop) - 1)) \X (0..(Len(loop) - 1))
           next == [ends \in E |-> AfterTurn(loop, target, ends)]
           more == {ends \in E : next[ends][2] - next[ends][1] > 1}
           base == [ends \in E |-> Pivot(ends[1], ends[2])]
           size == [ends \in E |-> IF ends[2] > ends[1] THEN ends[2] - ends[1] ELSE 0]
<1>1. Len(loop) - 1 \in Nat
  OBVIOUS
<1>2. \A e \in E : size[e] \in 0..(Len(loop) - 1)
  BY <1>1
<1>3. ASSUME NEW e \in E, e \in more PROVE next[e] \in E /\ size[next[e]] < size[e]
  <2>1. /\ e[2] - e[1] > 1 /\ next[e] \in E
        /\ next[e][2] - next[e][1] > 1 /\ next[e][2] - next[e][1] < e[2] - e[1]
    BY <1>3, TurnNarrows
  <2>2. PICK r \in E : r = next[e]
    BY <2>1
  <2>3. size[r] = r[2] - r[1] /\ size[e] = e[2] - e[1]
    BY <2>1, <2>2
  <2> QED BY <2>1, <2>2, <2>3
<1>4. \A e \in E : e \in more => next[e] \in E /\ size[next[e]] < size[e]
  BY <1>3
<1> HIDE DEF size
<1>5. Shrinks(E, next, more, size, Len(loop) - 1)
  BY <1>2, <1>4 DEF Shrinks
<1>6. \E g : Recurses(E, next, more, base, g)
  <2> HIDE DEF E, next, more, base
  <2> QED BY <1>1, <1>5, RecursionEnds
<1> DEFINE Turned(g) == [ends \in E |-> LET rest == AfterTurn(loop, target, ends) IN
                                       IF rest[2] - rest[1] > 1 THEN g[rest] ELSE Pivot(ends[1], ends[2])]
<1>7. \E g : g = Turned(g)
  BY <1>6 DEF Recurses
<1>8. Narrowed(loop, target) = CHOOSE g : g = Turned(g)
  BY DEF Narrowed
<1>9. Narrowed(loop, target) = Turned(Narrowed(loop, target))
  <2> HIDE DEF Turned
  <2> QED BY <1>7, <1>8
<1> HIDE DEF next, more, base
<1> QED BY <1>9

\* What holds of the first indices and over a turn holds of the last pivot.
LEMMA SearchKeeps ==
    ASSUME NEW loop, Len(loop) \in Nat \ {0}, NEW target, NEW R,
           NEW G \in SUBSET ((0..(Len(loop) - 1)) \X (0..(Len(loop) - 1))),
           \A ends \in G :
              LET rest == AfterTurn(loop, target, ends) IN
              IF rest[2] - rest[1] > 1 THEN rest \in G ELSE Pivot(ends[1], ends[2]) \in R
    PROVE  \A ends \in G : Narrowed(loop, target)[ends] \in R
<1> DEFINE E == (0..(Len(loop) - 1)) \X (0..(Len(loop) - 1))
           Bad(d) == \E ends \in G : /\ Narrowed(loop, target)[ends] \notin R
                                     /\ ends[2] > ends[1] /\ d = ends[2] - ends[1]
           D == {d \in Nat : Bad(d)}
<1>1. \A ends \in E : ends[1] \in Int /\ ends[2] \in Int
  OBVIOUS
<1>2. D = {}
  <2> SUFFICES ASSUME D # {} PROVE FALSE
    OBVIOUS
  <2>1. PICK d \in D : \A c \in D : d <= c
    BY NatHasLeast
  <2>2. PICK ends \in G : Narrowed(loop, target)[ends] \notin R /\ ends[2] > ends[1] /\ d = ends[2] - ends[1]
    BY <2>1
  <2> DEFINE rest == AfterTurn(loop, target, ends)
  <2>3. ends \in E
    OBVIOUS
  <2>4. rest[2] - rest[1] > 1 => rest \in E /\ rest[2] - rest[1] < ends[2] - ends[1]
    BY <2>3, TurnNarrows
  <2>5. Narrowed(loop, target)[ends] = IF rest[2] - rest[1] > 1 THEN Narrowed(loop, target)[rest]
                                        ELSE Pivot(ends[1], ends[2])
    BY <2>3, NarrowedTurns
  <2>6. IF rest[2] - rest[1] > 1 THEN rest \in G ELSE Pivot(ends[1], ends[2]) \in R
    OBVIOUS
  <2> HIDE DEF rest
  <2>7. rest[2] - rest[1] > 1 /\ rest \in G /\ Narrowed(loop, target)[rest] \notin R
    BY <2>2, <2>5, <2>6
  <2>8. /\ rest[2] > rest[1] /\ rest[2] - rest[1] \in Nat /\ rest[2] - rest[1] < d
    BY <1>1, <2>2, <2>3, <2>4, <2>7
  <2>9. rest[2] - rest[1] \in D
    BY <2>7, <2>8
  <2> QED BY <2>1, <2>8, <2>9
<1>3. ASSUME NEW ends \in G PROVE Narrowed(loop, target)[ends] \in R
  <2> DEFINE rest == AfterTurn(loop, target, ends)
  <2>1. ends \in E
    OBVIOUS
  <2>2. CASE ends[2] > ends[1]
    <3>1. ends[2] - ends[1] \in Nat
      BY <1>1, <2>1, <2>2
    <3>2. ~Bad(ends[2] - ends[1])
      BY <1>2, <3>1
    <3> QED BY <2>2, <3>2
  <2>3. CASE ~(ends[2] > ends[1])
    <3>1. ~(ends[2] - ends[1] > 1)
      BY <1>1, <2>1, <2>3
    <3>2. ~(rest[2] - rest[1] > 1)
      BY <2>1, <3>1, TurnNarrows
    <3>3. Narrowed(loop, target)[ends] = Pivot(ends[1], ends[2])
      BY <2>1, <3>2, NarrowedTurns
    <3> QED BY <3>2, <3>3
  <2> QED BY <2>2, <2>3
<1> QED BY <1>3

\* The pivot lies between two indices that are not neighbours.
LEMMA PivotBetween ==
    ASSUME NEW min \in Nat, NEW max \in Nat, max - min > 1
    PROVE  Pivot(min, max) \in Nat /\ min < Pivot(min, max) /\ Pivot(min, max) < max
BY DEF Pivot

\* The last pivot is a record of the loop.
LEMMA LastPivotInside ==
    ASSUME NEW loop, Len(loop) \in Nat \ {0}, NEW target
    PROVE  LastPivot(loop, target) \in 0..(Len(loop) - 1)
<1> DEFINE I == 0..(Len(loop) - 1)
           G == {ends \in I \X I : ends[2] - ends[1] > 1}
<1>1. CASE Len(loop) > 2
  <2>1. ASSUME NEW ends \in G
        PROVE  LET rest == AfterTurn(loop, target, ends) IN
               IF rest[2] - rest[1] > 1 THEN rest \in G ELSE Pivot(ends[1], ends[2]) \in I
    <3>1. PICK min \in I, max \in I : ends[1] = min /\ ends[2] = max /\ max - min > 1
      OBVIOUS
    <3>2. Pivot(min, max) \in I
      <4>1. min \in Nat /\ max \in Nat /\ max <= Len(loop) - 1 /\ max - min > 1 /\ Len(loop) - 1 \in Nat
        BY <3>1
      <4>2. Pivot(min, max) \in Nat /\ Pivot(min, max) < max
        BY <4>1, PivotBetween
      <4> QED BY <4>1, <4>2
    <3>3. ends \in I \X I
      OBVIOUS
    <3> DEFINE rest == AfterTurn(loop, target, ends)
    <3>4. rest[2] - rest[1] > 1 => rest \in I \X I
      BY <3>3, TurnNarrows
    <3> HIDE DEF rest
    <3>5. IF rest[2] - rest[1] > 1 THEN rest \in G ELSE Pivot(ends[1], ends[2]) \in I
      BY <3>1, <3>2, <3>4
    <3> QED BY <3>5 DEF rest
  <2>2. G \in SUBSET (I \X I)
    OBVIOUS
  <2>3. <<0, Len(loop) - 1>> \in G
    BY <1>1
  <2>4. \A ends \in G : Narrowed(loop, target)[ends] \in I
    <3> DEFINE R == I
    <3>1. \A ends \in G :
              LET rest == AfterTurn(loop, target, ends) IN
              IF rest[2] - rest[1] > 1 THEN rest \in G ELSE Pivot(ends[1], ends[2]) \in R
      BY <2>1
    <3>2. \A ends \in G : Narrowed(loop, target)[ends] \in R
      <4> HIDE DEF G, R
      <4> QED BY <2>2, <3>1, SearchKeeps
    <3> QED BY <3>2
  <2>5. Narrowed(loop, target)[<<0, Len(loop) - 1>>] \in I
    BY <2>3, <2>4
  <2> QED BY <1>1, <2>5 DEF LastPivot
<1>2. CASE ~(Len(loop) > 2)
  BY <1>2 DEF LastPivot
<1> QED BY <1>1, <1>2

\* The records next to the pivot on the ring, and the pivot.
Around(p, last) == {p, IndexBefore(p, last), IndexAfter(p, last)}

\* When every turn tells on which side of the tip its pivot is, the last pivot is
\* the tip or a neighbour of it.
LEMMA LastPivotNearTip ==
    ASSUME NEW loop, Len(loop) \in Nat, Len(loop) > 2, NEW target, NEW tip \in 0..(Len(loop) - 1),
           \A p \in 0..(Len(loop) - 1) :
              Bisect(loop[p + 1].start, target, loop[1].start, loop[Len(loop)].start)
                = IF p > tip THEN "left" ELSE "right"
    PROVE  LastPivot(loop, target) \in 0..(Len(loop) - 1)
           /\ tip \in Around(LastPivot(loop, target), Len(loop) - 1)
<1> DEFINE I == 0..(Len(loop) - 1)
           R == {p \in I : tip \in Around(p, Len(loop) - 1)}
           G == {ends \in I \X I : /\ ends[2] - ends[1] > 1 /\ ends[1] <= tip
                                   /\ tip < ends[2] \/ ends[2] = Len(loop) - 1}
<1>1. PICK last \in Nat : last = Len(loop) - 1
  <2>1. Len(loop) - 1 \in Nat
    OBVIOUS
  <2> QED BY <2>1
<1>2. ASSUME NEW ends \in G
      PROVE  LET rest == AfterTurn(loop, target, ends) IN
             IF rest[2] - rest[1] > 1 THEN rest \in G ELSE Pivot(ends[1], ends[2]) \in R
  <2>1. PICK min \in I, max \in I :
           /\ ends[1] = min /\ ends[2] = max /\ max - min > 1 /\ min <= tip
           /\ tip < max \/ max = last
    BY <1>1
  <2>2. min \in Nat /\ max \in Nat /\ max <= last /\ tip \in Nat /\ tip <= last
    BY <1>1, <2>1
  <2>3. PICK p \in I : p = Pivot(min, max) /\ min < p /\ p < max
    <3>1. Pivot(min, max) \in Nat /\ min < Pivot(min, max) /\ Pivot(min, max) < max
      BY <2>1, <2>2, PivotBetween
    <3>2. Pivot(min, max) \in I
      BY <1>1, <2>2, <3>1
    <3> QED BY <3>1, <3>2
  <2> DEFINE way == Bisect(loop[p + 1].start, target, loop[1].start, loop[Len(loop)].start)
             rest == <<MinAfter(way, min, p), MaxAfter(way, max, p)>>
  <2>4. AfterTurn(loop, target, ends) = rest
    BY <2>1, <2>3 DEF AfterTurn
  <2>5. way = IF p > tip THEN "left" ELSE "right"
    BY <2>3
  <2>6. p \in Nat /\ p <= last
    BY <1>1, <2>3
  <2> HIDE DEF way
  <2>7. rest = IF p > tip THEN <<min, p>> ELSE <<p, max>>
    BY <2>5 DEF MinAfter, MaxAfter
  <2>8. rest \in I \X I
    BY <2>1, <2>3, <2>7
  <2> HIDE DEF rest
  <2>11. rest[1] = (IF p > tip THEN min ELSE p) /\ rest[2] = IF p > tip THEN p ELSE max
    BY <2>7
  <2>12. /\ rest[1] <= tip /\ (tip < rest[2] \/ rest[2] = last)
         /\ ~(rest[2] - rest[1] > 1) =>
              (p > 0 /\ tip = p - 1) \/ (p < last /\ tip \in {p, p + 1})
    <3>1. PICK low, high : low = rest[1] /\ high = rest[2]
      OBVIOUS
    <3>2. low = IF p > tip THEN min ELSE p
      BY <2>11, <3>1
    <3>3. high = IF p > tip THEN p ELSE max
      BY <2>11, <3>1
    <3>4. min < p /\ p < max /\ max <= last /\ min <= tip /\ tip <= last /\ p \in Nat
          /\ min \in Nat /\ max \in Nat /\ tip \in Nat /\ last \in Nat
      BY <2>1, <2>2, <2>3, <2>6
    <3>5. tip < max \/ max = last
      BY <2>1
    <3>6. /\ low <= tip /\ (tip < high \/ high = last)
          /\ ~(high - low > 1) =>
              (p > 0 /\ tip = p - 1) \/ (p < last /\ tip \in {p, p + 1})
      BY ONLY <3>2, <3>3, <3>4, <3>5
    <3> QED BY <3>1, <3>6
  <2>9. rest[2] - rest[1] > 1 => rest \in G
    BY <1>1, <2>8, <2>12
  <2>10. ~(rest[2] - rest[1] > 1) => p \in R
    BY <1>1, <2>6, <2>12 DEF Around, IndexBefore, IndexAfter
  <2> HIDE DEF G, R
  <2> QED BY <2>1, <2>3, <2>4, <2>9, <2>10
<1>3. G \in SUBSET (I \X I)
  OBVIOUS
<1>4. <<0, Len(loop) - 1>> \in G
  BY <1>1
<1>5. \A ends \in G : Narrowed(loop, target)[ends] \in R
  <2>1. \A ends \in G :
            LET rest == AfterTurn(loop, target, ends) IN
            IF rest[2] - rest[1] > 1 THEN rest \in G ELSE Pivot(ends[1], ends[2]) \in R
    BY <1>2
  <2>2. Len(loop) \in Nat \ {0}
    OBVIOUS
  <2> HIDE DEF G, R
  <2> QED BY <1>3, <2>1, <2>2, SearchKeeps
<1>6. Narrowed(loop, target)[<<0, Len(loop) - 1>>] \in R
  BY <1>4, <1>5
<1> QED BY <1>6 DEF LastPivot

\* Looking for a time later than every record, the search settles on the latest of
\* the three records it reads last.
LEMMA SettlesOnLatest ==
    ASSUME NEW before, NEW this, NEW after, NEW pivot, NEW target \in Int,
           \A r \in {before, this, after} : r.start \in Int /\ r.start <= target
    PROVE  \E r \in {before, this, after} :
              /\ Settle(before, this, after, pivot, target, BeforeInclusive) = r.index
              /\ \A q \in {before, this, after} : q.start <= r.start
<1> DEFINE order == <<before, this, after>>
           fit == {k \in 1..3 : Fits(order[k], target, BeforeInclusive)}
           best == {k \in fit : \A j \in fit :
                       Nearness(order[j], BeforeInclusive) <= Nearness(order[k], BeforeInclusive)}
           found == CHOOSE k \in best : \A j \in best : k <= j
<1>1. \A r : /\ Fits(r, target, BeforeInclusive) <=> r.start <= target
             /\ Nearness(r, BeforeInclusive) = r.start
  BY DEF Fits, Nearness, BeforeExclusive, BeforeInclusive, Within, AfterInclusive, AfterExclusive
<1>2. \A k \in 1..3 : order[k] \in {before, this, after}
  OBVIOUS
<1>3. fit = 1..3
  BY <1>1, <1>2
<1>4. best = {k \in 1..3 : \A j \in 1..3 : order[j].start <= order[k].start}
  BY <1>1, <1>3
<1>5. before.start \in Int /\ this.start \in Int /\ after.start \in Int
  OBVIOUS
<1>6. best \subseteq 1..3
  BY <1>4
<1>7. 1 \in best \/ 2 \in best \/ 3 \in best
  <2>1. \A k \in 1..3 : k \in best <=> /\ before.start <= order[k].start
                                       /\ this.start <= order[k].start /\ after.start <= order[k].start
    BY <1>4
  <2> HIDE DEF best
  <2> QED BY <1>5, <2>1
<1>8. \E k \in best : \A j \in best : k <= j
  <2> HIDE DEF best
  <2> QED BY <1>6, <1>7
<1>9. found \in best
  BY <1>8
<1>10. Settle(before, this, after, pivot, target, BeforeInclusive) = order[found].index
  <2>1. fit # {} /\ BeforeInclusive # Within
    BY <1>3 DEF BeforeInclusive, Within
  <2> QED BY <2>1 DEF Settle
<1>11. \A j \in 1..3 : order[j].start <= order[found].start
  BY <1>4, <1>9
<1> HIDE DEF found
<1>12. found \in 1..3 /\ order[found] \in {before, this, after}
  BY <1>2, <1>6, <1>9
<1>13. \A q \in {before, this, after} : q.start <= order[found].start
  BY <1>11
<1> QED BY <1>10, <1>12, <1>13

\* The indices of the records the search reads last.
ReadLast(loop) ==
    LET last_index == Len(loop) - 1
        pivot == LastPivot(loop, MaximalTime)
        this == IF last_index > 1 THEN pivot ELSE last_index
    IN  {IndexBefore(pivot, last_index), this, IndexAfter(pivot, last_index)}

\* The search reads records of the loop, and gives the place of the latest of them.
LEMMA LocatedAround ==
    ASSUME NEW loop \in Seq(Record), Len(loop) > 1, NEW capacity \in Nat, Len(loop) <= capacity, NEW unset
    PROVE  /\ ReadLast(loop) \subseteq 0..(Len(loop) - 1)
           /\ \E i \in ReadLast(loop) :
                /\ Locate(loop, capacity, MaximalTime, BeforeInclusive, unset) = i
                /\ \A j \in ReadLast(loop) : loop[j + 1].start <= loop[i + 1].start
<1>1. Len(loop) \in Nat \ {0} /\ MaximalTime \in Int
  BY LenProperties, TimeAssumption, SpanAssumption DEF MaximalTime
<1>2. LastPivot(loop, MaximalTime) \in 0..(Len(loop) - 1)
  BY <1>1, LastPivotInside
<1>3. PICK last_index \in Nat : last_index = Len(loop) - 1
  <2>1. Len(loop) - 1 \in Nat
    BY <1>1
  <2> QED BY <2>1
<1>4. PICK pivot \in 0..last_index : pivot = LastPivot(loop, MaximalTime)
  BY <1>2, <1>3
<1>5. PICK this : this = IF last_index > 1 THEN pivot ELSE last_index
  OBVIOUS
<1>6. PICK b, a : b = IndexBefore(pivot, last_index) /\ a = IndexAfter(pivot, last_index)
  OBVIOUS
<1> DEFINE read == {b, this, a}
<1>7. b \in 0..last_index /\ this \in 0..last_index /\ a \in 0..last_index
  BY <1>5, <1>6 DEF IndexBefore, IndexAfter
<1>8. \A i \in 0..last_index : loop[i + 1].start \in Int /\ loop[i + 1].start <= MaximalTime
  <2> SUFFICES ASSUME NEW i \in 0..last_index
               PROVE  loop[i + 1].start \in Int /\ loop[i + 1].start <= MaximalTime
    OBVIOUS
  <2>1. i + 1 \in 1..Len(loop)
    BY <1>3
  <2>2. loop[i + 1] \in Record
    BY <2>1, ElementOfSeq
  <2> QED BY <2>2, TimeAssumption, SpanAssumption DEF Record, MaximalTime
<1>9. \A i : RecordInfo(loop, i).start = loop[i + 1].start /\ RecordInfo(loop, i).index = i
  BY DEF RecordInfo
<1>10. PICK rb, rt, ra : rb = RecordInfo(loop, b) /\ rt = RecordInfo(loop, this) /\ ra = RecordInfo(loop, a)
  OBVIOUS
<1>11. /\ rb.start = loop[b + 1].start /\ rt.start = loop[this + 1].start /\ ra.start = loop[a + 1].start
       /\ rb.index = b /\ rt.index = this /\ ra.index = a
  BY <1>9, <1>10
<1>12. Locate(loop, capacity, MaximalTime, BeforeInclusive, unset)
         = Settle(rb, rt, ra, pivot, MaximalTime, BeforeInclusive)
  <2>1. loop # <<>> /\ last_index # 0 /\ ~(last_index >= capacity)
    BY <1>1, <1>3, EmptySeq
  <2> QED BY <2>1, <1>3, <1>4, <1>5, <1>6, <1>10 DEF Locate
<1>13. \A r \in {rb, rt, ra} : r.start \in Int /\ r.start <= MaximalTime
  BY <1>7, <1>8, <1>11
<1>14. PICK r \in {rb, rt, ra} :
          /\ Settle(rb, rt, ra, pivot, MaximalTime, BeforeInclusive) = r.index
          /\ \A q \in {rb, rt, ra} : q.start <= r.start
  BY <1>1, <1>13, SettlesOnLatest
<1>15. \E i \in read : /\ r.index = i
                       /\ \A j \in read : loop[j + 1].start <= loop[i + 1].start
  BY <1>11, <1>14
<1>16. ReadLast(loop) = read
  BY <1>3, <1>4, <1>5, <1>6 DEF ReadLast
<1>17. read \subseteq 0..(Len(loop) - 1)
  BY <1>3, <1>7
<1>18. \E i \in read : /\ Locate(loop, capacity, MaximalTime, BeforeInclusive, unset) = i
                       /\ \A j \in read : loop[j + 1].start <= loop[i + 1].start
  BY <1>12, <1>14, <1>15
<1> HIDE DEF read
<1> QED BY <1>16, <1>17, <1>18

\* adl_newest_index finds a record of the loop, or leaves the index as it was.
LEMMA LocatedInside ==
    ASSUME NEW loop \in Seq(Record), NEW capacity \in Nat, NEW unset \in 0..(Len(loop) - 1)
    PROVE  /\ adl_newest_index(loop, capacity, unset) \in 0..(Len(loop) - 1)
           /\ unset < capacity => adl_newest_index(loop, capacity, unset) < capacity
<1>1. PICK n \in Nat : n = Len(loop)
  BY LenProperties
<1>2. n >= 1 /\ loop # <<>> /\ unset \in 0..(n - 1)
  BY <1>1, EmptySeq
<1>3. CASE n > 1 /\ n <= capacity
  <2>1. adl_newest_index(loop, capacity, unset) \in 0..(n - 1)
    BY <1>1, <1>3, LocatedAround DEF adl_newest_index
  <2> QED BY <1>1, <1>3, <2>1
<1>4. CASE ~(n > 1 /\ n <= capacity)
  <2>1. n - 1 = 0 \/ n - 1 >= capacity
    BY ONLY <1>2, <1>4, n \in Nat, capacity \in Nat
  <2>2. adl_newest_index(loop, capacity, unset) \in {0, unset}
    BY <1>1, <1>2, <2>1 DEF adl_newest_index, Locate
  <2> QED BY <1>1, <1>2, <2>2
<1> QED BY <1>3, <1>4

\* How many records were written after the one in slot k, the newest being in tip.
Age(k, tip, capacity) == IF k <= tip THEN tip - k ELSE tip + capacity - k

\* In a full loop whose records start the later the younger they are, rotated by any
\* number of slots, the binary search of adl_locate_index ends, and adl_newest_index,
\* which asks it for the last record before the end of time, gets the youngest.
THEOREM SearchFindsNewest ==
    ASSUME NEW loop \in Seq(Record), Len(loop) > 2, NEW tip \in 0..(Len(loop) - 1), NEW unset,
           \A j, k \in 0..(Len(loop) - 1) :
              Age(j, tip, Len(loop)) < Age(k, tip, Len(loop)) => loop[k + 1].start < loop[j + 1].start
    PROVE  adl_newest_index(loop, Len(loop), unset) = tip
<1>1. PICK n \in Nat : n = Len(loop)
  BY LenProperties
<1>2. \A i \in 0..(n - 1) : loop[i + 1].start \in Int /\ loop[i + 1].start < MaximalTime
  <2> SUFFICES ASSUME NEW i \in 0..(n - 1)
               PROVE  loop[i + 1].start \in Int /\ loop[i + 1].start < MaximalTime
    OBVIOUS
  <2>1. i + 1 \in 1..Len(loop)
    BY <1>1
  <2>2. loop[i + 1] \in Record
    BY <2>1, ElementOfSeq
  <2> QED BY <2>2, TimeAssumption, SpanAssumption DEF Record, MaximalTime
<1>3. ASSUME NEW p \in 0..(n - 1)
      PROVE  Bisect(loop[p + 1].start, MaximalTime, loop[1].start, loop[n].start)
               = IF p > tip THEN "left" ELSE "right"
  <2>1. 0 \in 0..(n - 1) /\ n - 1 \in 0..(n - 1) /\ (n - 1) + 1 = n /\ 0 + 1 = 1
    BY <1>1
  <2>2. loop[1].start \in Int /\ loop[n].start < MaximalTime /\ loop[n].start \in Int
    BY <1>2, <2>1
  <2>3. loop[p + 1].start \in Int /\ loop[p + 1].start < MaximalTime
    BY <1>2
  <2>4. p > tip => loop[p + 1].start < loop[1].start
    <3> SUFFICES ASSUME p > tip PROVE loop[p + 1].start < loop[1].start
      OBVIOUS
    <3>1. Age(0, tip, n) < Age(p, tip, n)
      BY <1>1 DEF Age
    <3> QED BY <1>1, <2>1, <3>1
  <2>5. p <= tip => loop[p + 1].start >= loop[1].start
    <3> SUFFICES ASSUME p <= tip, p # 0 PROVE loop[1].start < loop[p + 1].start
      BY <2>2, <2>3
    <3>1. Age(p, tip, n) < Age(0, tip, n)
      BY <1>1 DEF Age
    <3> QED BY <1>1, <2>1, <3>1
  <2>6. loop[n].start < MaximalTime /\ MaximalTime \in Int
    BY <2>2, TimeAssumption, SpanAssumption DEF MaximalTime
  <2> QED BY <2>2, <2>3, <2>4, <2>5, <2>6, <1>1 DEF Bisect
<1>4. tip \in Around(LastPivot(loop, MaximalTime), n - 1) /\ LastPivot(loop, MaximalTime) \in 0..(n - 1)
  BY <1>1, <1>3, LastPivotNearTip
<1>5. PICK pivot \in 0..(n - 1) : pivot = LastPivot(loop, MaximalTime) /\ tip \in Around(pivot, n - 1)
  BY <1>4
<1> DEFINE read == ReadLast(loop)
<1>6. /\ read \subseteq 0..(n - 1)
      /\ \E i \in read :
            /\ Locate(loop, n, MaximalTime, BeforeInclusive, unset) = i
            /\ \A j \in read : loop[j + 1].start <= loop[i + 1].start
  <2>1. Len(loop) > 1 /\ Len(loop) <= n
    BY <1>1
  <2>2. n - 1 = Len(loop) - 1
    BY <1>1
  <2> HIDE <1>1
  <2> QED BY <2>1, <2>2, LocatedAround
<1>7. tip \in read
  <2>1. read = {IndexBefore(pivot, n - 1), pivot, IndexAfter(pivot, n - 1)}
    BY <1>1, <1>5 DEF ReadLast
  <2> QED BY <1>5, <2>1 DEF Around
<1> HIDE DEF read
<1>8. PICK i \in 0..(n - 1) : /\ Locate(loop, n, MaximalTime, BeforeInclusive, unset) = i
                              /\ loop[tip + 1].start <= loop[i + 1].start
  BY <1>6, <1>7
<1>9. i = tip
  <2> SUFFICES ASSUME i # tip PROVE FALSE
    OBVIOUS
  <2>1. Age(tip, tip, n) < Age(i, tip, n)
    BY <1>1 DEF Age
  <2>2. loop[i + 1].start < loop[tip + 1].start
    BY <1>1, <2>1
  <2>3. loop[i + 1].start \in Int /\ loop[tip + 1].start \in Int
    BY <1>1, <1>2
  <2> QED BY <1>8, <2>2, <2>3
<1> QED BY <1>1, <1>8, <1>9 DEF adl_newest_index

-----------------------------------------------------------------------------
(* Which loops open.                                                       *)

\* A record at the end of a sequence.
LEMMA AddedLast ==
    ASSUME NEW S, NEW s \in Seq(S), NEW w \in S
    PROVE  /\ s \o <<w>> \in Seq(S) /\ Len(s \o <<w>>) = Len(s) + 1 /\ s \o <<w>> # <<>>
           /\ Last(s \o <<w>>) = w
           /\ \A i \in 1..Len(s) : (s \o <<w>>)[i] = s[i]
           /\ Front(s \o <<w>>) = s
<1>1. PICK n \in Nat : n = Len(s)
  BY LenProperties
<1>2. <<w>> \in Seq(S) /\ Len(<<w>>) = 1 /\ <<w>>[1] = w
  OBVIOUS
<1> DEFINE t == s \o <<w>>
<1>3. t \in Seq(S) /\ Len(t) = n + 1 /\ \A i \in 1..(n + 1) : t[i] = IF i <= n THEN s[i] ELSE <<w>>[i - n]
  BY <1>1, <1>2, ConcatProperties
<1> HIDE DEF t
<1>4. t # <<>> /\ t[n + 1] = w /\ \A i \in 1..n : t[i] = s[i]
  <2>1. n + 1 \in 1..(n + 1) /\ ~(n + 1 <= n) /\ (n + 1) - n = 1
    BY <1>1
  <2>2. t[n + 1] = w
    BY <1>2, <1>3, <2>1
  <2>3. \A i \in 1..n : i \in 1..(n + 1) /\ i <= n
    OBVIOUS
  <2>4. t # <<>>
    BY <1>3, EmptySeq
  <2> QED BY <1>3, <2>2, <2>3, <2>4
<1>5. Front(t) = s
  <2>1. \A i \in 1..n : t[i] \in S
    BY <1>1, <1>4, ElementOfSeq
  <2>2. Front(t) = SubSeq(t, 1, n)
    BY <1>3 DEF Front
  <2>3. /\ SubSeq(t, 1, n) \in Seq(S) /\ Len(SubSeq(t, 1, n)) = IF 1 <= n THEN n - 1 + 1 ELSE 0
        /\ \A i \in 1..(n - 1 + 1) : SubSeq(t, 1, n)[i] = t[1 + i - 1]
    BY <2>1, SubSeqProperties
  <2>4. Len(SubSeq(t, 1, n)) = Len(s)
    BY <1>1, <2>3
  <2>5. \A i \in 1..n : SubSeq(t, 1, n)[i] = s[i]
    <3> SUFFICES ASSUME NEW i \in 1..n PROVE SubSeq(t, 1, n)[i] = s[i]
      OBVIOUS
    <3>1. i \in 1..(n - 1 + 1) /\ 1 + i - 1 = i
      OBVIOUS
    <3> QED BY <1>4, <2>3, <3>1
  <2> QED BY <1>1, <2>2, <2>3, <2>4, <2>5, SeqEqual
<1> QED BY <1>1, <1>3, <1>4, <1>5 DEF t, Last

\* A sequence without its last record.
LEMMA FrontAndLast ==
    ASSUME NEW S, NEW s \in Seq(S), s # <<>>
    PROVE  /\ Last(s) \in S /\ Last(s) = s[Len(s)]
           /\ Front(s) \in Seq(S) /\ Len(Front(s)) = Len(s) - 1
           /\ \A i \in 1..(Len(s) - 1) : Front(s)[i] = s[i]
           /\ s = Front(s) \o <<Last(s)>>
<1>1. PICK n \in Nat : Len(s) = n + 1
  <2>1. Len(s) \in Nat \ {0}
    BY EmptySeq
  <2>2. Len(s) - 1 \in Nat /\ Len(s) = (Len(s) - 1) + 1
    BY <2>1
  <2> QED BY <2>2
<1>2. Last(s) = s[n + 1] /\ Last(s) \in S
  BY <1>1, ElementOfSeq DEF Last
<1>3. Front(s) = SubSeq(s, 1, n)
  BY <1>1 DEF Front
<1>4. \A i \in 1..n : s[i] \in S
  BY <1>1, ElementOfSeq
<1>5. /\ SubSeq(s, 1, n) \in Seq(S) /\ Len(SubSeq(s, 1, n)) = IF 1 <= n THEN n - 1 + 1 ELSE 0
      /\ \A i \in 1..(n - 1 + 1) : SubSeq(s, 1, n)[i] = s[1 + i - 1]
  BY <1>4, SubSeqProperties
<1>6. Front(s) \in Seq(S) /\ Len(Front(s)) = n /\ \A i \in 1..n : Front(s)[i] = s[i]
  <2>1. ASSUME NEW i \in 1..n PROVE Front(s)[i] = s[i]
    <3>1. i \in 1..(n - 1 + 1) /\ 1 + i - 1 = i
      OBVIOUS
    <3> QED BY <1>3, <1>5, <3>1
  <2> QED BY <1>3, <1>5, <2>1
<1>7. PICK f \in Seq(S), w \in S : f = Front(s) /\ w = Last(s)
  BY <1>2, <1>6
<1>8. f \o <<w>> \in Seq(S) /\ Len(f \o <<w>>) = n + 1 /\ Last(f \o <<w>>) = w
      /\ \A i \in 1..n : (f \o <<w>>)[i] = f[i]
  BY <1>6, <1>7, AddedLast
<1>9. s = f \o <<w>>
  <2> DEFINE t == f \o <<w>>
  <2>1. t[n + 1] = w
    BY <1>8 DEF Last
  <2>2. \A i \in 1..(n + 1) : s[i] = t[i]
    BY <1>2, <1>6, <1>7, <1>8, <2>1
  <2>3. t \in Seq(S) /\ Len(t) = Len(s)
    BY <1>1, <1>8
  <2> HIDE DEF t
  <2>4. s = t
    BY <1>1, <2>2, <2>3, SeqEqual
  <2> QED BY <2>4 DEF t
<1>10. Len(s) - 1 = n
  BY <1>1
<1>11. s = Front(s) \o <<Last(s)>>
  BY <1>7, <1>9
<1> QED BY <1>1, <1>2, <1>6, <1>10, <1>11

LEMMA LinesAgree ==
    ASSUME NEW flip, NEW max
    PROVE  \A k \in 1..3 : Lines(flip, max)[k].flip = flip /\ Lines(flip, max)[k].max = max
BY DEF Lines

\* When the capacities agree the first line counts.
LEMMA FirstLineCounts ==
    ASSUME NEW lines, \A k \in 1..3 : lines[k].max = lines[1].max
    PROVE  ParseIndexInfo(lines) = lines[1]
<1>1. lines[2].max = lines[1].max
  OBVIOUS
<1> QED BY <1>1 DEF ParseIndexInfo

\* A loop of records opens when its index names one of them that is in the capacity.
LEMMA Opens ==
    ASSUME NEW loop \in Seq(Record), loop # <<>>, NEW lines \in Seq(IndexLine), Len(lines) = 3,
           \A k \in 1..3 : lines[k].max = lines[1].max,
           0 <= lines[1].flip, lines[1].flip < lines[1].max, lines[1].flip < Len(loop),
           NEW newer \in BOOLEAN
    PROVE  /\ ContextFor(loop, lines, newer) # Null
           /\ ContextFor(loop, lines, newer).capacity = lines[1].max
           /\ ContextFor(loop, lines, newer).index < lines[1].max
           /\ ContextFor(loop, lines, newer).index = IndexFound(loop, lines[1], newer)
           /\ ContextFor(loop, lines, newer).size = SizeFound(loop, lines[1])
           /\ ContextFor(loop, lines, newer).last = loop[IndexFound(loop, lines[1], newer) + 1]
           /\ ~ContextFor(loop, lines, newer).has_written
<1>1. PICK line \in IndexLine : line = lines[1]
  <2>1. lines[1] \in IndexLine
    BY ThreeLines
  <2> QED BY <2>1
<1>2. ParseIndexInfo(lines) = line
  BY <1>1, FirstLineCounts
<1>3. PICK n \in Nat : n = Len(loop) /\ n >= 1
  BY EmptySeq
<1>4. PICK flip \in Nat, max \in Nat \ {0} : flip = line.flip /\ max = line.max /\ flip < max /\ flip < n
  BY <1>1, <1>3 DEF IndexLine
<1>5. PICK index : index = IndexFound(loop, line, newer)
  OBVIOUS
<1>6. adl_newest_index(loop, max, flip) \in 0..(n - 1) /\ adl_newest_index(loop, max, flip) < max
  <2>1. flip \in 0..(Len(loop) - 1) /\ max \in Nat
    BY <1>3, <1>4
  <2> QED BY <1>3, <1>4, <2>1, LocatedInside
<1>7. index \in 0..(n - 1) /\ index < max
  BY <1>3, <1>4, <1>5, <1>6 DEF IndexFound
<1>8. PICK c : c = [index |-> index, size |-> SizeFound(loop, line), capacity |-> line.max,
                    last |-> loop[index + 1], has_written |-> FALSE, stamped |-> FALSE]
  OBVIOUS
<1>9. ContextFor(loop, lines, newer) = c
  BY <1>2, <1>3, <1>4, <1>5, <1>7, <1>8 DEF ContextFor
<1>10. c \in Context
  <2>1. SizeFound(loop, line) \in Nat
    BY <1>3, <1>4 DEF SizeFound
  <2>2. loop[index + 1] \in Record
    BY <1>3, <1>7, ElementOfSeq
  <2> QED BY <1>4, <1>7, <1>8, <2>1, <2>2 DEF Context
<1>11. c # Null /\ c.capacity = line.max /\ c.index = index /\ c.size = SizeFound(loop, line)
       /\ c.last = loop[index + 1] /\ ~c.has_written
  BY <1>8, <1>10, NullAssumption
<1>12. c.index < line.max
  BY <1>4, <1>7, <1>11
<1> QED BY <1>1, <1>5, <1>9, <1>11, <1>12

\* Once a record has been accepted the files hold one and the index file is whole:
\* its lines agree on the capacity, and the first of them, which counts, names a
\* slot of it, unless dlresize chose the slot's own number for the capacity.
OpensInv ==
    /\ resizes \in Nat
    /\ accepted = <<>> => buf \in {NoFile, <<>>} /\ context = Null
    /\ accepted # <<>> =>
        /\ buf \notin {NoFile, <<>>} /\ idx # NoFile /\ Len(idx) = 3
        /\ \A k \in 1..3 : idx[k].max = idx[1].max
        /\ 0 <= idx[1].flip
        /\ idx[1].flip < idx[1].max \/ (resizes > 0 /\ idx[1].flip = idx[1].max)
    /\ context # Null => context.capacity = idx[1].max /\ context.index < context.capacity
    /\ pending # <<>> => Len(accepted) > 1 /\ pending = <<Last(accepted)>>

LEMMA InitOpensInv == Init => OpensInv
<1> SUFFICES ASSUME Init PROVE OpensInv
  OBVIOUS
<1>1. context = Null /\ pending = <<>> /\ resizes = 0
  BY DEF Init
<1>2. CASE buf = NoFile /\ accepted = <<>>
  BY <1>1, <1>2 DEF OpensInv
<1>3. ASSUME NEW size \in Sizes, buf = <<RecordAt(1)>>, idx = Lines(0, size),
             accepted = <<[index |-> 0, record |-> RecordAt(1)]>>
      PROVE  OpensInv
  <2>1. RecordAt(1) \in Record
    BY TimeAssumption, SpanAssumption DEF RecordAt, Record
  <2>2. buf \in Seq(Record) /\ buf # <<>> /\ accepted # <<>>
    BY <1>3, <2>1
  <2>3. size \in Nat \ {0}
    BY SizesAssumption
  <2>4. idx \in Seq(IndexLine) /\ Len(idx) = 3 /\ \A k \in 1..3 : idx[k].flip = 0 /\ idx[k].max = size
    BY <1>3, <2>3, LinesProperties, LinesAgree
  <2> QED BY <1>1, <2>2, <2>3, <2>4, NoFileAssumption DEF OpensInv
<1> QED BY <1>2, <1>3 DEF Init

\* A write at most one record behind the end keeps a loop that holds records so.
LEMMA StoredKeeps ==
    ASSUME FilesInv, StreamInv, buf # NoFile, buf # <<>>
    PROVE  Stored(buf, pending) \in Seq(Record) /\ Stored(buf, pending) \notin {NoFile, <<>>}
<1>1. buf \in Seq(Record) /\ Len(buf) \in Nat \ {0}
  BY EmptySeq DEF FilesInv
<1>2. Stored(buf, pending) \in Seq(Record) /\ Len(Stored(buf, pending)) >= Len(buf)
  BY StoredPending
<1>3. Len(Stored(buf, pending)) # 0
  BY <1>1, <1>2, LenProperties
<1> QED BY <1>2, <1>3, EmptySeq, NoFileAssumption

\* The index lines archd writes are those of an index that opens.
LEMMA WrittenLinesOpen ==
    ASSUME LInv, OpensInv, context # Null
    PROVE  LET lines == Lines(context.index, context.capacity) IN
           /\ lines \in Seq(IndexLine) /\ lines # NoFile /\ Len(lines) = 3
           /\ \A k \in 1..3 : lines[k].flip = context.index /\ lines[k].max = idx[1].max
           /\ context.index \in Nat /\ context.index < idx[1].max
<1>1. context \in Context /\ context.capacity = idx[1].max /\ context.index < context.capacity
  BY DEF LInv, ContextInv, OpensInv
<1>2. context.index \in Nat /\ context.capacity \in Nat \ {0} /\ context.index \in Int
  BY <1>1 DEF Context
<1> DEFINE lines == Lines(context.index, context.capacity)
<1>3. lines \in Seq(IndexLine) /\ Len(lines) = 3
  BY <1>2, LinesProperties
<1>4. \A k \in 1..3 : lines[k].flip = context.index /\ lines[k].max = context.capacity
  BY LinesAgree
<1> QED BY <1>1, <1>2, <1>3, <1>4, NoFileAssumption

\* No loop without records opens.
LEMMA EmptyLoopStaysClosed == ASSUME NEW lines, NEW newer PROVE ContextFor(<<>>, lines, newer) = Null
<1>1. Len(<<>>) = 0
  OBVIOUS
<1>2. \A i : i \notin 0..(0 - 1)
  OBVIOUS
<1> QED BY <1>1, <1>2 DEF ContextFor

\* What adl_open does to the files and the context, when it succeeds: nothing to the
\* files, and the index line it went by is in range.
LEMMA OpenedLoop ==
    ASSUME LInv, OpensInv, NEW r, NEW size, NEW newer \in BOOLEAN, OpenFiles(r, size, newer),
           context' # Null
    PROVE  /\ accepted # <<>> /\ buf' = buf /\ idx' = idx /\ buf \in Seq(Record) /\ idx \in Seq(IndexLine)
           /\ context' = ContextFor(buf, idx, newer) /\ idx[1].flip < idx[1].max
           /\ misled' = misled \cup Misleads(buf, idx, newer)
           /\ ParseIndexInfo(idx) = idx[1] /\ idx[1] \in IndexLine
           /\ pending = <<>> /\ pending' = <<>> /\ context = Null
<1>1. buf # NoFile /\ idx # NoFile
  <2> SUFFICES ASSUME buf = NoFile \/ idx = NoFile PROVE FALSE
    OBVIOUS
  <2>1. context' = ContextFor(<<>>, Lines(-1, size), newer)
    BY DEF OpenFiles
  <2> QED BY <2>1, EmptyLoopStaysClosed
<1>2. buf' = buf /\ idx' = idx /\ context' = ContextFor(buf, idx, newer) /\ context = Null
      /\ misled' = misled \cup Misleads(buf, idx, newer) /\ pending' = pending
  BY <1>1 DEF OpenFiles
<1>3. buf # <<>>
  BY <1>2, EmptyLoopStaysClosed
<1>4. accepted # <<>>
  BY <1>1, <1>3 DEF OpensInv
<1>5. ParseIndexInfo(idx) = idx[1]
  BY <1>4, FirstLineCounts DEF OpensInv
<1>6. buf \in Seq(Record) /\ idx \in Seq(IndexLine) /\ Len(idx) = 3
  BY <1>1, <1>4 DEF LInv, FilesInv, OpensInv
<1>7. idx[1] \in IndexLine
  BY <1>6, ThreeLines
<1>8. ~(idx[1].flip >= idx[1].max)
  BY <1>2, <1>5 DEF ContextFor
<1>9. idx[1].flip < idx[1].max
  BY <1>7, <1>8 DEF IndexLine
<1>10. pending = <<>>
  BY <1>2 DEF LInv, StreamInv
<1> QED BY <1>2, <1>4, <1>5, <1>6, <1>7, <1>9, <1>10

\* What adl_write does, whatever is due.
LEMMA WrittenRecord ==
    ASSUME LInv, FreshInv, OpensInv, NEW due \in {"none", "flush", "index"}, AdlWrite(due)
    PROVE  LET w == [index |-> NewIndex, record |-> writing] IN
           /\ w \in Write /\ writing \in Record /\ w.index = NewIndex /\ w.record = writing
           /\ NewIndex \in Nat /\ NewIndex < idx[1].max /\ NewIndex <= Len(buf)
           /\ accepted # <<>> /\ accepted \in Seq(Write) /\ accepted' = accepted \o <<w>>
           /\ buf \in Seq(Record) /\ buf \notin {NoFile, <<>>}
           /\ Stored(buf, <<w>>) \in Seq(Record) /\ Stored(buf, <<w>>) \notin {NoFile, <<>>}
           /\ pending = <<>>
           /\ due = "none" => buf' = buf /\ pending' = <<w>> /\ idx' = idx
           /\ due # "none" => buf' = Stored(buf, <<w>>) /\ pending' = <<>>
           /\ due = "flush" => idx' = idx
           /\ due = "index" => idx' = Lines(NewIndex, idx[1].max)
           /\ context \in Context /\ context # Null /\ context' # Null
           /\ context'.index = NewIndex /\ context'.capacity = idx[1].max
           /\ context'.last = writing /\ context'.size = Appended(writing).size
<1> DEFINE w == [index |-> NewIndex, record |-> writing]
           c == Appended(writing)
<1>1. writing # NoRecord /\ pending = <<>>
  BY DEF AdlWrite
<1>2. /\ NewIndex \in Nat /\ NewIndex <= Len(buf) /\ c \in Context /\ c.index = NewIndex
      /\ buf \in Seq(Record) /\ buf # NoFile /\ idx # NoFile /\ Len(idx) = 3
      /\ writing \in Record /\ context \in Context /\ context # Null
  BY <1>1, NextSlotFits
<1>3. w \in Write /\ w.index = NewIndex /\ w.record = writing
  BY <1>2 DEF Write
<1>4. accepted # <<>> /\ buf # <<>> /\ accepted \in Seq(Write)
  BY <1>2 DEF OpensInv, FreshInv
<1>5. context.capacity = idx[1].max /\ context.index < context.capacity
      /\ context.index \in Nat /\ context.capacity \in Nat \ {0}
  BY <1>2 DEF OpensInv, Context
<1>6. NewIndex < idx[1].max
  BY <1>5 DEF NewIndex
<1>7. c.capacity = idx[1].max /\ c.last = writing
  BY <1>2, <1>5 DEF Appended, Context
<1>8. <<w>> # <<>> /\ <<w>>[1] = w /\ w.index <= Len(buf)
  BY <1>2, <1>3
<1>9. Stored(buf, <<w>>) \in Seq(Record) /\ Len(Stored(buf, <<w>>)) >= Len(buf)
  <2> HIDE DEF w
  <2> QED BY <1>2, <1>3, <1>8, StoredProperties
<1>10. Stored(buf, <<w>>) \notin {NoFile, <<>>}
  <2>1. Len(buf) \in Nat \ {0}
    BY <1>2, <1>4, EmptySeq
  <2>2. Len(Stored(buf, <<w>>)) # 0
    BY <1>9, <2>1, LenProperties
  <2> QED BY <1>9, <2>2, EmptySeq, NoFileAssumption
<1>11. /\ buf' = IF due = "none" THEN buf ELSE Stored(buf, <<w>>)
       /\ pending' = IF due = "none" THEN <<w>> ELSE <<>>
       /\ idx' = IF due = "index" THEN Lines(c.index, c.capacity) ELSE idx
       /\ context' = IF due = "index" THEN [c EXCEPT !.stamped = TRUE, !.has_written = FALSE] ELSE c
       /\ accepted' = accepted \o <<w>>
  BY DEF AdlWrite
<1> HIDE DEF w, c
<1>12. context' \in Context /\ context'.index = c.index /\ context'.capacity = c.capacity
       /\ context'.last = c.last /\ context'.size = c.size
  BY <1>2, <1>11 DEF Context
<1>13. context' # Null
  BY <1>12, NullAssumption
<1>14. idx' = IF due = "index" THEN Lines(NewIndex, idx[1].max) ELSE idx
  BY <1>2, <1>7, <1>11
<1> QED BY <1>1, <1>2, <1>3, <1>4, <1>6, <1>7, <1>9, <1>10, <1>11, <1>12, <1>13, <1>14 DEF w, c

\* An index file in which all agree on the capacity and the first line is in range.
WholeIndex(lines) ==
    /\ lines # NoFile /\ Len(lines) = 3
    /\ \A k \in 1..3 : lines[k].max = lines[1].max
    /\ 0 <= lines[1].flip

LEMMA OpensInvStep == LInv /\ FreshInv /\ FreshInv' /\ OpensInv /\ [Next]_vars => OpensInv'
<1> SUFFICES ASSUME LInv, FreshInv, FreshInv', OpensInv, [Next]_vars PROVE OpensInv'
  OBVIOUS
<1>0. /\ FilesInv /\ StreamInv /\ ContextInv
      /\ accepted \in Seq(Write) /\ accepted' \in Seq(Write) /\ Len(accepted) \in Nat /\ resizes \in Nat
  BY LenProperties DEF LInv, FreshInv, OpensInv
<1>1. ASSUME NEW r \in Record, OpenCached(r) PROVE OpensInv'
  BY <1>1 DEF OpenCached, OpensInv
<1>2. ASSUME NEW r \in Record, NEW size \in Sizes, NEW newer \in BOOLEAN, OpenFiles(r, size, newer)
      PROVE  OpensInv'
  <2>1. context = Null /\ pending = <<>> /\ UNCHANGED <<pending, accepted, resizes>>
    BY <1>0, <1>2 DEF OpenFiles, StreamInv
  <2>2. CASE context' = Null
    <3>1. CASE accepted = <<>>
      <4>1. buf' \in {NoFile, <<>>}
        BY <1>2, <3>1 DEF OpenFiles, OpensInv
      <4> QED BY <2>1, <2>2, <3>1, <4>1 DEF OpensInv
    <3>2. CASE accepted # <<>>
      <4>1. buf' = buf /\ idx' = idx
        BY <1>2, <3>2 DEF OpenFiles, OpensInv
      <4> QED BY <2>1, <2>2, <3>2, <4>1 DEF OpensInv
    <3> QED BY <3>1, <3>2
  <2>3. CASE context' # Null
    <3>1. /\ accepted # <<>> /\ buf' = buf /\ idx' = idx /\ buf \in Seq(Record) /\ idx \in Seq(IndexLine)
          /\ context' = ContextFor(buf, idx, newer) /\ idx[1].flip < idx[1].max
      BY <1>2, <2>3, OpenedLoop
    <3>2. /\ buf # <<>> /\ Len(idx) = 3 /\ 0 <= idx[1].flip /\ idx # NoFile
          /\ \A k \in 1..3 : idx[k].max = idx[1].max
      BY <3>1 DEF OpensInv
    <3>3. idx[1].flip < Len(buf)
      BY <1>0, <3>2 DEF FilesInv
    <3>4. context'.capacity = idx[1].max /\ context'.index < idx[1].max
      BY <3>1, <3>2, <3>3, Opens
    <3> QED BY <2>1, <2>3, <3>1, <3>4 DEF OpensInv
  <2> QED BY <2>2, <2>3
<1>3. CASE SkipOverlap \/ WriteFails
  <2>1. UNCHANGED <<buf, idx, context, pending, accepted, resizes>>
    BY <1>3 DEF SkipOverlap, WriteFails
  <2> QED BY <2>1 DEF OpensInv
<1>4. CASE SeekNext
  <2>1. context # Null /\ buf' = Stored(buf, pending) /\ pending' = <<>> /\ UNCHANGED <<idx, context, accepted, resizes>>
    BY <1>0, <1>4 DEF SeekNext, StreamInv
  <2>2. accepted # <<>> /\ buf' \notin {NoFile, <<>>}
    BY <1>0, <2>1, StoredKeeps DEF OpensInv
  <2> QED BY <2>1, <2>2 DEF OpensInv
<1>5. ASSUME NEW due \in {"none", "flush", "index"}, AdlWrite(due) PROVE OpensInv'
  <2>1. PICK w \in Write :
           /\ w.index = NewIndex /\ NewIndex \in Nat /\ NewIndex < idx[1].max
           /\ accepted # <<>> /\ accepted' = accepted \o <<w>>
           /\ buf' \notin {NoFile, <<>>} /\ pending' \in {<<>>, <<w>>}
           /\ idx' \in {idx, Lines(NewIndex, idx[1].max)}
           /\ context' # Null /\ context'.index = NewIndex /\ context'.capacity = idx[1].max
    BY <1>0, <1>5, WrittenRecord
  <2>2. Last(accepted') = w /\ Len(accepted') = Len(accepted) + 1 /\ accepted' # <<>> /\ Len(accepted) # 0
    BY <1>0, <2>1, AddedLast, EmptySeq
  <2>3. WholeIndex(idx) /\ idx[1].max \in Nat \ {0}
    <3>1. WholeIndex(idx)
      BY <2>1 DEF OpensInv, WholeIndex
    <3>2. idx \in Seq(IndexLine)
      BY <1>0, <3>1 DEF FilesInv, WholeIndex
    <3>3. idx[1] \in IndexLine
      BY <3>1, <3>2, ThreeLines DEF WholeIndex
    <3> QED BY <3>1, <3>3 DEF IndexLine
  <2>4. /\ WholeIndex(idx') /\ idx'[1].max = idx[1].max
        /\ idx'[1].flip < idx'[1].max \/ (resizes > 0 /\ idx'[1].flip = idx'[1].max)
    <3>1. CASE idx' = idx
      BY <2>1, <2>3, <3>1 DEF OpensInv
    <3>2. CASE idx' = Lines(NewIndex, idx[1].max)
      <4>1. /\ idx' \in Seq(IndexLine) /\ Len(idx') = 3
            /\ \A k \in 1..3 : idx'[k].flip = NewIndex /\ idx'[k].max = idx[1].max
        BY <2>1, <2>3, <3>2, LinesProperties, LinesAgree
      <4> QED BY <2>1, <4>1, NoFileAssumption DEF WholeIndex
    <3> QED BY <2>1, <3>1, <3>2
  <2>5. resizes' = resizes
    BY <1>5 DEF AdlWrite
  <2> QED BY <1>0, <2>1, <2>2, <2>4, <2>5 DEF OpensInv, WholeIndex
<1>6. CASE WriteAllIndices \/ CloseAll
  <2>1. /\ context # Null /\ buf' = Stored(buf, pending) /\ pending' = <<>>
        /\ idx' \in {idx, Lines(context.index, context.capacity)}
        /\ \/ context' = Null
           \/ context' = [context EXCEPT !.has_written = FALSE, !.stamped = TRUE]
        /\ UNCHANGED <<accepted, resizes>>
    BY <1>6 DEF WriteAllIndices, CloseAll
  <2>2. accepted # <<>> /\ buf' \notin {NoFile, <<>>}
    BY <1>0, <2>1, StoredKeeps DEF OpensInv
  <2>3. context' # Null => context'.index = context.index /\ context'.capacity = context.capacity
    BY <1>0, <2>1 DEF ContextInv, Context
  <2>4. /\ WholeIndex(idx') /\ idx'[1].max = idx[1].max
        /\ idx'[1].flip < idx'[1].max \/ (resizes > 0 /\ idx'[1].flip = idx'[1].max)
    BY <2>1, <2>2, WrittenLinesOpen DEF OpensInv, WholeIndex
  <2> QED BY <2>1, <2>2, <2>3, <2>4 DEF OpensInv, WholeIndex
<1>7. CASE Kill
  <2>1. /\ context # Null /\ context' = Null /\ pending' = <<>> /\ UNCHANGED <<buf, idx, resizes>>
        /\ accepted' = IF pending = <<>> THEN accepted ELSE Front(accepted)
    BY <1>7 DEF Kill
  <2>2. accepted # <<>>
    BY <2>1 DEF OpensInv
  <2>3. accepted' # <<>>
    <3>1. CASE pending = <<>>
      BY <2>1, <2>2, <3>1
    <3>2. CASE pending # <<>>
      <4>1. Len(accepted) > 1
        BY <3>2 DEF OpensInv
      <4>2. Len(Front(accepted)) = Len(accepted) - 1
        BY <1>0, <2>2, FrontAndLast
      <4> QED BY <1>0, <2>1, <3>2, <4>1, <4>2, EmptySeq
    <3> QED BY <3>1, <3>2
  <2> QED BY <2>1, <2>2, <2>3 DEF OpensInv
<1>8. ASSUME NEW lines \in 0..2, KillWritingIndex(lines) PROVE OpensInv'
  <2>1. /\ context # Null /\ buf' = Stored(buf, pending) /\ pending' = <<>>
        /\ idx' = [k \in 1..3 |-> IF k <= lines THEN Lines(context.index, context.capacity)[k] ELSE idx[k]]
        /\ context' = Null /\ UNCHANGED <<accepted, resizes>>
    BY <1>8 DEF KillWritingIndex
  <2>2. accepted # <<>> /\ buf' \notin {NoFile, <<>>}
    BY <1>0, <2>1, StoredKeeps DEF OpensInv
  <2> DEFINE new == Lines(context.index, context.capacity)
  <2>3. /\ \A k \in 1..3 : new[k].flip = context.index /\ new[k].max = idx[1].max
        /\ context.index \in Nat /\ context.index < idx[1].max
    BY <2>1, WrittenLinesOpen
  <2> HIDE DEF new
  <2>4. \A k \in 1..3 : idx'[k] = IF k <= lines THEN new[k] ELSE idx[k]
    BY <2>1 DEF new
  <2>5. idx' # NoFile /\ Len(idx') = 3
    <3>3. Len(idx') = 3
      BY <2>1
    <3>4. idx' # NoFile
      <4>1. \A k \in 1..3 : new[k] \in IndexLine /\ idx[k] \in IndexLine
        <5>1. new \in Seq(IndexLine) /\ Len(new) = 3
          BY <2>1, WrittenLinesOpen DEF new
        <5>2. idx \in Seq(IndexLine) /\ Len(idx) = 3
          BY <1>0, <2>2 DEF OpensInv, FilesInv
        <5> QED BY <5>1, <5>2, ThreeLines
      <4>2. \A k \in 1..3 : (IF k <= lines THEN new[k] ELSE idx[k]) \in IndexLine
        BY <4>1
      <4>3. idx' \in Seq(IndexLine)
        <5>1. idx' = [k \in 1..3 |-> IF k <= lines THEN new[k] ELSE idx[k]]
          BY <2>1 DEF new
        <5> QED BY <4>2, <5>1, IsASeq
      <4> QED BY <4>3, NoFileAssumption
    <3> QED BY <3>3, <3>4
  <2>6. \A k \in 1..3 : idx[k].max = idx[1].max
    BY <2>2 DEF OpensInv
  <2>7. \A k \in 1..3 : idx'[k].max = idx[1].max
    BY <2>3, <2>4, <2>6
  <2>8. idx'[1].flip = IF 1 <= lines THEN context.index ELSE idx[1].flip
    BY <2>3, <2>4
  <2> QED BY <2>1, <2>2, <2>3, <2>5, <2>7, <2>8 DEF OpensInv
<1>9. ASSUME NEW made \in BOOLEAN, KillMakingBuffer(made) PROVE OpensInv'
  <2>1. (buf = NoFile \/ idx = NoFile) /\ buf' = <<>> /\ UNCHANGED <<context, pending, accepted, resizes>>
    BY <1>9 DEF KillMakingBuffer
  <2>2. accepted = <<>>
    BY <2>1 DEF OpensInv
  <2> QED BY <2>1, <2>2 DEF OpensInv
<1>10. ASSUME NEW config \in Sizes, NEW truncate \in BOOLEAN, Resize(config, truncate) PROVE OpensInv'
  <2> DEFINE line == ParseIndexInfo(idx)
  <2>1. /\ context = Null /\ buf # NoFile /\ idx # NoFile /\ Len(idx) = 3
        /\ resizes' = resizes + 1 /\ UNCHANGED <<context, pending, accepted>>
        /\ \/ JustTheIndex(line, config) /\ idx' = Lines(line.flip, config) /\ buf' = buf
           \/ idx' = Lines(line.flip, TruncatedSize(line, config)) /\ buf' = SubSeq(buf, 1, line.flip + 1)
    BY <1>10 DEF Resize
  <2>2. buf \in Seq(Record) /\ idx \in Seq(IndexLine) /\ Len(buf) \in Nat
    BY <1>0, <2>1, LenProperties DEF FilesInv
  <2>3. line \in IndexLine /\ -1 <= line.flip /\ line.flip < Len(buf)
    BY <1>0, <2>1, <2>2, ParsedLine DEF FilesInv
  <2> HIDE DEF line
  <2>4. PICK flip \in Int : flip = line.flip /\ -1 <= flip /\ flip < Len(buf)
    BY <2>3 DEF IndexLine
  <2>5. config \in Nat \ {0} /\ TruncatedSize(line, config) \in Nat \ {0}
    BY <2>4, SizesAssumption DEF TruncatedSize
  <2>6. \A i \in 1..(flip + 1) : buf[i] \in Record
    <3> SUFFICES ASSUME NEW i \in 1..(flip + 1) PROVE buf[i] \in Record
      OBVIOUS
    <3>1. i \in 1..Len(buf)
      BY <2>2, <2>4
    <3> QED BY <2>2, <3>1, ElementOfSeq
  <2>7. /\ SubSeq(buf, 1, flip + 1) \in Seq(Record)
        /\ Len(SubSeq(buf, 1, flip + 1)) = IF 1 <= flip + 1 THEN flip + 1 - 1 + 1 ELSE 0
    BY <2>6, SubSeqProperties
  <2>8. CASE accepted = <<>>
    <3>1. buf = <<>> /\ Len(buf) = 0
      BY <2>1, <2>8 DEF OpensInv
    <3>2. flip = -1
      BY <2>4, <3>1
    <3>3. SubSeq(buf, 1, flip + 1) = <<>>
      BY <2>7, <3>2, EmptySeq
    <3>4. buf' = <<>>
      BY <2>1, <2>4, <3>1, <3>3
    <3> QED BY <1>0, <2>1, <2>8, <3>4 DEF OpensInv
  <2>9. CASE accepted # <<>>
    <3>1. line = idx[1] /\ 0 <= flip /\ buf # <<>>
      BY <2>4, <2>9, FirstLineCounts DEF OpensInv, line
    <3>2. buf' \notin {NoFile, <<>>}
      <4>1. SubSeq(buf, 1, flip + 1) \notin {NoFile, <<>>}
        <5>1. Len(SubSeq(buf, 1, flip + 1)) # 0
          BY <2>7, <3>1
        <5> QED BY <2>7, <5>1, EmptySeq, NoFileAssumption
      <4> QED BY <2>1, <2>4, <3>1, <4>1
    <3>3. PICK max \in Nat \ {0} : idx' = Lines(flip, max) /\ flip <= max
      <4>1. JustTheIndex(line, config) => flip <= config
        BY <2>2, <2>4, <2>5 DEF JustTheIndex
      <4>2. flip <= TruncatedSize(line, config)
        BY <2>4, <2>5 DEF TruncatedSize
      <4> QED BY <2>1, <2>4, <2>5, <4>1, <4>2
    <3>4. /\ idx' \in Seq(IndexLine) /\ Len(idx') = 3
          /\ \A k \in 1..3 : idx'[k].flip = flip /\ idx'[k].max = max
      BY <3>3, LinesProperties, LinesAgree
    <3>5. resizes' \in Nat /\ resizes' > 0
      BY <1>0, <2>1
    <3>6. idx'[1].flip < idx'[1].max \/ (resizes' > 0 /\ idx'[1].flip = idx'[1].max)
      BY <3>3, <3>4, <3>5
    <3>7. idx' # NoFile
      BY <3>4, NoFileAssumption
    <3>8. 0 <= idx'[1].flip /\ \A k \in 1..3 : idx'[k].max = idx'[1].max
      BY <3>1, <3>4
    <3> QED BY <2>1, <2>9, <3>2, <3>4, <3>5, <3>6, <3>7, <3>8 DEF OpensInv
  <2> QED BY <2>8, <2>9
<1>11. CASE UNCHANGED vars
  BY <1>11 DEF vars, OpensInv
<1> QED BY <1>1, <1>2, <1>3, <1>4, <1>5, <1>6, <1>7, <1>8, <1>9, <1>10, <1>11, OfferedRecord
        DEF Next, WriteChan

\* What the code keeps of a loop that holds a record, over deaths and dlresize: it
\* opens again, unless dlresize gave it the size that equals the index.
THEOREM EveryStoredLoopOpens == Spec => []StoredLoopOpens
<1>1. ASSUME LInv, OpensInv PROVE StoredLoopOpens
  <2> SUFFICES ASSUME context = Null, buf \notin {NoFile, <<>>}, idx # NoFile
               PROVE  \/ \A newer \in BOOLEAN : ContextFor(buf, idx, newer) # Null
                      \/ resizes > 0 /\ ParseIndexInfo(idx).flip = ParseIndexInfo(idx).max
    BY DEF StoredLoopOpens
  <2>1. accepted # <<>>
    BY <1>1 DEF OpensInv
  <2>2. /\ Len(idx) = 3 /\ 0 <= idx[1].flip
        /\ \A k \in 1..3 : idx[k].max = idx[1].max
        /\ idx[1].flip < idx[1].max \/ (resizes > 0 /\ idx[1].flip = idx[1].max)
    BY <1>1, <2>1 DEF OpensInv
  <2>3. buf \in Seq(Record) /\ idx \in Seq(IndexLine) /\ idx[1].flip < Len(buf)
    BY <1>1, <2>2 DEF LInv, FilesInv
  <2>4. ParseIndexInfo(idx) = idx[1]
    BY <2>2, FirstLineCounts
  <2>5. CASE idx[1].flip < idx[1].max
    BY <2>2, <2>3, <2>5, Opens
  <2> QED BY <2>2, <2>4, <2>5
<1>2. Init => LInv /\ FreshInv /\ OpensInv
  BY InitLInv, InitFreshInv, InitOpensInv
<1>3. LInv /\ FreshInv /\ OpensInv /\ [Next]_vars => (LInv /\ FreshInv /\ OpensInv)'
  BY LInvStep, FreshInvStep, OpensInvStep
<1> QED BY <1>1, <1>2, <1>3, PTL DEF Spec

-----------------------------------------------------------------------------
(* What a loop holds.                                                      *)

\* The slot archd writes to after slot i.
SlotAfter(i, capacity) == IF i + 1 >= capacity THEN 0 ELSE i + 1

\* The last of the writes is in its slot, the loop has grown behind it if it is not
\* full, and each slot holds the record written as many writes ago as its age says.
Holds(loop, writes, capacity) ==
    LET tip == NewestOf(writes)
    IN  /\ tip \in 0..(Len(loop) - 1) /\ tip <= capacity
        /\ Len(loop) < capacity => tip = Len(loop) - 1
        /\ \A k \in 0..(Len(loop) - 1) : k <= tip \/ k < capacity =>
              /\ Age(k, tip, capacity) < Len(writes)
              /\ loop[k + 1] = writes[Len(writes) - Age(k, tip, capacity)].record

\* The file after a write, slot by slot.
LEMMA StoredAt ==
    ASSUME NEW loop \in Seq(Record), NEW w \in Write, w.index <= Len(loop)
    PROVE  /\ Stored(loop, <<w>>) \in Seq(Record)
           /\ Len(Stored(loop, <<w>>)) = IF w.index = Len(loop) THEN Len(loop) + 1 ELSE Len(loop)
           /\ \A k \in 0..(Len(Stored(loop, <<w>>)) - 1) :
                 Stored(loop, <<w>>)[k + 1] = IF k = w.index THEN w.record ELSE loop[k + 1]
<1>1. PICK n \in Nat, s \in Nat : n = Len(loop) /\ s = w.index /\ s <= n
  BY LenProperties DEF Write
<1>2. PICK m \in Nat : m = (IF s = n THEN n + 1 ELSE n) /\ s + 1 <= m
  <2>1. (IF s = n THEN n + 1 ELSE n) \in Nat
    OBVIOUS
  <2> QED BY <1>1, <2>1
<1>3. Max({n, s + 1}) = m
  BY <1>1, <1>2, MaxOfTwo
<1>4. Stored(loop, <<w>>) = [i \in 1..m |-> IF i = s + 1 THEN w.record ELSE loop[i]]
  BY <1>1, <1>3 DEF Stored
<1>5. <<w>> # <<>> /\ <<w>>[1] = w
  OBVIOUS
<1>6. Stored(loop, <<w>>) \in Seq(Record)
  BY <1>1, <1>5, StoredProperties
<1>7. Len(Stored(loop, <<w>>)) = m
  BY <1>4
<1>8. \A k \in 0..(m - 1) : Stored(loop, <<w>>)[k + 1] = IF k = s THEN w.record ELSE loop[k + 1]
  <2> SUFFICES ASSUME NEW k \in 0..(m - 1)
               PROVE  Stored(loop, <<w>>)[k + 1] = IF k = s THEN w.record ELSE loop[k + 1]
    OBVIOUS
  <2>1. k + 1 \in 1..m /\ (k + 1 = s + 1 <=> k = s)
    BY <1>2
  <2> QED BY <1>4, <2>1
<1> QED BY <1>1, <1>2, <1>6, <1>7, <1>8

\* The next write keeps the loop so: it goes behind the newest record, or over the
\* oldest one when the loop is full.
LEMMA HoldsPut ==
    ASSUME NEW loop \in Seq(Record), NEW writes \in Seq(Write), NEW w \in Write, NEW capacity \in Nat \ {0},
           writes # <<>>, Holds(loop, writes, capacity), NewestOf(writes) < capacity,
           w.index = SlotAfter(NewestOf(writes), capacity)
    PROVE  /\ Holds(Stored(loop, <<w>>), writes \o <<w>>, capacity)
           /\ w.index <= Len(loop) /\ w.index < capacity
           /\ NewestOf(writes \o <<w>>) = w.index
           /\ w.index = Len(loop) <=> Len(loop) < capacity
<1>1. PICK n \in Nat, len \in Nat : n = Len(loop) /\ len = Len(writes)
  BY LenProperties
<1>2. PICK tip \in 0..(n - 1) : tip = NewestOf(writes) /\ tip < capacity
  BY <1>1 DEF Holds
<1>3. n < capacity => tip = n - 1
  BY <1>1, <1>2 DEF Holds
<1>4. \A k \in 0..(n - 1) : k <= tip \/ k < capacity =>
         /\ Age(k, tip, capacity) < len
         /\ loop[k + 1] = writes[len - Age(k, tip, capacity)].record
  BY <1>1, <1>2 DEF Holds
<1>5. PICK s \in Nat : s = w.index /\ s = IF tip + 1 >= capacity THEN 0 ELSE tip + 1
  BY <1>2 DEF SlotAfter, Write
<1>6. s < capacity /\ s <= n /\ (s = n <=> n < capacity)
  BY <1>2, <1>3, <1>5
<1> DEFINE after == Stored(loop, <<w>>)
           all == writes \o <<w>>
<1>7. /\ after \in Seq(Record) /\ Len(after) = IF s = n THEN n + 1 ELSE n
      /\ \A k \in 0..(Len(after) - 1) : after[k + 1] = IF k = s THEN w.record ELSE loop[k + 1]
  BY <1>1, <1>5, <1>6, StoredAt
<1>8. /\ all \in Seq(Write) /\ Len(all) = len + 1 /\ all # <<>> /\ Last(all) = w
      /\ \A i \in 1..len : all[i] = writes[i]
  BY <1>1, AddedLast
<1>9. NewestOf(all) = s /\ all[len + 1] = w
  BY <1>5, <1>8 DEF NewestOf, Last
<1> HIDE DEF after, all
<1>10. PICK m \in Nat : m = Len(after) /\ m = IF s = n THEN n + 1 ELSE n
  BY <1>7, LenProperties
<1>11. s \in 0..(m - 1) /\ s <= capacity /\ (m < capacity => s = m - 1)
  BY <1>6, <1>10
<1>12. ASSUME NEW k \in 0..(m - 1), k <= s \/ k < capacity
       PROVE  Age(k, s, capacity) < len + 1 /\ after[k + 1] = all[len + 1 - Age(k, s, capacity)].record
  <2>1. CASE k = s
    <3>1. Age(k, s, capacity) = 0
      BY <1>5, <2>1 DEF Age
    <3>2. len + 1 - 0 = len + 1 /\ 0 < len + 1
      BY <1>1
    <3>3. after[k + 1] = w.record
      BY <1>7, <1>10, <2>1
    <3> QED BY <1>9, <3>1, <3>2, <3>3
  <2>2. CASE k # s
    <3>1. k \in 0..(n - 1) /\ k < capacity
      BY <1>6, <1>10, <1>12, <2>2
    <3>2. PICK age : age = Age(k, tip, capacity)
      OBVIOUS
    <3>3. age \in Nat /\ Age(k, s, capacity) = age + 1
      <4>1. /\ tip \in Nat /\ s \in Nat /\ k \in Nat /\ capacity \in Nat
            /\ s = (IF tip + 1 >= capacity THEN 0 ELSE tip + 1) /\ tip < capacity /\ k < capacity /\ k # s
        BY <1>2, <1>5, <2>2, <3>1
      <4>2. age = IF k <= tip THEN tip - k ELSE tip + capacity - k
        BY <3>2 DEF Age
      <4>3. age \in Nat /\ (IF k <= s THEN s - k ELSE s + capacity - k) = age + 1
        BY ONLY <4>1, <4>2
      <4> QED BY <4>3 DEF Age
    <3>4. age < len /\ loop[k + 1] = writes[len - age].record
      BY <1>4, <3>1, <3>2
    <3>5. len - age \in 1..len /\ len + 1 - (age + 1) = len - age /\ age + 1 < len + 1
      BY <1>1, <3>3, <3>4
    <3>6. after[k + 1] = loop[k + 1]
      BY <1>7, <1>10, <2>2
    <3> QED BY <1>8, <3>3, <3>4, <3>5, <3>6
  <2> QED BY <2>1, <2>2
<1>13. Holds(after, all, capacity)
  <2>1. \A k \in 0..(Len(after) - 1) : k <= NewestOf(all) \/ k < capacity =>
           /\ Age(k, NewestOf(all), capacity) < Len(all)
           /\ after[k + 1] = all[Len(all) - Age(k, NewestOf(all), capacity)].record
    <3> SUFFICES ASSUME NEW k \in 0..(Len(after) - 1), k <= NewestOf(all) \/ k < capacity
                 PROVE  /\ Age(k, NewestOf(all), capacity) < Len(all)
                        /\ after[k + 1] = all[Len(all) - Age(k, NewestOf(all), capacity)].record
      OBVIOUS
    <3>1. k \in 0..(m - 1) /\ (k <= s \/ k < capacity)
      BY <1>9, <1>10
    <3>2. Age(k, s, capacity) < len + 1 /\ after[k + 1] = all[len + 1 - Age(k, s, capacity)].record
      BY <1>12, <3>1
    <3>3. Len(all) = len + 1 /\ NewestOf(all) = s
      BY <1>8, <1>9
    <3>4. PICK age \in Int, l \in Int : age = Age(k, s, capacity) /\ l = len + 1
      <4>1. Age(k, s, capacity) \in Int /\ len + 1 \in Int
        BY <3>1 DEF Age
      <4> QED BY <4>1
    <3>5. age < l /\ after[k + 1] = all[l - age].record
      BY <3>2, <3>4
    <3>6. Age(k, NewestOf(all), capacity) = age /\ Len(all) = l
      BY <3>3, <3>4
    <3> QED BY <3>5, <3>6
  <2>2. /\ NewestOf(all) \in 0..(Len(after) - 1) /\ NewestOf(all) <= capacity
        /\ Len(after) < capacity => NewestOf(all) = Len(after) - 1
    BY <1>9, <1>10, <1>11
  <2> QED BY <2>1, <2>2 DEF Holds
<1> QED BY <1>1, <1>5, <1>6, <1>9, <1>13 DEF after, all

\* The writes that have reached the record file.
Reached == IF pending = <<>> THEN accepted ELSE Front(accepted)

\* Unless something has misled archd: the file holds the writes that reached it, the
\* stream holds the next one, and an open loop's context is at the last.
LatestInv ==
    misled = {} /\ accepted # <<>> =>
        /\ Holds(buf, Reached, idx[1].max)
        /\ pending # <<>> =>
            /\ NewestOf(Reached) < idx[1].max
            /\ pending[1].index = SlotAfter(NewestOf(Reached), idx[1].max)
        /\ context # Null =>
            /\ context.index = NewestOf(accepted) /\ context.last = Last(accepted).record
            /\ context.size = Min({Len(Stored(buf, pending)), context.capacity})

\* The records WriteChan is given have the length of records; and in a loop of records
\* with samples, unless archd was misled, each one accepted starts after the one before.
OrderInv ==
    /\ kind \in {"data", "log"}
    /\ writing # NoRecord => writing.end = writing.start + Span
    /\ misled = {} /\ kind = "data" =>
        /\ \A i, j \in 1..Len(accepted) : i < j => accepted[i].record.start < accepted[j].record.start
        /\ \A i \in 1..Len(accepted) : accepted[i].record.end = accepted[i].record.start + Span

LEMMA MinOfTwo ==
    ASSUME NEW a \in Int, NEW b \in Int
    PROVE  Min({a, b}) = IF a <= b THEN a ELSE b
<1> DEFINE m == IF a <= b THEN a ELSE b
<1>1. m \in {a, b} /\ \A y \in {a, b} : m <= y
  OBVIOUS
<1>2. \A x \in {a, b} : (\A y \in {a, b} : x <= y) => x = m
  OBVIOUS
<1> QED BY <1>1, <1>2 DEF Min

\* The newest record of a loop is in its slot.
LEMMA NewestHeld ==
    ASSUME NEW loop \in Seq(Record), NEW writes \in Seq(Write), NEW capacity \in Nat,
           Holds(loop, writes, capacity)
    PROVE  /\ writes # <<>> /\ NewestOf(writes) \in Nat /\ NewestOf(writes) < Len(loop)
           /\ loop[NewestOf(writes) + 1] = Last(writes).record
<1>1. PICK n \in Nat, len \in Nat : n = Len(loop) /\ len = Len(writes)
  BY LenProperties
<1>2. PICK tip \in 0..(n - 1) : tip = NewestOf(writes)
  BY <1>1 DEF Holds
<1>3. tip # -1
  OBVIOUS
<1>4. writes # <<>>
  BY <1>2, <1>3 DEF NewestOf
<1>5. Age(tip, tip, capacity) = 0 /\ tip <= tip
  BY <1>1 DEF Age
<1>6. loop[tip + 1] = writes[len - 0].record
  BY <1>1, <1>2, <1>5 DEF Holds
<1>7. len - 0 = len
  OBVIOUS
<1> QED BY <1>1, <1>2, <1>4, <1>6, <1>7 DEF Last

\* The writes that reached the file, and the one that has not.
LEMMA ReachedAndPending ==
    ASSUME LInv, FreshInv, OpensInv
    PROVE  /\ Reached \in Seq(Write)
           /\ accepted # <<>> => Reached # <<>> /\ idx[1].max \in Nat \ {0} /\ buf \in Seq(Record)
           /\ pending = <<>> => Reached = accepted
           /\ pending # <<>> => /\ pending = <<Last(accepted)>> /\ Last(accepted) \in Write
                                /\ accepted # <<>> /\ accepted = Reached \o <<Last(accepted)>>
<1>1. accepted \in Seq(Write)
  BY DEF FreshInv
<1>2. CASE accepted = <<>>
  <2>1. pending = <<>>
    <3> SUFFICES ASSUME pending # <<>> PROVE FALSE
      OBVIOUS
    <3>1. Len(accepted) > 1 /\ Len(accepted) = 0
      BY <1>2 DEF OpensInv
    <3> QED BY <3>1
  <2> QED BY <1>1, <1>2, <2>1 DEF Reached
<1>3. CASE accepted # <<>>
  <2>1. idx # NoFile /\ Len(idx) = 3 /\ buf # NoFile
    BY <1>3 DEF OpensInv
  <2>2. idx \in Seq(IndexLine) /\ buf \in Seq(Record)
    BY <2>1 DEF LInv, FilesInv
  <2>3. idx[1].max \in Nat \ {0}
    BY <2>1, <2>2, ThreeLines DEF IndexLine
  <2>4. CASE pending = <<>>
    BY <1>1, <1>3, <2>2, <2>3, <2>4 DEF Reached
  <2>5. CASE pending # <<>>
    <3>1. pending = <<Last(accepted)>> /\ Len(accepted) > 1
      BY <2>5 DEF OpensInv
    <3>2. /\ Last(accepted) \in Write /\ Front(accepted) \in Seq(Write)
          /\ Len(Front(accepted)) = Len(accepted) - 1
          /\ accepted = Front(accepted) \o <<Last(accepted)>>
      BY <1>1, <1>3, FrontAndLast
    <3>3. Front(accepted) # <<>>
      <4>1. Len(Front(accepted)) # 0
        BY <1>1, <3>1, <3>2, LenProperties
      <4> QED BY <4>1
    <3> QED BY <1>3, <2>2, <2>3, <2>5, <3>1, <3>2, <3>3 DEF Reached
  <2> QED BY <2>4, <2>5
<1> QED BY <1>2, <1>3

\* Once the stream is written out the file holds every write accepted.
LEMMA FlushedHolds ==
    ASSUME LInv, FreshInv, OpensInv, LatestInv, misled = {}, accepted # <<>>
    PROVE  Holds(Stored(buf, pending), accepted, idx[1].max)
<1>1. CASE pending = <<>>
  BY <1>1, StoredNothing DEF LatestInv, Reached
<1>2. CASE pending # <<>>
  <2>1. PICK w \in Write, writes \in Seq(Write), max \in Nat \ {0}, loop \in Seq(Record) :
           /\ pending = <<w>> /\ accepted = writes \o <<w>> /\ writes = Reached /\ writes # <<>>
           /\ max = idx[1].max /\ loop = buf
    BY <1>2, ReachedAndPending
  <2>2. /\ Holds(loop, writes, max) /\ NewestOf(writes) < max
        /\ w.index = SlotAfter(NewestOf(writes), max)
    <3>1. pending[1] = w
      BY <2>1
    <3> QED BY <1>2, <2>1, <3>1 DEF LatestInv
  <2>3. Holds(Stored(loop, <<w>>), writes \o <<w>>, max)
    BY <2>1, <2>2, HoldsPut
  <2> QED BY <2>1, <2>3
<1> QED BY <1>1, <1>2

\* In a full loop of records accepted in order, the older starts before the younger.
LEMMA OlderStartsEarlier ==
    ASSUME NEW loop \in Seq(Record), NEW writes \in Seq(Write), Len(loop) \in Nat \ {0},
           Holds(loop, writes, Len(loop)),
           \A i, j \in 1..Len(writes) : i < j => writes[i].record.start < writes[j].record.start
    PROVE  \A j, k \in 0..(Len(loop) - 1) :
              Age(j, NewestOf(writes), Len(loop)) < Age(k, NewestOf(writes), Len(loop))
                => loop[k + 1].start < loop[j + 1].start
<1>1. PICK n \in Nat, len \in Nat : n = Len(loop) /\ len = Len(writes)
  BY LenProperties
<1>2. PICK tip \in 0..(n - 1) : tip = NewestOf(writes)
  BY <1>1 DEF Holds
<1>3. ASSUME NEW k \in 0..(n - 1)
      PROVE  /\ Age(k, tip, n) \in Nat /\ Age(k, tip, n) < len
             /\ loop[k + 1] = writes[len - Age(k, tip, n)].record
  <2>1. k < n /\ Age(k, tip, n) \in Nat
    BY DEF Age
  <2> QED BY <1>1, <1>2, <2>1 DEF Holds
<1>4. ASSUME NEW j \in 0..(n - 1), NEW k \in 0..(n - 1), Age(j, tip, n) < Age(k, tip, n)
      PROVE  loop[k + 1].start < loop[j + 1].start
  <2>1. PICK a \in Nat, b \in Nat : a = Age(j, tip, n) /\ b = Age(k, tip, n)
    BY <1>3
  <2>2. a < b /\ b < len /\ loop[j + 1] = writes[len - a].record /\ loop[k + 1] = writes[len - b].record
    BY <1>3, <1>4, <2>1
  <2>3. len - a \in 1..len /\ len - b \in 1..len /\ len - b < len - a
    <3>1. a \in Nat /\ b \in Nat /\ len \in Nat /\ a < b /\ b < len
      BY <2>2
    <3> QED BY ONLY <3>1
  <2>4. writes[len - b].record.start < writes[len - a].record.start
    BY <1>1, <2>3
  <2> QED BY <2>2, <2>4
<1> QED BY <1>1, <1>2, <1>4

\* adl_open finds the place of the last record accepted, unless it is misled: in a loop
\* that is not full that is the end of the file, in a full one what the index says, if
\* it is not stale, or what the search finds.
LEMMA FoundNewest ==
    ASSUME LInv, FreshInv, OpensInv, LatestInv, OrderInv, NEW newer \in BOOLEAN,
           pending = <<>>, misled = {}, accepted # <<>>, idx[1].flip < idx[1].max,
           Misleads(buf, idx, newer) = {}
    PROVE  IndexFound(buf, idx[1], newer) = NewestOf(accepted)
<1>1. accepted \in Seq(Write) /\ buf \in Seq(Record) /\ Reached = accepted
  BY ReachedAndPending DEF FreshInv
<1>2. PICK max \in Nat \ {0} : max = idx[1].max
  BY ReachedAndPending
<1>3. PICK n \in Nat : n = Len(buf)
  BY <1>1, LenProperties
<1>4. Holds(buf, accepted, max)
  BY <1>1, <1>2 DEF LatestInv
<1>5. PICK tip \in 0..(n - 1) : tip = NewestOf(accepted) /\ (n < max => tip = n - 1)
  BY <1>3, <1>4 DEF Holds
<1>6. PICK flip \in Nat : flip = idx[1].flip /\ flip < n
  <2>1. idx # NoFile /\ Len(idx) = 3 /\ 0 <= idx[1].flip
    BY DEF OpensInv
  <2>2. idx \in Seq(IndexLine) /\ idx[1].flip < Len(buf)
    BY <2>1 DEF LInv, FilesInv
  <2>3. idx[1].flip \in Int
    BY <2>1, <2>2, ThreeLines
  <2> QED BY <1>3, <2>1, <2>2, <2>3
<1>7. ParseIndexInfo(idx) = idx[1]
  BY FirstLineCounts DEF OpensInv
<1>8. IsNewest(flip) => flip = tip
  BY <1>5 DEF IsNewest, NewestOf
<1>9. CASE n < max
  BY <1>2, <1>3, <1>5, <1>9 DEF IndexFound
<1>10. CASE n >= max /\ ~(newer /\ n = max)
  <2>1. flip = tip
    <3>1. "stale" \notin Misleads(buf, idx, newer)
      OBVIOUS
    <3>2. IsNewest(flip)
      BY <1>2, <1>3, <1>6, <1>7, <1>10, <3>1 DEF Misleads
    <3> QED BY <1>8, <3>2
  <2>2. CASE ~newer
    BY <1>2, <1>3, <1>5, <1>6, <1>10, <2>1, <2>2 DEF IndexFound
  <2>3. CASE newer
    <3>1. n > max /\ n - 1 # 0 /\ n - 1 >= max
      BY <1>10, <2>3
    <3>2. adl_newest_index(buf, max, flip) = flip
      <4>1. buf # <<>>
        BY DEF OpensInv
      <4> QED BY <1>3, <3>1, <4>1 DEF adl_newest_index, Locate
    <3> QED BY <1>2, <1>3, <1>5, <1>6, <1>10, <2>1, <2>3, <3>2 DEF IndexFound
  <2> QED BY <2>2, <2>3
<1>11. CASE newer /\ n = max
  <2>1. kind = "data" /\ max # 2
    <3>1. "unordered" \notin Misleads(buf, idx, newer) /\ "twoRecords" \notin Misleads(buf, idx, newer)
      OBVIOUS
    <3>2. Len(buf) >= max /\ newer /\ Len(buf) = max
      BY <1>3, <1>11
    <3>3. kind # "log" /\ max # 2
      BY <1>2, <1>7, <3>1, <3>2 DEF Misleads
    <3> QED BY <3>3 DEF OrderInv
  <2>2. IndexFound(buf, idx[1], newer) = adl_newest_index(buf, max, flip)
    BY <1>2, <1>3, <1>6, <1>11 DEF IndexFound
  <2>3. CASE max = 1
    <3>1. buf # <<>> /\ Len(buf) - 1 = 0
      BY <1>3, <1>11, <2>3 DEF OpensInv
    <3>2. adl_newest_index(buf, max, flip) = 0
      BY <3>1 DEF adl_newest_index, Locate
    <3>3. tip = 0
      BY <1>11, <2>3
    <3> QED BY <1>5, <2>2, <3>2, <3>3
  <2>4. CASE max > 2
    <3>1. \A i, j \in 1..Len(accepted) : i < j => accepted[i].record.start < accepted[j].record.start
      BY <2>1 DEF OrderInv
    <3>2. Holds(buf, accepted, Len(buf)) /\ Len(buf) \in Nat \ {0}
      BY <1>3, <1>4, <1>11
    <3>3. \A j, k \in 0..(Len(buf) - 1) :
             Age(j, NewestOf(accepted), Len(buf)) < Age(k, NewestOf(accepted), Len(buf))
               => buf[k + 1].start < buf[j + 1].start
      BY <1>1, <3>1, <3>2, OlderStartsEarlier
    <3>4. \A j, k \in 0..(Len(buf) - 1) :
             Age(j, tip, Len(buf)) < Age(k, tip, Len(buf)) => buf[k + 1].start < buf[j + 1].start
      BY <1>5, <3>3
    <3>5. adl_newest_index(buf, Len(buf), flip) = tip
      <4>1. Len(buf) > 2 /\ tip \in 0..(Len(buf) - 1)
        BY <1>3, <1>11, <2>4
      <4> QED BY <1>1, <3>4, <4>1, SearchFindsNewest
    <3> QED BY <1>3, <1>5, <1>11, <2>2, <3>5
  <2> QED BY <2>1, <2>3, <2>4
<1> QED BY <1>9, <1>10, <1>11

\* Less a prefix of the loop, or with another capacity that leaves the newest record
\* the last slot or the end of the file, the loop holds what it held.
LEMMA HoldsResized ==
    ASSUME NEW loop \in Seq(Record), NEW writes \in Seq(Write), NEW old \in Nat \ {0}, NEW new \in Nat \ {0},
           NEW cut \in Seq(Record), Holds(loop, writes, old), NewestOf(writes) <= new,
           \/ cut = loop /\ \/ Len(loop) < old /\ Len(loop) <= new
                            \/ NewestOf(writes) = new - 1
           \/ /\ Len(cut) = NewestOf(writes) + 1
              /\ \A i \in 1..(NewestOf(writes) + 1) : cut[i] = loop[i]
    PROVE  Holds(cut, writes, new)
<1>1. PICK n \in Nat, m \in Nat, len \in Nat : n = Len(loop) /\ m = Len(cut) /\ len = Len(writes)
  BY LenProperties
<1>2. PICK tip \in 0..(n - 1) : tip = NewestOf(writes) /\ tip <= new /\ (n < old => tip = n - 1)
  BY <1>1 DEF Holds
<1>3. ASSUME NEW k \in 0..(n - 1), k <= tip
      PROVE  tip - k < len /\ loop[k + 1] = writes[len - (tip - k)].record
  <2>1. Age(k, tip, old) = tip - k
    BY <1>3 DEF Age
  <2> QED BY <1>1, <1>2, <1>3, <2>1 DEF Holds
<1>4. tip \in 0..(m - 1) /\ tip < n
  BY <1>1, <1>2
<1>5. m < new => tip = m - 1
  BY <1>1, <1>2
<1>6. ASSUME NEW k \in 0..(m - 1), k <= tip \/ k < new
      PROVE  k <= tip /\ cut[k + 1] = loop[k + 1]
  <2>1. CASE cut = loop /\ Len(loop) < old
    BY <1>1, <1>2, <2>1
  <2>2. CASE cut = loop /\ NewestOf(writes) = new - 1
    BY <1>2, <1>6, <2>2
  <2>3. CASE /\ Len(cut) = NewestOf(writes) + 1
             /\ \A i \in 1..(NewestOf(writes) + 1) : cut[i] = loop[i]
    <3>1. m = tip + 1 /\ \A i \in 1..(tip + 1) : cut[i] = loop[i]
      BY <1>1, <1>2, <2>3
    <3> QED BY <3>1
  <2> QED BY <2>1, <2>2, <2>3
<1>7. ASSUME NEW k \in 0..(m - 1), k <= tip \/ k < new
      PROVE  Age(k, tip, new) < len /\ cut[k + 1] = writes[len - Age(k, tip, new)].record
  <2>1. k <= tip /\ cut[k + 1] = loop[k + 1] /\ k \in 0..(n - 1)
    BY <1>4, <1>6, <1>7
  <2>2. Age(k, tip, new) = tip - k
    BY <2>1 DEF Age
  <2> QED BY <1>3, <2>1, <2>2
<1>8. NewestOf(writes) = tip /\ Len(cut) = m /\ Len(writes) = len
  BY <1>1, <1>2
<1>9. \A k \in 0..(m - 1) : k <= tip \/ k < new =>
         /\ Age(k, tip, new) < len
         /\ cut[k + 1] = writes[len - Age(k, tip, new)].record
  BY <1>7
<1>10. tip <= new
  BY <1>2
<1> QED BY <1>4, <1>5, <1>8, <1>9, <1>10 DEF Holds

\* A context after fwrite counts one record more until the loop is full.
LEMMA SizeAfterWrite ==
    ASSUME NEW n \in Nat, NEW capacity \in Nat \ {0}, NEW s \in Nat, context \in Context,
           context.capacity = capacity, context.size = Min({n, capacity}),
           NewIndex = s, s = n <=> n < capacity
    PROVE  Appended(writing).size = Min({IF s = n THEN n + 1 ELSE n, capacity})
<1>1. Appended(writing).size = IF context.size < capacity /\ context.size = s THEN context.size + 1 ELSE context.size
  BY DEF Appended, Context
<1>2. context.size = IF n <= capacity THEN n ELSE capacity
  BY MinOfTwo
<1>3. PICK m \in Nat : m = IF s = n THEN n + 1 ELSE n
  <2>1. (IF s = n THEN n + 1 ELSE n) \in Nat
    OBVIOUS
  <2> QED BY <2>1
<1>4. Min({m, capacity}) = IF m <= capacity THEN m ELSE capacity
  BY MinOfTwo
<1>5. s = n <=> n < capacity
  OBVIOUS
<1>6. (IF context.size < capacity /\ context.size = s THEN context.size + 1 ELSE context.size)
        = IF m <= capacity THEN m ELSE capacity
  <2>1. n \in Nat /\ capacity \in Nat /\ s \in Nat /\ m \in Nat
    OBVIOUS
  <2> QED BY ONLY <1>2, <1>3, <1>5, <2>1
<1> QED BY <1>1, <1>3, <1>4, <1>6

LEMMA MisledGrows == [Next]_vars => misled \subseteq misled'
<1> SUFFICES ASSUME [Next]_vars PROVE misled \subseteq misled'
  OBVIOUS
<1>1. CASE UNCHANGED vars
  BY <1>1 DEF vars
<1>2. ASSUME NEW r, NEW size, NEW newer, OpenFiles(r, size, newer) PROVE misled \subseteq misled'
  BY <1>2 DEF OpenFiles
<1>3. ASSUME NEW config, NEW truncate, Resize(config, truncate) PROVE misled \subseteq misled'
  BY <1>3 DEF Resize
<1>4. ASSUME NEW r, OpenCached(r) PROVE misled \subseteq misled'
  BY <1>4 DEF OpenCached
<1>5. ASSUME NEW due, AdlWrite(due) PROVE misled \subseteq misled'
  BY <1>5 DEF AdlWrite
<1>6. ASSUME NEW lines, KillWritingIndex(lines) PROVE misled \subseteq misled'
  BY <1>6 DEF KillWritingIndex
<1>7. ASSUME NEW made, KillMakingBuffer(made) PROVE misled \subseteq misled'
  BY <1>7 DEF KillMakingBuffer
<1>8. CASE SkipOverlap \/ SeekNext \/ WriteFails \/ WriteAllIndices \/ CloseAll \/ Kill
  BY <1>8 DEF SkipOverlap, SeekNext, WriteFails, WriteAllIndices, CloseAll, Kill
<1> QED BY <1>1, <1>2, <1>3, <1>4, <1>5, <1>6, <1>7, <1>8 DEF Next, WriteChan

LEMMA InitLatestInv == Init => LatestInv /\ OrderInv
<1> SUFFICES ASSUME Init PROVE LatestInv /\ OrderInv
  OBVIOUS
<1>1. context = Null /\ pending = <<>> /\ writing = NoRecord /\ kind \in {"data", "log"}
  BY DEF Init
<1>2. CASE accepted = <<>>
  BY <1>1, <1>2 DEF LatestInv, OrderInv
<1>3. ASSUME NEW size \in Sizes, buf = <<RecordAt(1)>>, idx = Lines(0, size),
             accepted = <<[index |-> 0, record |-> RecordAt(1)]>>
      PROVE  LatestInv /\ OrderInv
  <2>1. RecordAt(1) \in Record /\ RecordAt(1).end = RecordAt(1).start + Span
    BY TimeAssumption, SpanAssumption DEF RecordAt, Record
  <2>2. buf \in Seq(Record) /\ Len(buf) = 1 /\ buf[1] = RecordAt(1)
    BY <1>3, <2>1
  <2>3. /\ accepted \in Seq(Write) /\ Len(accepted) = 1 /\ accepted # <<>>
        /\ accepted[1].index = 0 /\ accepted[1].record = RecordAt(1)
    BY <1>3, <2>1 DEF Write
  <2>4. size \in Nat \ {0} /\ idx[1].max = size
    BY <1>3, SizesAssumption, LinesAgree
  <2>5. NewestOf(accepted) = 0
    BY <2>3 DEF NewestOf, Last
  <2>6. Holds(buf, accepted, size)
    <3>1. ASSUME NEW k \in 0..(Len(buf) - 1)
          PROVE  Age(k, 0, size) < Len(accepted) /\ buf[k + 1] = accepted[Len(accepted) - Age(k, 0, size)].record
      <4>1. k = 0 /\ Age(k, 0, size) = 0
        BY <2>2, <2>4 DEF Age
      <4> QED BY <2>2, <2>3, <4>1
    <3> QED BY <2>2, <2>3, <2>4, <2>5, <3>1 DEF Holds
  <2>7. LatestInv
    BY <1>1, <2>4, <2>6 DEF LatestInv, Reached
  <2>8. OrderInv
    BY <1>1, <2>1, <2>3 DEF OrderInv
  <2> QED BY <2>7, <2>8
<1> QED BY <1>2, <1>3 DEF Init

\* adl_write keeps the loop as it should be.
LEMMA WriteKeepsLatest ==
    ASSUME LInv, FreshInv, OpensInv, LatestInv, misled = {},
           NEW due \in {"none", "flush", "index"}, AdlWrite(due)
    PROVE  /\ Holds(buf', Reached', idx'[1].max)
           /\ pending' # <<>> =>
               /\ NewestOf(Reached') < idx'[1].max
               /\ pending'[1].index = SlotAfter(NewestOf(Reached'), idx'[1].max)
           /\ context'.index = NewestOf(accepted') /\ context'.last = Last(accepted').record
           /\ context'.size = Min({Len(Stored(buf', pending')), context'.capacity})
<1>1. PICK w \in Write :
         /\ writing \in Record /\ w.index = NewIndex /\ w.record = writing
         /\ NewIndex \in Nat /\ NewIndex < idx[1].max
         /\ accepted # <<>> /\ accepted \in Seq(Write) /\ accepted' = accepted \o <<w>>
         /\ buf \in Seq(Record) /\ pending = <<>>
         /\ due = "none" => buf' = buf /\ pending' = <<w>> /\ idx' = idx
         /\ due # "none" => buf' = Stored(buf, <<w>>) /\ pending' = <<>>
         /\ due = "flush" => idx' = idx
         /\ due = "index" => idx' = Lines(NewIndex, idx[1].max)
         /\ context \in Context /\ context # Null
         /\ context'.index = NewIndex /\ context'.capacity = idx[1].max
         /\ context'.last = writing /\ context'.size = Appended(writing).size
  BY WrittenRecord
<1>2. PICK max \in Nat \ {0} : max = idx[1].max /\ context.capacity = max
  <2>1. idx[1].max \in Nat \ {0}
    BY <1>1, ReachedAndPending
  <2> QED BY <1>1, <2>1 DEF OpensInv
<1>3. Holds(buf, accepted, max) /\ Reached = accepted
  BY <1>1, <1>2 DEF LatestInv, Reached
<1>4. /\ context.index = NewestOf(accepted) /\ NewestOf(accepted) < max
      /\ context.size = Min({Len(buf), max})
  <2>1. Stored(buf, pending) = buf
    BY <1>1, StoredNothing
  <2> QED BY <1>1, <1>2, <2>1 DEF LatestInv, OpensInv
<1>5. w.index = SlotAfter(NewestOf(accepted), max)
  BY <1>1, <1>2, <1>4 DEF NewIndex, SlotAfter
<1>6. /\ Holds(Stored(buf, <<w>>), accepted \o <<w>>, max)
      /\ w.index <= Len(buf)
      /\ NewestOf(accepted \o <<w>>) = w.index
      /\ w.index = Len(buf) <=> Len(buf) < max
  BY <1>1, <1>3, <1>4, <1>5, HoldsPut
<1>7. idx'[1].max = max
  <2>1. CASE due = "index"
    BY <1>1, <1>2, <2>1, LinesAgree
  <2>2. CASE due # "index"
    BY <1>1, <1>2, <2>2
  <2> QED BY <2>1, <2>2
<1>8. Last(accepted') = w /\ Front(accepted') = accepted /\ accepted' # <<>>
  BY <1>1, AddedLast
<1>9. context'.size = Min({Len(Stored(buf, <<w>>)), max})
  <2>1. PICK n \in Nat : n = Len(buf)
    BY <1>1, LenProperties
  <2>2. Len(Stored(buf, <<w>>)) = IF w.index = n THEN n + 1 ELSE n
    BY <1>1, <1>6, <2>1, StoredAt
  <2>3. PICK s \in Nat : s = NewIndex
    BY <1>1
  <2>4. s = n <=> n < max
    BY <1>1, <1>6, <2>1, <2>3
  <2>5. Appended(writing).size = Min({IF s = n THEN n + 1 ELSE n, max})
    BY <1>1, <1>2, <1>4, <2>1, <2>3, <2>4, SizeAfterWrite
  <2> QED BY <1>1, <2>2, <2>3, <2>5
<1>10. CASE due = "none"
  <2>1. buf' = buf /\ pending' = <<w>> /\ pending' # <<>> /\ pending'[1] = w
    <3>1. buf' = buf /\ pending' = <<w>>
      BY <1>1, <1>10
    <3> QED BY <3>1
  <2>2. Reached' = accepted
    BY <1>8, <2>1 DEF Reached
  <2> QED BY <1>1, <1>2, <1>3, <1>4, <1>5, <1>6, <1>7, <1>8, <1>9, <2>1, <2>2
<1>11. CASE due # "none"
  <2>1. buf' = Stored(buf, <<w>>) /\ pending' = <<>>
    BY <1>1, <1>11
  <2>2. Reached' = accepted' /\ Stored(buf', pending') = buf'
    BY <2>1, StoredNothing DEF Reached
  <2> QED BY <1>1, <1>2, <1>6, <1>7, <1>8, <1>9, <2>1, <2>2
<1> QED BY <1>10, <1>11

LEMMA LatestInvStep ==
    LInv /\ FreshInv /\ OpensInv /\ LatestInv /\ OrderInv /\ [Next]_vars => LatestInv'
<1> SUFFICES ASSUME LInv, FreshInv, OpensInv, LatestInv, OrderInv, [Next]_vars, misled' = {}, accepted' # <<>>
             PROVE  /\ Holds(buf', Reached', idx'[1].max)
                    /\ pending' # <<>> =>
                        /\ NewestOf(Reached') < idx'[1].max
                        /\ pending'[1].index = SlotAfter(NewestOf(Reached'), idx'[1].max)
                    /\ context' # Null =>
                        /\ context'.index = NewestOf(accepted') /\ context'.last = Last(accepted').record
                        /\ context'.size = Min({Len(Stored(buf', pending')), context'.capacity})
  BY DEF LatestInv
<1> DEFINE Kept == /\ Holds(buf', Reached', idx'[1].max)
                   /\ pending' # <<>> =>
                        /\ NewestOf(Reached') < idx'[1].max
                        /\ pending'[1].index = SlotAfter(NewestOf(Reached'), idx'[1].max)
                   /\ context' # Null =>
                        /\ context'.index = NewestOf(accepted') /\ context'.last = Last(accepted').record
                        /\ context'.size = Min({Len(Stored(buf', pending')), context'.capacity})
<1>0. misled = {} /\ accepted \in Seq(Write) /\ StreamInv
  BY MisledGrows DEF FreshInv, LInv
<1>1. ASSUME UNCHANGED <<buf, idx, context, pending, accepted>> PROVE Kept
  BY <1>0, <1>1 DEF LatestInv, Reached
<1>2. ASSUME NEW r \in Record, NEW size \in Sizes, NEW newer \in BOOLEAN, OpenFiles(r, size, newer)
      PROVE  Kept
  <2>1. context = Null /\ pending = <<>> /\ UNCHANGED <<pending, accepted>>
    BY <1>0, <1>2 DEF OpenFiles, StreamInv
  <2>2. Reached' = accepted /\ Reached = accepted
    BY <2>1 DEF Reached
  <2>3. CASE context' = Null
    <3>1. buf' = buf /\ idx' = idx
      BY <1>2, <2>1 DEF OpenFiles, OpensInv
    <3> QED BY <1>0, <2>1, <2>2, <2>3, <3>1 DEF LatestInv
  <2>4. CASE context' # Null
    <3>1. /\ accepted # <<>> /\ buf' = buf /\ idx' = idx /\ buf \in Seq(Record) /\ idx \in Seq(IndexLine)
          /\ context' = ContextFor(buf, idx, newer) /\ idx[1].flip < idx[1].max
          /\ misled' = misled \cup Misleads(buf, idx, newer)
      BY <1>2, <2>4, OpenedLoop
    <3>2. Misleads(buf, idx, newer) = {}
      BY <3>1
    <3>3. IndexFound(buf, idx[1], newer) = NewestOf(accepted)
      BY <1>0, <2>1, <3>1, <3>2, FoundNewest
    <3>4. /\ buf # <<>> /\ Len(idx) = 3 /\ 0 <= idx[1].flip /\ idx # NoFile
          /\ \A k \in 1..3 : idx[k].max = idx[1].max
      BY <3>1 DEF OpensInv
    <3>5. idx[1].flip < Len(buf)
      BY <3>4 DEF LInv, FilesInv
    <3>6. /\ context'.capacity = idx[1].max /\ context'.index = IndexFound(buf, idx[1], newer)
          /\ context'.size = SizeFound(buf, idx[1])
          /\ context'.last = buf[IndexFound(buf, idx[1], newer) + 1]
      BY <3>1, <3>4, <3>5, Opens
    <3>7. PICK max \in Nat \ {0}, n \in Nat : max = idx[1].max /\ n = Len(buf)
      BY <3>1, ReachedAndPending, LenProperties
    <3>8. Holds(buf, accepted, max)
      BY <1>0, <2>2, <3>1, <3>7 DEF LatestInv
    <3>9. context'.last = Last(accepted).record
      BY <1>0, <3>1, <3>3, <3>6, <3>7, <3>8, NewestHeld
    <3>10. SizeFound(buf, idx[1]) = Min({n, max})
      BY <3>7, MinOfTwo DEF SizeFound
    <3>11. Stored(buf', pending') = buf
      BY <2>1, <3>1, StoredNothing
    <3> QED BY <2>1, <2>2, <3>1, <3>3, <3>6, <3>7, <3>8, <3>9, <3>10, <3>11
  <2> QED BY <2>3, <2>4
<1>3. CASE SkipOverlap \/ WriteFails
  <2>1. UNCHANGED <<buf, idx, context, pending, accepted>>
    BY <1>3 DEF SkipOverlap, WriteFails
  <2> QED BY <1>1, <2>1
<1>4. CASE SeekNext
  <2>1. context # Null /\ buf' = Stored(buf, pending) /\ pending' = <<>> /\ UNCHANGED <<idx, context, accepted>>
    BY <1>0, <1>4 DEF SeekNext, StreamInv
  <2>2. accepted # <<>> /\ Holds(buf', accepted, idx[1].max)
    BY <1>0, <2>1, FlushedHolds
  <2>3. Reached' = accepted /\ Stored(buf', pending') = Stored(buf, pending)
    BY <2>1, StoredNothing DEF Reached
  <2> QED BY <1>0, <2>1, <2>2, <2>3 DEF LatestInv
<1>5. ASSUME NEW due \in {"none", "flush", "index"}, AdlWrite(due) PROVE Kept
  BY <1>0, <1>5, WriteKeepsLatest
<1>6. CASE WriteAllIndices \/ CloseAll
  <2>1. /\ context # Null /\ buf' = Stored(buf, pending) /\ pending' = <<>>
        /\ idx' \in {idx, Lines(context.index, context.capacity)}
        /\ \/ context' = Null
           \/ context' = [context EXCEPT !.has_written = FALSE, !.stamped = TRUE]
        /\ UNCHANGED accepted
    BY <1>6 DEF WriteAllIndices, CloseAll
  <2>2. accepted # <<>> /\ Holds(buf', accepted, idx[1].max)
    BY <1>0, <2>1, FlushedHolds
  <2>3. Reached' = accepted /\ Stored(buf', pending') = Stored(buf, pending)
    BY <2>1, StoredNothing DEF Reached
  <2>4. context' # Null => /\ context'.index = context.index /\ context'.capacity = context.capacity
                           /\ context'.size = context.size /\ context'.last = context.last
    BY <2>1 DEF LInv, ContextInv, Context
  <2>5. idx'[1].max = idx[1].max
    BY <2>1, WrittenLinesOpen
  <2> QED BY <1>0, <2>1, <2>2, <2>3, <2>4, <2>5 DEF LatestInv
<1>7. CASE Kill
  <2>1. /\ context # Null /\ context' = Null /\ pending' = <<>> /\ UNCHANGED <<buf, idx>>
        /\ accepted' = Reached
    BY <1>7 DEF Kill, Reached
  <2>2. accepted # <<>>
    BY <2>1 DEF OpensInv
  <2>3. Reached' = Reached
    BY <2>1 DEF Reached
  <2> QED BY <1>0, <2>1, <2>2, <2>3 DEF LatestInv
<1>8. ASSUME NEW lines \in 0..2, KillWritingIndex(lines) PROVE Kept
  <2>1. /\ context # Null /\ buf' = Stored(buf, pending) /\ pending' = <<>>
        /\ idx' = [k \in 1..3 |-> IF k <= lines THEN Lines(context.index, context.capacity)[k] ELSE idx[k]]
        /\ context' = Null /\ UNCHANGED accepted
    BY <1>8 DEF KillWritingIndex
  <2>2. accepted # <<>> /\ Holds(buf', accepted, idx[1].max)
    BY <1>0, <2>1, FlushedHolds
  <2>3. Reached' = accepted
    BY <2>1 DEF Reached
  <2>4. idx'[1].max = idx[1].max
    <3>1. Lines(context.index, context.capacity)[1].max = idx[1].max
      BY <2>1, WrittenLinesOpen
    <3> QED BY <2>1, <3>1
  <2> QED BY <2>1, <2>2, <2>3, <2>4
<1>9. ASSUME NEW made \in BOOLEAN, KillMakingBuffer(made) PROVE Kept
  <2>1. (buf = NoFile \/ idx = NoFile) /\ accepted' = accepted
    BY <1>9 DEF KillMakingBuffer
  <2> QED BY <2>1 DEF OpensInv
<1>10. ASSUME NEW config \in Sizes, NEW truncate \in BOOLEAN, Resize(config, truncate) PROVE Kept
  <2> DEFINE line == ParseIndexInfo(idx)
  <2>1. /\ context = Null /\ UNCHANGED <<context, pending, accepted>>
        /\ \/ JustTheIndex(line, config) /\ idx' = Lines(line.flip, config) /\ buf' = buf
           \/ idx' = Lines(line.flip, TruncatedSize(line, config)) /\ buf' = SubSeq(buf, 1, line.flip + 1)
        /\ misled' = IF IsNewest(line.flip) THEN misled ELSE misled \cup {"stale"}
    BY <1>10 DEF Resize
  <2>2. line.flip = NewestOf(accepted) /\ accepted # <<>>
    BY <2>1 DEF IsNewest, NewestOf
  <2>3. line = idx[1]
    BY <2>2, FirstLineCounts DEF OpensInv
  <2>4. PICK old \in Nat \ {0}, n \in Nat :
           /\ old = idx[1].max /\ n = Len(buf) /\ buf \in Seq(Record)
    BY <2>2, ReachedAndPending, LenProperties
  <2>5. pending = <<>> /\ Reached = accepted /\ Reached' = accepted
    BY <1>0, <2>1 DEF StreamInv, Reached
  <2>6. Holds(buf, accepted, old)
    BY <1>0, <2>2, <2>4, <2>5 DEF LatestInv
  <2>7. PICK tip \in 0..(n - 1) : tip = NewestOf(accepted)
    BY <2>4, <2>6 DEF Holds
  <2> HIDE DEF line
  <2>8. config \in Nat \ {0}
    BY SizesAssumption
  <2>9. PICK cut \in Seq(Record) :
           /\ cut = SubSeq(buf, 1, tip + 1) /\ Len(cut) = tip + 1
           /\ \A i \in 1..(tip + 1) : cut[i] = buf[i]
    <3>1. \A i \in 1..(tip + 1) : buf[i] \in Record
      BY <2>4, ElementOfSeq
    <3>2. /\ SubSeq(buf, 1, tip + 1) \in Seq(Record)
          /\ Len(SubSeq(buf, 1, tip + 1)) = IF 1 <= tip + 1 THEN tip + 1 - 1 + 1 ELSE 0
          /\ \A i \in 1..(tip + 1 - 1 + 1) : SubSeq(buf, 1, tip + 1)[i] = buf[1 + i - 1]
      BY <3>1, SubSeqProperties
    <3>3. \A i \in 1..(tip + 1) : SubSeq(buf, 1, tip + 1)[i] = buf[i]
      <4> SUFFICES ASSUME NEW i \in 1..(tip + 1) PROVE SubSeq(buf, 1, tip + 1)[i] = buf[i]
        OBVIOUS
      <4>1. i \in 1..(tip + 1 - 1 + 1) /\ 1 + i - 1 = i
        OBVIOUS
      <4> QED BY <3>2, <4>1
    <3>4. 1 <= tip + 1 /\ tip + 1 - 1 + 1 = tip + 1
      OBVIOUS
    <3> QED BY <3>2, <3>3, <3>4
  <2>10. PICK new \in Nat \ {0} :
            /\ idx' = Lines(tip, new) /\ tip <= new
            /\ \/ buf' = buf /\ ((n < old /\ n <= new) \/ tip = new - 1)
               \/ buf' = cut
    <3>1. CASE JustTheIndex(line, config) /\ idx' = Lines(line.flip, config) /\ buf' = buf
      <4>1. (n < old /\ config >= n) \/ tip = config - 1
        BY <2>2, <2>3, <2>4, <2>7, <3>1 DEF JustTheIndex
      <4>2. tip <= config
        BY <2>8, <4>1
      <4> QED BY <2>2, <2>7, <2>8, <3>1, <4>1, <4>2
    <3>2. CASE idx' = Lines(line.flip, TruncatedSize(line, config)) /\ buf' = SubSeq(buf, 1, line.flip + 1)
      <4>1. TruncatedSize(line, config) = IF tip > config THEN tip + 1 ELSE config
        BY <2>2, <2>7 DEF TruncatedSize
      <4>2. TruncatedSize(line, config) \in Nat \ {0} /\ tip <= TruncatedSize(line, config)
        BY <2>8, <4>1
      <4>3. buf' = cut /\ idx' = Lines(tip, TruncatedSize(line, config))
        BY <2>2, <2>7, <2>9, <3>2
      <4> QED BY <4>2, <4>3
    <3> QED BY <2>1, <3>1, <3>2
  <2>11. idx'[1].max = new
    BY <2>10, LinesAgree
  <2>12. Holds(buf', accepted, new)
    <3>1. NewestOf(accepted) <= new
      BY <2>7, <2>10
    <3>2. \/ buf' = buf /\ \/ Len(buf) < old /\ Len(buf) <= new
                           \/ NewestOf(accepted) = new - 1
          \/ /\ Len(buf') = NewestOf(accepted) + 1
             /\ \A i \in 1..(NewestOf(accepted) + 1) : buf'[i] = buf[i]
      <4>1. CASE buf' = cut
        BY <2>7, <2>9, <4>1
      <4>2. CASE buf' = buf /\ ((n < old /\ n <= new) \/ tip = new - 1)
        BY <2>4, <2>7, <4>2
      <4> QED BY <2>10, <4>1, <4>2
    <3>3. buf' \in Seq(Record)
      BY <2>4, <2>9, <2>10
    <3>4. PICK loop \in Seq(Record), left \in Seq(Record), writes \in Seq(Write) :
             loop = buf /\ left = buf' /\ writes = accepted
      BY <1>0, <2>4, <3>3
    <3>5. Holds(loop, writes, old) /\ NewestOf(writes) <= new
      BY <2>6, <3>1, <3>4
    <3>6. \/ left = loop /\ \/ Len(loop) < old /\ Len(loop) <= new
                            \/ NewestOf(writes) = new - 1
          \/ /\ Len(left) = NewestOf(writes) + 1
             /\ \A i \in 1..(NewestOf(writes) + 1) : left[i] = loop[i]
      BY <3>2, <3>4
    <3>7. Holds(left, writes, new)
      BY <3>5, <3>6, HoldsResized
    <3> QED BY <3>4, <3>7
  <2> QED BY <2>1, <2>5, <2>11, <2>12
<1>11. ASSUME NEW r \in Record, OpenCached(r) PROVE Kept
  <2>1. UNCHANGED <<buf, idx, context, pending, accepted>>
    BY <1>11 DEF OpenCached
  <2> QED BY <1>1, <2>1
<1>12. CASE UNCHANGED vars
  BY <1>1, <1>12 DEF vars
<1> QED BY <1>2, <1>3, <1>4, <1>5, <1>6, <1>7, <1>8, <1>9, <1>10, <1>11, <1>12, OfferedRecord DEF Next, WriteChan

\* adl_write takes a record only when it starts after the last one.
LEMMA WrittenIsLater ==
    ASSUME LInv, FreshInv, OpensInv, LatestInv, OrderInv, misled = {}, kind = "data",
           NEW due \in {"none", "flush", "index"}, AdlWrite(due)
    PROVE  accepted # <<>> /\ Last(accepted).record.start < writing.start
           /\ writing \in Record /\ writing.end = writing.start + Span
<1>1. /\ accepted # <<>> /\ accepted \in Seq(Write) /\ context # Null /\ writing \in Record
  BY WrittenRecord
<1>2. writing # NoRecord /\ ~(writing.start - context.last.end < -Slack)
  BY DEF AdlWrite, Overlaps
<1>3. context.last = Last(accepted).record
  BY <1>1 DEF LatestInv
<1>4. PICK last \in Write : last = Last(accepted) /\ last = accepted[Len(accepted)] /\ Len(accepted) \in Nat \ {0}
  BY <1>1, FrontAndLast, EmptySeq
<1>5. last.record.end = last.record.start + Span
  BY <1>4 DEF OrderInv
<1>6. last.record.start \in Int /\ writing.start \in Int /\ Span \in Nat /\ Slack \in Nat /\ Slack < Span
  BY <1>1, SpanAssumption, TimeAssumption DEF Write, Record
<1>7. ~(writing.start - (last.record.start + Span) < -Slack)
  BY <1>2, <1>3, <1>4, <1>5
<1>8. last.record.start < writing.start
  BY ONLY <1>6, <1>7
<1> QED BY <1>1, <1>2, <1>4, <1>8 DEF OrderInv

LEMMA OrderInvStep ==
    LInv /\ FreshInv /\ OpensInv /\ LatestInv /\ OrderInv /\ [Next]_vars => OrderInv'
<1> SUFFICES ASSUME LInv, FreshInv, OpensInv, LatestInv, OrderInv, [Next]_vars PROVE OrderInv'
  OBVIOUS
<1>0. accepted \in Seq(Write) /\ Len(accepted) \in Nat /\ (misled' = {} => misled = {})
  BY MisledGrows, LenProperties DEF FreshInv
<1>1. ASSUME UNCHANGED <<kind, accepted>>, writing' \in {writing, NoRecord} PROVE OrderInv'
  BY <1>0, <1>1 DEF OrderInv
<1>2. ASSUME NEW t \in Times, OpenCached(RecordAt(t)) PROVE OrderInv'
  <2>1. UNCHANGED <<kind, accepted>> /\ writing' = RecordAt(t)
    BY <1>2 DEF OpenCached
  <2>2. RecordAt(t).end = RecordAt(t).start + Span
    BY DEF RecordAt
  <2> QED BY <1>0, <2>1, <2>2 DEF OrderInv
<1>3. ASSUME NEW t \in Times, NEW size \in Sizes, NEW newer \in BOOLEAN, OpenFiles(RecordAt(t), size, newer)
      PROVE  OrderInv'
  <2>1. UNCHANGED <<kind, accepted>> /\ writing' \in {NoRecord, RecordAt(t)}
    BY <1>3 DEF OpenFiles
  <2>2. RecordAt(t).end = RecordAt(t).start + Span
    BY DEF RecordAt
  <2> QED BY <1>0, <2>1, <2>2 DEF OrderInv
<1>4. CASE SkipOverlap \/ SeekNext \/ WriteFails \/ WriteAllIndices \/ CloseAll
  <2>1. UNCHANGED <<kind, accepted>> /\ writing' \in {writing, NoRecord}
    BY <1>4 DEF SkipOverlap, SeekNext, WriteFails, WriteAllIndices, CloseAll
  <2> QED BY <1>1, <2>1
<1>5. ASSUME NEW due \in {"none", "flush", "index"}, AdlWrite(due) PROVE OrderInv'
  <2>1. PICK w \in Write : accepted' = accepted \o <<w>> /\ w.record = writing
    BY <1>5, WrittenRecord
  <2>2. kind' = kind /\ writing' = NoRecord
    BY <1>5 DEF AdlWrite
  <2> SUFFICES ASSUME misled = {}, kind = "data"
               PROVE  /\ \A i, j \in 1..Len(accepted') : i < j => accepted'[i].record.start < accepted'[j].record.start
                      /\ \A i \in 1..Len(accepted') : accepted'[i].record.end = accepted'[i].record.start + Span
    BY <1>0, <2>2 DEF OrderInv
  <2>3. PICK len \in Nat : len = Len(accepted)
    BY <1>0
  <2>4. /\ accepted # <<>> /\ Last(accepted).record.start < writing.start
        /\ writing \in Record /\ writing.end = writing.start + Span
    BY <1>5, WrittenIsLater
  <2>5. len # 0 /\ Last(accepted) = accepted[len]
    BY <1>0, <2>3, <2>4, EmptySeq, FrontAndLast
  <2>6. /\ Len(accepted') = len + 1 /\ accepted'[len + 1] = w
        /\ \A i \in 1..len : accepted'[i] = accepted[i]
    <3>1. /\ Len(accepted \o <<w>>) = len + 1 /\ Last(accepted \o <<w>>) = w
          /\ \A i \in 1..len : (accepted \o <<w>>)[i] = accepted[i]
      BY <1>0, <2>3, AddedLast
    <3> QED BY <2>1, <3>1 DEF Last
  <2>7. /\ \A i, j \in 1..len : i < j => accepted[i].record.start < accepted[j].record.start
        /\ \A i \in 1..len : accepted[i].record.end = accepted[i].record.start + Span
    BY <2>3 DEF OrderInv
  <2>8. \A i \in 1..len : accepted[i].record.start \in Int
    <3> SUFFICES ASSUME NEW i \in 1..len PROVE accepted[i].record.start \in Int
      OBVIOUS
    <3>1. accepted[i] \in Write
      BY <1>0, <2>3, ElementOfSeq
    <3> QED BY <3>1, TimeAssumption DEF Write, Record
  <2>9. writing.start \in Int
    BY <2>4, TimeAssumption DEF Record
  <2>10. \A i \in 1..len : accepted[i].record.start < writing.start
    <3> SUFFICES ASSUME NEW i \in 1..len PROVE accepted[i].record.start < writing.start
      OBVIOUS
    <3>1. len \in 1..len /\ (i = len \/ i < len)
      BY <2>5
    <3>2. accepted[len].record.start < writing.start /\ accepted[len].record.start \in Int
      BY <2>4, <2>5, <2>8, <3>1
    <3>3. i < len => accepted[i].record.start < accepted[len].record.start
      BY <2>7, <3>1
    <3> QED BY <2>8, <2>9, <3>1, <3>2, <3>3
  <2>11. ASSUME NEW i \in 1..(len + 1)
         PROVE  accepted'[i].record = IF i = len + 1 THEN writing ELSE accepted[i].record
    BY <2>1, <2>6
  <2>12. ASSUME NEW i \in 1..(len + 1), NEW j \in 1..(len + 1), i < j
         PROVE  accepted'[i].record.start < accepted'[j].record.start
    <3>1. i \in 1..len /\ i # len + 1 /\ (j = len + 1 \/ j \in 1..len)
      BY <2>12
    <3>2. CASE j = len + 1
      BY <2>10, <2>11, <3>1, <3>2
    <3>3. CASE j \in 1..len
      BY <2>6, <2>7, <2>12, <3>1, <3>3
    <3> QED BY <3>1, <3>2, <3>3
  <2>13. ASSUME NEW i \in 1..(len + 1) PROVE accepted'[i].record.end = accepted'[i].record.start + Span
    BY <2>4, <2>7, <2>11
  <2> QED BY <2>6, <2>12, <2>13
<1>6. CASE Kill
  <2>1. /\ context # Null /\ kind' = kind /\ writing' = NoRecord /\ misled' = misled
        /\ accepted' = IF pending = <<>> THEN accepted ELSE Front(accepted)
    BY <1>6 DEF Kill
  <2>2. accepted # <<>>
    BY <2>1 DEF OpensInv
  <2>3. /\ Len(Front(accepted)) = Len(accepted) - 1
        /\ \A i \in 1..(Len(accepted) - 1) : Front(accepted)[i] = accepted[i]
    BY <1>0, <2>2, FrontAndLast
  <2>4. CASE pending = <<>>
    BY <1>1, <2>1, <2>4
  <2>5. CASE pending # <<>>
    <3>1. PICK f : f = Front(accepted)
      OBVIOUS
    <3>2. accepted' = f /\ Len(f) = Len(accepted) - 1 /\ \A i \in 1..Len(f) : f[i] = accepted[i] /\ i \in 1..Len(accepted)
      BY <1>0, <2>1, <2>3, <2>5, <3>1
    <3> HIDE <3>1
    <3> QED BY <1>0, <2>1, <3>2 DEF OrderInv
  <2> QED BY <2>4, <2>5
<1>7. ASSUME NEW lines \in 0..2, KillWritingIndex(lines) PROVE OrderInv'
  <2>1. UNCHANGED <<kind, accepted>> /\ writing' \in {writing, NoRecord}
    BY <1>7 DEF KillWritingIndex
  <2> QED BY <1>1, <2>1
<1>8. ASSUME NEW made \in BOOLEAN, KillMakingBuffer(made) PROVE OrderInv'
  <2>1. UNCHANGED <<kind, accepted>> /\ writing' \in {writing, NoRecord}
    BY <1>8 DEF KillMakingBuffer
  <2> QED BY <1>1, <2>1
<1>9. ASSUME NEW config \in Sizes, NEW truncate \in BOOLEAN, Resize(config, truncate) PROVE OrderInv'
  <2>1. UNCHANGED <<kind, accepted>> /\ writing' \in {writing, NoRecord}
    BY <1>9 DEF Resize
  <2> QED BY <1>1, <2>1
<1>10. CASE UNCHANGED vars
  BY <1>1, <1>10 DEF vars
<1> QED BY <1>2, <1>3, <1>4, <1>5, <1>6, <1>7, <1>8, <1>9, <1>10 DEF Next, WriteChan

-----------------------------------------------------------------------------
(* What an open loop holds, and in which order.                            *)

LoopInv == LInv /\ FreshInv /\ OpensInv /\ LatestInv /\ OrderInv

THEOREM LoopKept == Spec => []LoopInv
<1>1. Init => LoopInv
  BY InitLInv, InitFreshInv, InitOpensInv, InitLatestInv DEF LoopInv
<1>2. LoopInv /\ [Next]_vars => LoopInv'
  BY LInvStep, FreshInvStep, OpensInvStep, LatestInvStep, OrderInvStep DEF LoopInv
<1> QED BY <1>1, <1>2, PTL DEF Spec

\* Counting on from a slot of a ring goes on from its beginning at its end.
LEMMA RingTurns ==
    ASSUME NEW capacity \in Nat \ {0}, NEW a \in 0..(capacity - 1)
    PROVE  a % capacity = a /\ (a + capacity) % capacity = a
<1>1. a % capacity = a
  OBVIOUS
<1>2. (a + capacity) % capacity = a
  OBVIOUS
<1> QED BY <1>1, <1>2

\* The records of the last n writes.
LatestOf(writes, n) == [k \in 1..n |-> writes[Len(writes) - n + k].record]

\* The ring of a loop, read from the context, is the last writes in their order.
LEMMA RingOfTheLatest ==
    ASSUME NEW loop \in Seq(Record), NEW writes \in Seq(Write), NEW capacity \in Nat \ {0},
           Holds(loop, writes, capacity), NewestOf(writes) < capacity,
           NEW c, c.index = NewestOf(writes), c.capacity = capacity, c.size = Min({Len(loop), capacity})
    PROVE  c.size <= Len(writes) /\ Ring(c, loop) = LatestOf(writes, c.size)
<1>1. PICK n \in Nat, len \in Nat : n = Len(loop) /\ len = Len(writes)
  BY LenProperties
<1>2. PICK tip \in 0..(n - 1) : tip = NewestOf(writes) /\ tip < capacity
  BY <1>1 DEF Holds
<1>3. n < capacity => tip = n - 1
  BY <1>1, <1>2 DEF Holds
<1>4. \A k \in 0..(n - 1) : k <= tip \/ k < capacity =>
         /\ Age(k, tip, capacity) < len
         /\ loop[k + 1] = writes[len - Age(k, tip, capacity)].record
  BY <1>1, <1>2 DEF Holds
<1>5. PICK size \in Nat : size = c.size /\ size = IF n <= capacity THEN n ELSE capacity
  <2>1. (IF n <= capacity THEN n ELSE capacity) \in Nat
    OBVIOUS
  <2>2. Min({n, capacity}) = IF n <= capacity THEN n ELSE capacity
    BY MinOfTwo
  <2> QED BY <1>1, <2>1, <2>2
<1>6. size \in 1..capacity
  BY <1>2, <1>5
<1>7. ASSUME NEW k \in 1..size
      PROVE  /\ size - k < len
             /\ loop[((tip - size + k + capacity) % capacity) + 1] = writes[len - size + k].record
  <2>1. PICK slot \in Int : slot = IF tip - size + k >= 0 THEN tip - size + k ELSE tip - size + k + capacity
    <3>1. (IF tip - size + k >= 0 THEN tip - size + k ELSE tip - size + k + capacity) \in Int
      OBVIOUS
    <3> QED BY <3>1
  <2>2. /\ slot \in 0..(capacity - 1) /\ slot \in 0..(n - 1)
        /\ tip - size + k + capacity \in {slot, slot + capacity}
        /\ (IF slot <= tip THEN tip - slot ELSE tip + capacity - slot) = size - k
    <3>1. /\ n \in Nat /\ capacity \in Nat /\ size \in Nat /\ k \in 1..size /\ tip \in 0..(n - 1)
          /\ slot \in Int /\ tip < capacity /\ (n < capacity => tip = n - 1)
          /\ size = IF n <= capacity THEN n ELSE capacity
      BY <1>2, <1>3, <1>5
    <3>2. CASE n < capacity
      <4>1. size = n /\ tip = n - 1 /\ tip - size + k = k - 1
        BY ONLY <3>1, <3>2
      <4>2. slot = k - 1
        BY ONLY <2>1, <3>1, <4>1
      <4>3. tip - size + k + capacity = slot + capacity /\ slot \in 0..(n - 1) /\ slot <= tip /\ slot < capacity
        BY ONLY <3>1, <4>1, <4>2
      <4> QED BY ONLY <3>1, <4>1, <4>2, <4>3
    <3>3. CASE n >= capacity
      <4>1. size = capacity /\ tip - size + k + capacity = tip + k
        BY ONLY <3>1, <3>3
      <4>2. CASE tip + k < capacity
        <5>1. slot = tip + k
          BY ONLY <2>1, <3>1, <4>1, <4>2
        <5> QED BY ONLY <3>1, <3>3, <4>1, <4>2, <5>1
      <4>3. CASE tip + k >= capacity
        <5>1. slot = tip + k - capacity
          BY ONLY <2>1, <3>1, <4>1, <4>3
        <5> QED BY ONLY <3>1, <3>3, <4>1, <4>3, <5>1
      <4> QED BY ONLY <3>1, <4>2, <4>3
    <3> QED BY ONLY <3>1, <3>2, <3>3
  <2>3. (tip - size + k + capacity) % capacity = slot
    <3>1. PICK a : a = tip - size + k + capacity
      OBVIOUS
    <3>2. a % capacity = slot
      BY <2>2, <3>1, RingTurns
    <3> QED BY <3>1, <3>2
  <2>4. PICK age \in Int : age = size - k
    OBVIOUS
  <2>5. Age(slot, tip, capacity) = age
    BY <2>2, <2>4 DEF Age
  <2>6. slot < capacity
    BY <2>2
  <2>7. age < len /\ loop[slot + 1] = writes[len - age].record
    BY <1>4, <2>2, <2>5, <2>6
  <2>8. len - age = len - size + k
    BY <2>4
  <2> QED BY <2>3, <2>4, <2>7, <2>8
<1>8. size <= len
  <2>1. 1 \in 1..size
    BY <1>6
  <2>2. size - 1 < len
    BY <1>7, <2>1
  <2> QED BY <2>2
<1>9. Ring(c, loop) = [k \in 1..size |-> loop[((tip - size + k + capacity) % capacity) + 1]]
  BY <1>2, <1>5 DEF Ring
<1>10. Ring(c, loop) = [k \in 1..size |-> writes[len - size + k].record]
  BY <1>7, <1>9
<1>11. c.size <= Len(writes)
  BY <1>1, <1>5, <1>8
<1>12. [k \in 1..size |-> writes[len - size + k].record] = LatestOf(writes, c.size)
  BY <1>1, <1>5 DEF LatestOf
<1> QED BY <1>10, <1>11, <1>12

\* An open loop holds the last records accepted, oldest first, as many as it has room
\* for: adl_write replaces the oldest record, a killed process loses the one in its
\* stream and no other, and adl_open goes on behind the newest one, whatever the index
\* file says, unless it was misled.
THEOREM OpenLoopHoldsTheLatest == Spec => []HoldsTheLatest
<1>1. LoopInv => HoldsTheLatest
  <2> SUFFICES ASSUME LoopInv, context # Null, misled = {}
               PROVE  /\ context.size = Min({Len(Stored(buf, pending)), context.capacity})
                      /\ context.size <= Len(accepted)
                      /\ Ring(context, Stored(buf, pending))
                           = [k \in 1..context.size |-> accepted[Len(accepted) - context.size + k].record]
    BY DEF HoldsTheLatest
  <2>1. LInv /\ FreshInv /\ OpensInv /\ LatestInv /\ OrderInv
    BY DEF LoopInv
  <2>2. accepted # <<>> /\ accepted \in Seq(Write) /\ context.capacity = idx[1].max
        /\ context.index < context.capacity
    BY <2>1 DEF OpensInv, FreshInv
  <2>3. PICK capacity \in Nat \ {0} : capacity = idx[1].max
    BY <2>1, <2>2, ReachedAndPending
  <2>4. PICK loop \in Seq(Record) : loop = Stored(buf, pending)
    <3>1. CASE pending = <<>>
      BY <2>1, <2>2, <3>1, ReachedAndPending, StoredNothing
    <3>2. CASE pending # <<>>
      <4>1. PICK w \in Write : pending = <<w>>
        BY <2>1, <3>2, ReachedAndPending
      <4>2. w = pending[1] /\ w.index <= Len(buf)
        BY <2>1, <3>2, <4>1 DEF LInv, StreamInv
      <4>3. buf \in Seq(Record)
        BY <2>1, <2>2, ReachedAndPending
      <4> QED BY <4>1, <4>2, <4>3, StoredAt
    <3> QED BY <3>1, <3>2
  <2>5. Holds(loop, accepted, capacity)
    BY <2>1, <2>2, <2>3, <2>4, FlushedHolds
  <2>6. /\ context.index = NewestOf(accepted)
        /\ context.size = Min({Len(loop), capacity})
    BY <2>1, <2>2, <2>3, <2>4 DEF LatestInv
  <2>7. PICK c : c = context
    OBVIOUS
  <2>8. c.size <= Len(accepted) /\ Ring(c, loop) = LatestOf(accepted, c.size)
    <3>1. /\ c.index = NewestOf(accepted) /\ c.capacity = capacity /\ c.size = Min({Len(loop), capacity})
          /\ NewestOf(accepted) < capacity
      BY <2>2, <2>3, <2>6, <2>7
    <3> QED BY <2>2, <2>5, <3>1, RingOfTheLatest
  <2> QED BY <2>2, <2>3, <2>4, <2>6, <2>7, <2>8 DEF LatestOf
<1> QED BY <1>1, LoopKept, PTL

\* In a loop of records with samples each record accepted begins after the one before,
\* over deaths and restarts too: adl_open remembers the last record stored, against
\* which adl_write checks.
THEOREM RecordsKeepOrder == Spec => []KeepsOrder
<1>1. LoopInv => KeepsOrder
  BY DEF LoopInv, OrderInv, KeepsOrder
<1> QED BY <1>1, LoopKept, PTL

-----------------------------------------------------------------------------
(* What the readers of a loop see.                                         *)

\* A write puts its record in its slot, or at the end.
LEMMA StoredIsPut ==
    ASSUME NEW loop \in Seq(Record), NEW w \in Write, w.index <= Len(loop)
    PROVE  Stored(loop, <<w>>) = IF w.index + 1 <= Len(loop) THEN [loop EXCEPT ![w.index + 1] = w.record]
                                 ELSE Append(loop, w.record)
<1>1. PICK n \in Nat, s \in Nat : n = Len(loop) /\ s = w.index /\ s <= n /\ w.record \in Record
  BY LenProperties DEF Write
<1>2. PICK after \in Seq(Record) : after = Stored(loop, <<w>>)
  BY StoredAt
<1>3. /\ Len(after) = IF s = n THEN n + 1 ELSE n
      /\ \A k \in 0..(Len(after) - 1) : after[k + 1] = IF k = s THEN w.record ELSE loop[k + 1]
  BY <1>1, <1>2, StoredAt
<1>4. ASSUME NEW i \in 1..Len(after) PROVE after[i] = IF i = s + 1 THEN w.record ELSE loop[i]
  <2>1. Len(after) \in Nat
    BY LenProperties
  <2>2. PICK k \in 0..(Len(after) - 1) : i = k + 1
    <3>1. i - 1 \in 0..(Len(after) - 1) /\ i = (i - 1) + 1
      BY <2>1
    <3> QED BY <3>1
  <2>3. i = s + 1 <=> k = s
    BY <1>1, <2>1, <2>2
  <2> QED BY <1>3, <2>2, <2>3
<1>5. CASE s = n
  <2>1. /\ Append(loop, w.record) \in Seq(Record) /\ Len(Append(loop, w.record)) = n + 1
        /\ \A i \in 1..n : Append(loop, w.record)[i] = loop[i]
        /\ Append(loop, w.record)[n + 1] = w.record
    BY <1>1, AppendProperties
  <2>2. PICK longer \in Seq(Record) : longer = Append(loop, w.record)
    BY <2>1
  <2>3. Len(after) = n + 1 /\ Len(longer) = n + 1
    BY <1>3, <1>5, <2>1, <2>2
  <2>4. \A i \in 1..Len(after) : after[i] = longer[i]
    <3> SUFFICES ASSUME NEW i \in 1..Len(after) PROVE after[i] = longer[i]
      OBVIOUS
    <3>1. i = n + 1 \/ (i \in 1..n /\ i # n + 1)
      BY <1>1, <2>3
    <3> QED BY <1>4, <1>5, <2>1, <2>2, <3>1
  <2>5. after = longer
    BY <2>3, <2>4, SeqEqual
  <2>6. ~(s + 1 <= n)
    BY <1>1, <1>5
  <2> QED BY <1>1, <1>2, <2>2, <2>5, <2>6
<1>6. CASE s # n
  <2>1. s + 1 \in 1..n /\ s + 1 <= n
    BY <1>1, <1>6
  <2>2. PICK same : same = [loop EXCEPT ![s + 1] = w.record]
    OBVIOUS
  <2>3. /\ same \in Seq(Record) /\ Len(same) = n
        /\ \A i \in 1..n : same[i] = IF i = s + 1 THEN w.record ELSE loop[i]
    BY <1>1, <2>1, <2>2, ExceptSeq
  <2>4. Len(after) = n
    BY <1>3, <1>6
  <2>5. \A i \in 1..Len(after) : after[i] = same[i]
    BY <1>4, <2>3, <2>4
  <2>6. after = same
    BY <2>3, <2>4, <2>5, SeqEqual
  <2> QED BY <1>1, <1>2, <2>1, <2>2, <2>6
<1> QED BY <1>5, <1>6

\* The file and the capacity the readers of a loop that holds records go by.
LEMMA SeenLoop ==
    ASSUME LInv, OpensInv, accepted # <<>>
    PROVE  FileSeen = buf /\ TipSeen = NewestOf(Reached) /\ CapacitySeen = idx[1].max
<1>1. buf # NoFile /\ idx # NoFile /\ Len(idx) = 3 /\ \A k \in 1..3 : idx[k].max = idx[1].max
  BY DEF OpensInv
<1>2. idx # <<>>
  <2>1. Len(<<>>) # 3
    OBVIOUS
  <2> QED BY <1>1, <2>1
<1>3. ParseIndexInfo(idx) = idx[1]
  BY <1>1, FirstLineCounts
<1> QED BY <1>1, <1>2, <1>3 DEF FileSeen, TipSeen, CapacitySeen, NewestOf, Reached

LEMMA SeenLoopNext ==
    ASSUME LInv', OpensInv', accepted' # <<>>
    PROVE  FileSeen' = buf' /\ TipSeen' = NewestOf(Reached)' /\ CapacitySeen' = idx'[1].max
<1>1. buf' # NoFile /\ idx' # NoFile /\ Len(idx') = 3 /\ \A k \in 1..3 : idx'[k].max = idx'[1].max
  BY DEF OpensInv
<1>2. idx' # <<>>
  <2>1. Len(<<>>) # 3
    OBVIOUS
  <2> QED BY <1>1, <2>1
<1>3. ParseIndexInfo(idx') = idx'[1]
  BY <1>1, FirstLineCounts
<1> QED BY <1>1, <1>2, <1>3 DEF FileSeen, TipSeen, CapacitySeen, NewestOf, Reached

\* A record that reaches the file as the next write is put the way the readers rely on.
LEMMA SeenPut ==
    ASSUME LoopInv, LoopInv', misled = {}, accepted # <<>>, accepted' # <<>>, NEW w \in Write,
           buf' = Stored(buf, <<w>>), Reached' = Reached \o <<w>>, idx'[1].max = idx[1].max,
           NewestOf(Reached) < idx[1].max, w.index = SlotAfter(NewestOf(Reached), idx[1].max),
           w.record.end = w.record.start + Span, Last(Reached).record.start < w.record.start
    PROVE  File!WriterNext
<1>1. LInv /\ FreshInv /\ OpensInv /\ LatestInv /\ LInv' /\ OpensInv'
  BY DEF LoopInv
<1>2. PICK loop \in Seq(Record), writes \in Seq(Write), max \in Nat \ {0} :
         loop = buf /\ writes = Reached /\ max = idx[1].max
  BY <1>1, ReachedAndPending
<1>3. Holds(loop, writes, max)
  BY <1>1, <1>2 DEF LatestInv
<1>4. PICK tip \in Nat : /\ tip = NewestOf(writes) /\ tip < max /\ tip < Len(loop)
                         /\ loop[tip + 1] = Last(writes).record /\ writes # <<>>
  BY <1>2, <1>3, NewestHeld
<1>5. PICK t \in 1..MaxTime : t = w.record.start /\ w.record = RecordAt(t)
  <2>1. w.record \in [start : 1..MaxTime, end : Nat]
    BY DEF Write, Record
  <2> QED BY <2>1 DEF RecordAt
<1>6. PICK slot \in Nat : slot = w.index /\ slot = IF tip + 1 >= max THEN 0 ELSE tip + 1
  BY <1>2, <1>4 DEF Write, SlotAfter
<1>7. slot <= Len(loop) /\ NewestOf(writes \o <<w>>) = slot
  <2>1. w.index = SlotAfter(NewestOf(writes), max)
    BY <1>2
  <2>2. NewestOf(writes) < max
    BY <1>4
  <2>3. w.index <= Len(loop) /\ NewestOf(writes \o <<w>>) = w.index
    BY <1>3, <1>4, <2>1, <2>2, HoldsPut
  <2> QED BY <1>6, <2>3
<1>8. FileSeen = loop /\ TipSeen = tip /\ CapacitySeen = max
  BY <1>1, <1>2, <1>4, SeenLoop
<1>9. FileSeen' = Stored(loop, <<w>>) /\ TipSeen' = slot /\ CapacitySeen' = max
  <2>1. FileSeen' = buf' /\ TipSeen' = NewestOf(Reached)' /\ CapacitySeen' = idx'[1].max
    BY <1>1, SeenLoopNext
  <2>2. NewestOf(Reached)' = NewestOf(Reached')
    BY DEF NewestOf
  <2> QED BY <1>2, <1>7, <2>1, <2>2
<1>10. Stored(loop, <<w>>) = IF slot + 1 <= Len(loop) THEN [loop EXCEPT ![slot + 1] = RecordAt(t)]
                             ELSE Append(loop, RecordAt(t))
  BY <1>5, <1>6, <1>7, StoredIsPut
<1>11. t > loop[tip + 1].start
  <2>1. Last(writes).record.start < t
    BY <1>2, <1>5
  <2>2. loop[tip + 1] \in Record
    <3>1. tip + 1 \in 1..Len(loop)
      BY <1>4, LenProperties
    <3> QED BY <3>1, ElementOfSeq
  <2>3. loop[tip + 1].start \in Int /\ t \in Int
    BY <2>2, TimeAssumption DEF Record
  <2> QED BY <1>4, <2>1, <2>3
<1>12. File!NextSlot = slot
  BY <1>6, <1>8 DEF File!NextSlot
<1>13. File!RecordAt(t) = RecordAt(t)
  BY DEF File!RecordAt, RecordAt
<1>14. slot + 1 <= Len(loop) + 1 /\ (slot + 1) - 1 = slot
  BY <1>6, <1>7, LenProperties
<1>15. File!Put(t)
  BY <1>8, <1>9, <1>10, <1>11, <1>12, <1>13, <1>14 DEF File!Put
<1> QED BY <1>15 DEF File!WriterNext

\* The write in the stream reaches the file.
LEMMA PendingPut ==
    ASSUME LoopInv, LoopInv', misled' = {}, misled = {}, kind = "data", pending # <<>>,
           buf' = Stored(buf, pending), pending' = <<>>, accepted' = accepted, idx'[1].max = idx[1].max
    PROVE  File!WriterNext
<1>1. LInv /\ FreshInv /\ OpensInv /\ LatestInv /\ OrderInv
  BY DEF LoopInv
<1>2. /\ pending = <<Last(accepted)>> /\ Last(accepted) \in Write /\ accepted # <<>>
      /\ accepted = Reached \o <<Last(accepted)>> /\ Reached \in Seq(Write) /\ Reached # <<>>
  BY <1>1, ReachedAndPending
<1>3. PICK w \in Write, writes \in Seq(Write) : w = Last(accepted) /\ writes = Reached /\ writes # <<>>
  BY <1>2
<1>4. accepted = writes \o <<w>> /\ pending = <<w>> /\ pending[1] = w
  BY <1>2, <1>3
<1>5. Reached' = Reached \o <<w>>
  BY <1>3, <1>4 DEF Reached
<1>6. NewestOf(Reached) < idx[1].max /\ w.index = SlotAfter(NewestOf(Reached), idx[1].max)
  BY <1>1, <1>2, <1>4 DEF LatestInv
<1>7. w.record.end = w.record.start + Span /\ Last(writes).record.start < w.record.start
  <2>1. PICK n \in Nat \ {0} : n = Len(writes)
    BY <1>3, EmptySeq, LenProperties
  <2>2. PICK all : all = writes \o <<w>>
    OBVIOUS
  <2>3. Len(all) = n + 1 /\ all[n + 1] = w /\ all[n] = writes[n]
    <3>1. Len(all) = n + 1 /\ Last(all) = w /\ \A i \in 1..n : all[i] = writes[i]
      BY <2>1, <2>2, AddedLast
    <3>2. n \in 1..n
      BY <2>1
    <3> QED BY <3>1, <3>2 DEF Last
  <2>4. n \in 1..(n + 1) /\ n + 1 \in 1..(n + 1) /\ n < n + 1
    BY <2>1
  <2>5. all = accepted
    BY <1>4, <2>2
  <2>6. accepted[n].record.start < accepted[n + 1].record.start
        /\ accepted[n + 1].record.end = accepted[n + 1].record.start + Span
    <3>1. Len(accepted) = n + 1
      BY <2>3, <2>5
    <3>2. /\ \A i, j \in 1..Len(accepted) : i < j => accepted[i].record.start < accepted[j].record.start
          /\ \A i \in 1..Len(accepted) : accepted[i].record.end = accepted[i].record.start + Span
      BY <1>1 DEF OrderInv
    <3> QED BY <2>4, <3>1, <3>2
  <2>7. Last(writes) = writes[n]
    BY <2>1 DEF Last
  <2> QED BY <2>3, <2>5, <2>6, <2>7
<1>8. buf' = Stored(buf, <<w>>) /\ accepted' # <<>>
  BY <1>2, <1>4
<1> QED BY <1>2, <1>3, <1>5, <1>6, <1>7, <1>8, SeenPut

\* A step that leaves the record file alone, or what the stream holds of it.
LEMMA FlushSeen ==
    ASSUME LoopInv, LoopInv', misled' = {}, misled = {}, kind = "data",
           buf' = Stored(buf, pending), pending' = <<>>, accepted' = accepted, idx'[1].max = idx[1].max
    PROVE  File!WriterNext \/ UNCHANGED FileSeen
<1>1. CASE pending = <<>>
  <2>1. buf' = buf
    BY <1>1, StoredNothing
  <2> QED BY <2>1 DEF FileSeen
<1>2. CASE pending # <<>>
  BY <1>2, PendingPut
<1> QED BY <1>1, <1>2

\* As long as nothing has misled it, archd writes a channel's file the way its readers
\* rely on: behind the newest record or over the oldest, and later than the newest;
\* whether a record reaches the file by a flush in adl_write, by its next fseek, by
\* adl_close or while adl_write_index is killed.
THEOREM ArchdWritesForReaders == Spec => WritesForReaders
<1>1. LoopInv /\ LoopInv' /\ [Next]_vars
        => [kind = "data" /\ misled' = {} /\ resizes' = resizes => File!WriterNext]_FileSeen
  <2> SUFFICES ASSUME LoopInv, LoopInv', [Next]_vars, kind = "data", misled' = {}, resizes' = resizes
               PROVE  File!WriterNext \/ UNCHANGED FileSeen
    OBVIOUS
  <2>1. LInv /\ FreshInv /\ OpensInv /\ LatestInv /\ OrderInv
    BY DEF LoopInv
  <2>2. misled = {}
    BY MisledGrows
  <2>3. ASSUME buf' = buf PROVE UNCHANGED FileSeen
    BY <2>3 DEF FileSeen
  <2>4. context # Null => /\ accepted # <<>> /\ context.capacity = idx[1].max /\ context \in Context
                          /\ context.index \in Int /\ context.capacity \in Nat \ {0}
    <3>1. context # Null => accepted # <<>> /\ context.capacity = idx[1].max /\ context \in Context
      BY <2>1 DEF OpensInv, LInv, ContextInv
    <3> QED BY <3>1 DEF Context
  <2>5. ASSUME NEW t \in Times, OpenCached(RecordAt(t)) PROVE UNCHANGED FileSeen
    BY <2>3, <2>5 DEF OpenCached
  <2>6. ASSUME NEW t \in Times, NEW size \in Sizes, NEW newer \in BOOLEAN, OpenFiles(RecordAt(t), size, newer)
        PROVE  UNCHANGED FileSeen
    <3>1. buf' = IF buf = NoFile \/ idx = NoFile THEN <<>> ELSE buf
      BY <2>6 DEF OpenFiles
    <3>2. CASE accepted = <<>>
      <4>1. buf \in {NoFile, <<>>}
        BY <2>1, <3>2 DEF OpensInv
      <4> QED BY <3>1, <4>1 DEF FileSeen
    <3>3. CASE accepted # <<>>
      <4>1. buf # NoFile /\ idx # NoFile
        BY <2>1, <3>3 DEF OpensInv
      <4> QED BY <2>3, <3>1, <4>1
    <3> QED BY <3>2, <3>3
  <2>7. CASE SkipOverlap \/ WriteFails \/ Kill
    <3>1. buf' = buf
      BY <2>7 DEF SkipOverlap, WriteFails, Kill
    <3> QED BY <2>3, <3>1
  <2>8. CASE SeekNext
    <3>1. buf' = Stored(buf, pending) /\ pending' = <<>> /\ UNCHANGED <<idx, accepted>>
      BY <2>8 DEF SeekNext
    <3> QED BY <2>2, <3>1, FlushSeen
  <2>9. ASSUME NEW due \in {"none", "flush", "index"}, AdlWrite(due)
        PROVE  File!WriterNext \/ UNCHANGED FileSeen
    <3>1. PICK w \in Write :
             /\ w.index = NewIndex /\ w.record = writing
             /\ accepted # <<>> /\ accepted \in Seq(Write) /\ accepted' = accepted \o <<w>> /\ pending = <<>>
             /\ due = "none" => buf' = buf
             /\ due # "none" => buf' = Stored(buf, <<w>>) /\ pending' = <<>>
             /\ due = "flush" => idx' = idx
             /\ due = "index" => idx' = Lines(NewIndex, idx[1].max)
             /\ context # Null
      BY <2>1, <2>9, WrittenRecord
    <3>2. CASE due = "none"
      BY <2>3, <3>1, <3>2
    <3>3. CASE due # "none"
      <4>1. buf' = Stored(buf, <<w>>) /\ pending' = <<>>
        BY <3>1, <3>3
      <4>2. idx'[1].max = idx[1].max
        <5>1. CASE due = "flush"
          BY <3>1, <5>1
        <5>2. CASE due = "index"
          BY <3>1, <5>2, LinesAgree
        <5> QED BY <3>3, <5>1, <5>2
      <4>3. Reached = accepted /\ Reached' = accepted'
        BY <3>1, <4>1 DEF Reached
      <4>4. accepted' # <<>>
        BY <3>1, AddedLast
      <4>5. context.index = NewestOf(accepted) /\ context.index < context.capacity
        BY <2>1, <2>2, <3>1 DEF LatestInv, OpensInv
      <4>6. NewestOf(Reached) < idx[1].max /\ w.index = SlotAfter(NewestOf(Reached), idx[1].max)
        BY <2>4, <3>1, <4>3, <4>5 DEF NewIndex, SlotAfter
      <4>7. w.record.end = w.record.start + Span /\ Last(Reached).record.start < w.record.start
        BY <2>1, <2>2, <2>9, <3>1, <4>3, WrittenIsLater
      <4>8. Reached' = Reached \o <<w>>
        BY <3>1, <4>3
      <4> QED BY <2>2, <3>1, <4>1, <4>2, <4>4, <4>6, <4>7, <4>8, SeenPut
    <3> QED BY <3>2, <3>3
  <2>10. CASE WriteAllIndices \/ CloseAll
    <3>1. /\ buf' = Stored(buf, pending) /\ pending' = <<>> /\ accepted' = accepted /\ context # Null
          /\ idx' \in {idx, Lines(context.index, context.capacity)}
      BY <2>10 DEF WriteAllIndices, CloseAll
    <3>2. Lines(context.index, context.capacity)[1].max = context.capacity
      BY LinesAgree
    <3>3. idx'[1].max = idx[1].max
      BY <2>4, <3>1, <3>2
    <3> QED BY <2>2, <3>1, <3>3, FlushSeen
  <2>11. ASSUME NEW lines \in 0..2, KillWritingIndex(lines) PROVE File!WriterNext \/ UNCHANGED FileSeen
    <3>1. /\ buf' = Stored(buf, pending) /\ pending' = <<>> /\ accepted' = accepted /\ context # Null
          /\ idx' = [k \in 1..3 |-> IF k <= lines THEN Lines(context.index, context.capacity)[k] ELSE idx[k]]
      BY <2>11 DEF KillWritingIndex
    <3>2. Lines(context.index, context.capacity)[1].max = context.capacity
      BY LinesAgree
    <3>3. idx'[1] \in {idx[1], Lines(context.index, context.capacity)[1]}
      BY <3>1
    <3>4. idx'[1].max = idx[1].max
      BY <2>4, <3>1, <3>2, <3>3
    <3> QED BY <2>2, <3>1, <3>4, FlushSeen
  <2>12. ASSUME NEW made \in BOOLEAN, KillMakingBuffer(made) PROVE UNCHANGED FileSeen
    <3>1. (buf = NoFile \/ idx = NoFile) /\ buf' = <<>>
      BY <2>12 DEF KillMakingBuffer
    <3>2. buf \in {NoFile, <<>>}
      BY <2>1, <3>1 DEF OpensInv
    <3> QED BY <3>1, <3>2 DEF FileSeen
  <2>13. ASSUME NEW config \in Sizes, NEW truncate \in BOOLEAN, Resize(config, truncate) PROVE FALSE
    <3>1. resizes' = resizes + 1 /\ resizes \in Nat
      BY <2>1, <2>13 DEF Resize, OpensInv
    <3> QED BY <3>1
  <2>14. CASE UNCHANGED vars
    BY <2>3, <2>14 DEF vars
  <2> QED BY <2>5, <2>6, <2>7, <2>8, <2>9, <2>10, <2>11, <2>12, <2>13, <2>14 DEF Next, WriteChan
<1> QED BY <1>1, LoopKept, PTL DEF Spec, WritesForReaders
==============================================================================
