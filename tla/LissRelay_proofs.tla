-------------------------- MODULE LissRelay_proofs --------------------------
(***************************************************************************)
(* Theorems about LissRelay, for any ring of more than two slots, any      *)
(* number of pieces, records and lost connections: what the ring holds in  *)
(* both modes, that nothing is lost when the main thread pauses, and that  *)
(* a relay that overwrites only skips records, unless removals have met.   *)
(***************************************************************************)
EXTENDS LissRelay, SequenceTheorems, TLAPS

\* The number of slots from one index up to another, and the slot k before one.
Dist(a, b) == IF b >= a THEN b - a ELSE b - a + iRecords
Back(i, k) == IF i >= k THEN i - k ELSE i - k + iRecords

Types ==
    /\ overwrite \in BOOLEAN
    /\ seedrec \in [Slot -> [1..Pieces -> Nat]]
    /\ iOldest \in Slot /\ iNext \in Slot /\ mOldest \in Slot
    /\ iSend \in Slot /\ lNext \in Slot /\ lOldest \in Slot
    /\ mpc \in {"read", "check", "load", "store", "copy", "ended"}
    /\ lpc \in {"accept", "wait", "compare", "pick", "send", "load", "store", "ended"}
    /\ read \in Nat /\ copied \in 0..Pieces
    /\ mpc # "copy" => copied = 0
    /\ mpc \in {"check", "load", "store", "copy"} => read > 0
    /\ sent \in Seq(Nat) /\ relayed \in Seq([1..Pieces -> Nat])
    /\ lpc = "send" => Len(sent) < Pieces
    /\ lpc \notin {"send", "ended"} => sent = <<>>

\* All slots but the one to be written next hold the records written last, and
\* that one the pieces copied so far.
RingInv ==
    /\ \A k \in 1..(iRecords - 1) : k <= Written => seedrec[Back(iNext, k)] = Whole(Written - k + 1)
    /\ mpc = "copy" => \A p \in 1..copied : seedrec[iNext][p] = read

\* Only the listening thread moves iOldest: the main thread pauses, or the ring
\* has never been full.
Alone == ~overwrite \/ Written < iRecords - 1

\* Then iOldest does not pass iNext in either direction, and what the listening
\* thread knows of it is true.
AloneInv ==
    Alone =>
        /\ Dist(iOldest, iNext) <= Written
        /\ mpc = "copy" => Dist(iOldest, iNext) < iRecords - 1
        /\ mpc \notin {"load", "store"}
        /\ lpc \in {"pick", "send", "load", "store"} => Dist(iOldest, iNext) > 0
        /\ lpc \in {"send", "load", "store"} => iSend = iOldest
        /\ lpc = "store" => lOldest = iOldest
        /\ lpc = "compare" => Dist(iOldest, lNext) <= Dist(iOldest, iNext)

\* Every record written has been sent or is in the ring; one that is sent stays
\* in the ring until iOldest moves.
SentOf == IF lpc \in {"load", "store"} THEN 1 ELSE 0
RelayInv ==
    ~overwrite =>
        /\ lpc # "ended" => Len(relayed) = Written - Dist(iOldest, iNext) + SentOf
        /\ \A k \in 1..Len(relayed) : relayed[k] = Whole(k)
        /\ lpc = "send" => \A p \in 1..Len(sent) : sent[p] = Len(relayed) + 1

RInv == Types /\ RingInv /\ AloneInv /\ RelayInv

-----------------------------------------------------------------------------
(* Indices.                                                                *)

LEMMA AfterIs == \A i \in Slot : After(i) \in Slot /\ After(i) = IF i = iRecords - 1 THEN 0 ELSE i + 1
BY RingAssumption DEF Slot, After

LEMMA DistIs == \A a, b \in Slot : (b - a) % iRecords = Dist(a, b)
<1> SUFFICES ASSUME NEW a \in Slot, NEW b \in Slot PROVE (b - a) % iRecords = Dist(a, b)
  OBVIOUS
<1> QED BY RingAssumption DEF Slot, Dist

LEMMA DistRange ==
    /\ \A a, b \in Slot : Dist(a, b) \in 0..(iRecords - 1)
    /\ \A a, b \in Slot : Dist(a, b) = 0 <=> a = b
BY RingAssumption DEF Slot, Dist

\* Moving the far index on makes the distance longer, unless it is the longest;
\* moving the near one makes it shorter, unless it is zero.
LEMMA DistMoves ==
    /\ \A a, b \in Slot : Dist(a, b) < iRecords - 1 => Dist(a, After(b)) = Dist(a, b) + 1
    /\ \A a, b \in Slot : Dist(a, b) > 0 => Dist(After(a), b) = Dist(a, b) - 1
    /\ \A a, b \in Slot : Dist(a, b) = iRecords - 1 <=> After(b) = a
BY AfterIs, RingAssumption DEF Slot, Dist

\* Counted back from an index, the slots are all different from it; when it moves
\* on they are one further back.
LEMMA BackIs ==
    /\ \A i \in Slot : \A k \in 1..(iRecords - 1) : Back(i, k) \in Slot /\ Back(i, k) # i
    /\ \A i, a \in Slot : a # i => Back(i, Dist(a, i)) = a
    /\ \A i \in Slot : Back(After(i), 1) = i
    /\ \A i \in Slot : \A k \in 2..(iRecords - 1) : Back(After(i), k) = Back(i, k - 1)
BY AfterIs, RingAssumption DEF Slot, Back, Dist

LEMMA BackCounts ==
    ASSUME NEW i \in Slot, NEW a \in Slot, NEW k \in 1..Dist(a, i)
    PROVE  (a + k - 1) % iRecords = Back(i, Dist(a, i) - k + 1)
<1>1. Dist(a, i) \in 0..(iRecords - 1) /\ k \in 1..(iRecords - 1) /\ k <= Dist(a, i)
  BY DistRange, RingAssumption
<1>2. CASE a + k - 1 < iRecords
  <2>1. (a + k - 1) % iRecords = a + k - 1
    BY <1>1, <1>2, RingAssumption DEF Slot
  <2> QED BY <1>1, <1>2, <2>1, RingAssumption DEF Slot, Back, Dist
<1>3. CASE a + k - 1 >= iRecords
  <2>1. (a + k - 1) % iRecords = a + k - 1 - iRecords
    BY <1>1, <1>3, RingAssumption DEF Slot
  <2> QED BY <1>1, <1>3, <2>1, RingAssumption DEF Slot, Back, Dist
<1> QED BY <1>1, <1>2, <1>3, RingAssumption DEF Slot

LEMMA WholeIs == \A n \in Nat : Whole(n) \in [1..Pieces -> Nat] /\ \A p \in 1..Pieces : Whole(n)[p] = n
BY DEF Whole

-----------------------------------------------------------------------------
LEMMA InitRInv == Init => RInv
<1> SUFFICES ASSUME Init PROVE RInv
  OBVIOUS
<1>1. Types
  <2>1. 0 \in Slot
    BY RingAssumption DEF Slot
  <2>2. seedrec \in [Slot -> [1..Pieces -> Nat]]
    BY DEF Init
  <2>3. sent \in Seq(Nat) /\ relayed \in Seq([1..Pieces -> Nat])
    BY DEF Init
  <2> QED BY <2>1, <2>2, <2>3, RingAssumption DEF Init, Types
<1>2. Written = 0 /\ Dist(iOldest, iNext) = 0
  BY DEF Init, Written, Dist
<1>3. RingInv
  BY <1>2, RingAssumption DEF Init, RingInv
<1>4. AloneInv
  BY <1>2, RingAssumption DEF Init, AloneInv
<1>5. RelayInv
  BY <1>2 DEF Init, RelayInv, SentOf
<1> QED BY <1>1, <1>3, <1>4, <1>5 DEF RInv

-----------------------------------------------------------------------------
(* Types.                                                                  *)

LEMMA MainTypes == ASSUME Types, Main \/ End PROVE Types'
<1> USE DEF Types, listen
<1>1. CASE Read
  BY <1>1 DEF Read
<1>2. CASE Check
  BY <1>2 DEF Check
<1>3. CASE LoadOldest
  BY <1>3 DEF LoadOldest
<1>4. CASE StoreOldest
  BY <1>4, AfterIs DEF StoreOldest
<1>5. CASE CopyPiece
  <2>1. seedrec' \in [Slot -> [1..Pieces -> Nat]]
    BY <1>5 DEF CopyPiece
  <2>2. copied' \in 0..Pieces
    BY <1>5, RingAssumption DEF CopyPiece
  <2> QED BY <1>5, <2>1, <2>2 DEF CopyPiece
<1>6. CASE Advance
  <2>1. iNext' \in Slot
    BY <1>6, AfterIs DEF Advance
  <2>2. copied' \in 0..Pieces
    BY <1>6, RingAssumption DEF Advance
  <2> QED BY <1>6, <2>1, <2>2 DEF Advance
<1>7. CASE End
  BY <1>7 DEF End
<1> QED BY <1>1, <1>2, <1>3, <1>4, <1>5, <1>6, <1>7 DEF Main

LEMMA ListenTypes ==
    ASSUME Types, Accept \/ LoadNext \/ Compare \/ KeepaliveFails \/ Pick \/ SendFails \/ LoadSent \/ StoreSent
    PROVE  Types'
<1> USE DEF Types, ring, main
<1>1. CASE Accept
  BY <1>1 DEF Accept
<1>2. CASE LoadNext
  BY <1>2 DEF LoadNext
<1>3. CASE Compare
  BY <1>3 DEF Compare
<1>4. CASE KeepaliveFails
  BY <1>4 DEF KeepaliveFails
<1>5. CASE Pick
  <2>1. Len(sent') < Pieces
    BY <1>5, RingAssumption DEF Pick
  <2> QED BY <1>5, <2>1 DEF Pick
<1>6. CASE SendFails
  BY <1>6 DEF SendFails
<1>7. CASE LoadSent
  BY <1>7 DEF LoadSent
<1>8. CASE StoreSent
  BY <1>8, AfterIs DEF StoreSent
<1> QED BY <1>1, <1>2, <1>3, <1>4, <1>5, <1>6, <1>7, <1>8


-----------------------------------------------------------------------------
(* The ring.                                                               *)

LEMMA WrittenType == ASSUME Types PROVE Written \in Nat
BY DEF Types, Written

\* A step that leaves the ring and the place in the record alone.
LEMMA RingKept ==
    ASSUME RingInv, UNCHANGED <<seedrec, iNext>>, Written' = Written,
           mpc' = "copy" => copied' = 0 \/ (mpc = "copy" /\ UNCHANGED <<copied, read>>)
    PROVE  RingInv'
<1>1. \A k \in 1..(iRecords - 1) : (k <= Written => seedrec[Back(iNext, k)] = Whole(Written - k + 1))'
  BY DEF RingInv
<1>2. (mpc = "copy" => \A p \in 1..copied : seedrec[iNext][p] = read)'
  BY DEF RingInv
<1> QED BY <1>1, <1>2 DEF RingInv

LEMMA CopyKeepsRing == ASSUME Types, RingInv, CopyPiece PROVE RingInv' /\ Written' = Written
<1>1. Written' = Written
  BY DEF CopyPiece, Written
<1>2. \A k \in 1..(iRecords - 1) : seedrec'[Back(iNext, k)] = seedrec[Back(iNext, k)]
  BY BackIs DEF Types, CopyPiece
<1>3. \A k \in 1..(iRecords - 1) : (k <= Written => seedrec[Back(iNext, k)] = Whole(Written - k + 1))'
  BY <1>1, <1>2 DEF RingInv, CopyPiece, Whole
<1>4. \A p \in 1..(copied + 1) : seedrec'[iNext][p] = read
  <2>1. /\ copied \in Nat /\ copied + 1 \in 1..Pieces
        /\ iNext \in Slot /\ seedrec \in [Slot -> [1..Pieces -> Nat]]
    <3>1. copied \in 0..Pieces /\ copied < Pieces
      BY DEF Types, CopyPiece
    <3>2. copied \in Nat /\ copied + 1 \in 1..Pieces
      BY <3>1, RingAssumption
    <3> QED BY <3>2 DEF Types
  <2>2. seedrec'[iNext] = [seedrec[iNext] EXCEPT ![copied + 1] = read]
    BY <2>1 DEF CopyPiece
  <2>3. seedrec[iNext] \in [1..Pieces -> Nat]
    BY <2>1
  <2>4. \A p \in 1..copied : seedrec[iNext][p] = read
    BY DEF RingInv, CopyPiece
  <2>5. TAKE p \in 1..(copied + 1)
  <2>6. p \in 1..Pieces /\ (p = copied + 1 \/ p \in 1..copied)
    BY <2>1, RingAssumption
  <2> QED BY <2>2, <2>3, <2>4, <2>6
<1>5. (mpc = "copy" => \A p \in 1..copied : seedrec[iNext][p] = read)'
  BY <1>4 DEF CopyPiece, listen
<1> QED BY <1>1, <1>3, <1>5 DEF RingInv

LEMMA AdvanceKeepsRing == ASSUME Types, RingInv, Advance PROVE RingInv' /\ Written' = Written + 1
<1>1. Written \in Nat /\ Written' = Written + 1 /\ Written' = read
  BY DEF Types, Advance, Written
<1>2. seedrec[iNext] = Whole(read)
  <2>1. seedrec[iNext] \in [1..Pieces -> Nat] /\ \A p \in 1..Pieces : seedrec[iNext][p] = read
    BY DEF Types, RingInv, Advance
  <2> QED BY <2>1 DEF Whole
<1>3. ASSUME NEW k \in 1..(iRecords - 1), k <= Written'
      PROVE  seedrec[Back(After(iNext), k)] = Whole(Written' - k + 1)
  <2>1. CASE k = 1
    BY <1>1, <1>2, <2>1, BackIs DEF Types
  <2>2. CASE k # 1
    <3>1. k \in 2..(iRecords - 1) /\ k - 1 \in 1..(iRecords - 1) /\ k - 1 <= Written
      BY <1>1, <1>3, <2>2, RingAssumption
    <3>2. seedrec[Back(iNext, k - 1)] = Whole(Written - (k - 1) + 1)
      BY <3>1 DEF RingInv
    <3>3. Written - (k - 1) + 1 = Written' - k + 1
      BY <1>1, <3>1
    <3> QED BY <3>1, <3>2, <3>3, BackIs DEF Types
  <2> QED BY <2>1, <2>2
<1>4. \A k \in 1..(iRecords - 1) : (k <= Written => seedrec[Back(iNext, k)] = Whole(Written - k + 1))'
  BY <1>3 DEF Advance
<1> QED BY <1>1, <1>4 DEF RingInv, Advance

-----------------------------------------------------------------------------
(* Sending a piece.                                                        *)

\* A record sent is a function on 1..Pieces that holds the pieces sent.
LEMMA PieceTypes ==
    ASSUME Types, SendPiece
    PROVE  /\ Types'
           /\ lpc' = "send" => Len(sent') = Len(sent) + 1 /\ UNCHANGED relayed
           /\ lpc' = "send" => \A p \in 1..Len(sent) : sent'[p] = sent[p]
           /\ lpc' = "send" => sent'[Len(sent) + 1] = seedrec[iSend][Len(sent) + 1]
           /\ lpc' # "send" =>
                /\ lpc' = "load" /\ Len(sent) + 1 = Pieces
                /\ Len(relayed') = Len(relayed) + 1
                /\ \A k \in 1..Len(relayed) : relayed'[k] = relayed[k]
                /\ \A p \in 1..Len(sent) : relayed'[Len(relayed) + 1][p] = sent[p]
                /\ relayed'[Len(relayed) + 1][Pieces] = seedrec[iSend][Pieces]
<1> DEFINE piece == seedrec[iSend][Len(sent) + 1]
<1> DEFINE pieces == Append(sent, piece)
<1>1. Len(sent) \in Nat /\ Len(sent) + 1 \in 1..Pieces /\ piece \in Nat
  <2>1. Len(sent) \in Nat
    BY LenProperties DEF Types
  <2>2. Len(sent) + 1 \in 1..Pieces
    <3>1. Len(sent) < Pieces
      BY DEF Types, SendPiece
    <3> QED BY <2>1, <3>1, RingAssumption
  <2>3. seedrec[iSend] \in [1..Pieces -> Nat]
    BY DEF Types
  <2> QED BY <2>1, <2>2, <2>3
<1>2. /\ pieces \in Seq(Nat) /\ Len(pieces) = Len(sent) + 1
      /\ \A p \in 1..Len(sent) : pieces[p] = sent[p]
      /\ pieces[Len(sent) + 1] = piece
  BY <1>1, AppendProperties DEF Types
<1>3. lpc = "send" /\ UNCHANGED <<overwrite, seedrec, iOldest, iNext, mpc, read, copied, mOldest, iSend, lNext, lOldest>>
  BY DEF SendPiece, ring, main
<1>4. CASE Len(pieces) = Pieces
  <2>1. lpc' = "load" /\ sent' = <<>> /\ relayed' = Append(relayed, pieces)
    BY <1>4 DEF SendPiece
  <2>2. pieces \in [1..Pieces -> Nat]
    <3> HIDE DEF pieces
    <3> QED BY <1>2, <1>4, LenProperties
  <2>3. /\ relayed' \in Seq([1..Pieces -> Nat]) /\ Len(relayed') = Len(relayed) + 1
        /\ \A k \in 1..Len(relayed) : relayed'[k] = relayed[k]
        /\ relayed'[Len(relayed) + 1] = pieces
    BY <2>1, <2>2, AppendProperties DEF Types
  <2>4. Types'
    BY <1>3, <2>1, <2>3 DEF Types
  <2> HIDE DEF pieces
  <2> QED BY <1>2, <1>4, <2>1, <2>3, <2>4
<1>5. CASE Len(pieces) # Pieces
  <2>1. sent' = pieces /\ UNCHANGED <<lpc, relayed>>
    BY <1>5 DEF SendPiece
  <2>2. Len(pieces) < Pieces
    BY <1>1, <1>2, <1>5, RingAssumption
  <2> HIDE DEF pieces
  <2>3. Types'
    BY <1>2, <1>3, <2>1, <2>2 DEF Types
  <2> QED BY <1>2, <1>3, <2>1, <2>3
<1> QED BY <1>4, <1>5

-----------------------------------------------------------------------------
(* The steps of the main thread.                                           *)

LEMMA Distances ==
    ASSUME Types
    PROVE  /\ Dist(iOldest, iNext) \in 0..(iRecords - 1) /\ Dist(iOldest, lNext) \in 0..(iRecords - 1)
           /\ Written \in Nat
           /\ IsFull <=> Dist(iOldest, iNext) = iRecords - 1
BY DistRange, DistMoves, WrittenType DEF Types, IsFull

\* A step of the main thread that moves no index.
LEMMA MainMovesNone ==
    ASSUME AloneInv, RelayInv,
           UNCHANGED <<overwrite, iOldest, iNext, iSend, lNext, lOldest, lpc, sent, relayed>>,
           Written' = Written,
           mpc' = "copy" => mpc = "copy" \/ Dist(iOldest, iNext) < iRecords - 1,
           Alone => mpc' \notin {"load", "store"}
    PROVE  AloneInv' /\ RelayInv'
<1>1. Alone' <=> Alone
  BY DEF Alone
<1>2. AloneInv'
  BY <1>1 DEF AloneInv
<1>3. RelayInv'
  BY DEF RelayInv, SentOf
<1> QED BY <1>2, <1>3

LEMMA ReadKeeps == ASSUME RInv, Read PROVE RInv'
<1>1. Types'
  BY MainTypes DEF RInv, Main
<1>2. Written' = Written
  BY DEF RInv, Types, Read, Written
<1>3. RingInv'
  BY <1>2, RingKept DEF RInv, Read
<1>4. AloneInv' /\ RelayInv'
  BY <1>2, MainMovesNone DEF RInv, Read, listen
<1> QED BY <1>1, <1>3, <1>4 DEF RInv

LEMMA CheckKeeps == ASSUME RInv, Check PROVE RInv'
<1>1. Types'
  BY MainTypes DEF RInv, Main
<1>2. Written' = Written
  BY DEF Check, Written
<1>3. RingInv'
  <2>1. copied' = 0
    BY DEF RInv, Types, Check
  <2> QED BY <1>2, <2>1, RingKept DEF RInv, Check
<1>4. mpc' = "copy" => Dist(iOldest, iNext) < iRecords - 1
  <2>1. mpc' = "copy" => ~IsFull
    BY DEF Check
  <2> QED BY <2>1, Distances, RingAssumption DEF RInv
<1>5. Alone => mpc' \notin {"load", "store"}
  <2>1. SUFFICES ASSUME Alone, mpc' \in {"load", "store"} PROVE FALSE
    OBVIOUS
  <2>2. IsFull /\ overwrite
    BY <2>1 DEF Check
  <2>3. Written < iRecords - 1 /\ Dist(iOldest, iNext) <= Written
    BY <2>1, <2>2 DEF RInv, AloneInv, Alone
  <2> QED BY <2>2, <2>3, Distances, RingAssumption DEF RInv
<1>6. AloneInv' /\ RelayInv'
  BY <1>2, <1>4, <1>5, MainMovesNone DEF RInv, Check, listen
<1> QED BY <1>1, <1>3, <1>6 DEF RInv

\* The main thread removes a record only in a ring that has been full, with a depth.
LEMMA RemovalKeeps == ASSUME RInv, LoadOldest \/ StoreOldest PROVE RInv'
<1>1. Types'
  BY MainTypes DEF RInv, Main
<1>2. Written' = Written /\ UNCHANGED <<overwrite, seedrec, iNext, copied>> /\ mpc \in {"load", "store"}
  BY DEF LoadOldest, StoreOldest, Written
<1>3. RingInv'
  <2>1. copied' = 0
    BY <1>2 DEF RInv, Types
  <2> QED BY <1>2, <2>1, RingKept DEF RInv
<1>4. ~Alone
  BY <1>2 DEF RInv, AloneInv
<1>5. ~Alone' /\ overwrite'
  BY <1>2, <1>4 DEF Alone
<1> QED BY <1>1, <1>3, <1>5 DEF RInv, AloneInv, RelayInv

LEMMA CopyKeeps == ASSUME RInv, CopyPiece PROVE RInv'
<1>1. Types'
  BY MainTypes DEF RInv, Main
<1>2. RingInv' /\ Written' = Written
  BY CopyKeepsRing DEF RInv
<1>3. AloneInv' /\ RelayInv'
  BY <1>2, MainMovesNone DEF RInv, CopyPiece, listen
<1> QED BY <1>1, <1>2, <1>3 DEF RInv

LEMMA AdvanceKeeps == ASSUME RInv, Advance PROVE RInv'
<1>1. Types'
  BY MainTypes DEF RInv, Main
<1>2. RingInv' /\ Written' = Written + 1
  BY AdvanceKeepsRing DEF RInv
<1>3. UNCHANGED <<overwrite, iOldest, iSend, lNext, lOldest, lpc, sent, relayed>> /\ mpc = "copy" /\ mpc' = "read"
      /\ iNext' = After(iNext)
  BY DEF Advance, listen
<1>4. /\ Dist(iOldest, iNext) \in 0..(iRecords - 1) /\ Dist(iOldest, lNext) \in 0..(iRecords - 1)
      /\ Written \in Nat
  BY Distances DEF RInv
<1>5. Alone' => Alone
  BY <1>2, <1>3, <1>4, RingAssumption DEF Alone
<1>6. Alone => Dist(iOldest', iNext') = Dist(iOldest, iNext) + 1
  BY <1>3, DistMoves DEF RInv, Types, AloneInv
<1>7. AloneInv'
  BY <1>2, <1>3, <1>4, <1>5, <1>6 DEF RInv, AloneInv
<1>8. RelayInv'
  <2>1. SUFFICES ASSUME ~overwrite PROVE RelayInv'
    BY <1>3 DEF RelayInv
  <2>2. Alone
    BY <2>1 DEF Alone
  <2>3. Written' - Dist(iOldest', iNext') = Written - Dist(iOldest, iNext)
    BY <1>2, <1>4, <1>6, <2>2
  <2>4. SentOf' = SentOf
    BY <1>3 DEF SentOf
  <2> QED BY <1>3, <2>1, <2>3, <2>4 DEF RInv, RelayInv
<1> QED BY <1>1, <1>2, <1>7, <1>8 DEF RInv

LEMMA EndKeeps == ASSUME RInv, End PROVE RInv'
<1>1. Types'
  BY MainTypes DEF RInv
<1>2. Written' = Written
  BY DEF End, Written
<1>3. RingInv'
  BY <1>2, RingKept DEF RInv, End
<1>4. Alone' <=> Alone
  BY <1>2 DEF Alone, End
<1>5. AloneInv'
  BY <1>2, <1>4 DEF RInv, AloneInv, End
<1>6. RelayInv'
  BY DEF RInv, RelayInv, End
<1> QED BY <1>1, <1>3, <1>5, <1>6 DEF RInv

-----------------------------------------------------------------------------
(* The steps of the listening thread.                                      *)

\* A step that leaves the ring and the main thread alone.
LEMMA ListenLeaves ==
    ASSUME RingInv, UNCHANGED ring, UNCHANGED main, UNCHANGED overwrite
    PROVE  RingInv' /\ Written' = Written /\ (Alone' <=> Alone)
<1>1. Written' = Written /\ UNCHANGED <<seedrec, iNext, mpc, copied, read, overwrite>>
  BY DEF Written, ring, main
<1>2. RingInv'
  BY <1>1, RingKept
<1> QED BY <1>1, <1>2 DEF Alone

\* One that sends nothing either, and takes no record for sent.
LEMMA ListenSendsNone ==
    ASSUME RelayInv, UNCHANGED ring, UNCHANGED main, UNCHANGED <<overwrite, relayed>>,
           SentOf' = SentOf, lpc # "ended", lpc' = "send" => sent' = <<>>
    PROVE  RelayInv'
<1>1. Written' = Written
  BY DEF Written, main
<1> QED BY <1>1 DEF RelayInv, ring

LEMMA WaitingKeeps ==
    ASSUME RInv, Accept \/ LoadNext \/ Compare \/ KeepaliveFails \/ Pick \/ SendFails \/ LoadSent
    PROVE  RInv'
<1>1. Types'
  BY ListenTypes DEF RInv
<1>2. UNCHANGED ring /\ UNCHANGED main /\ UNCHANGED <<overwrite, relayed>>
  BY DEF Accept, LoadNext, Compare, KeepaliveFails, Pick, SendFails, LoadSent
<1>3. RingInv' /\ Written' = Written /\ (Alone' <=> Alone)
  BY <1>2, ListenLeaves DEF RInv
<1>4. UNCHANGED <<iOldest, iNext, mpc>>
  BY <1>2 DEF ring, main
<1>5. RelayInv'
  <2>1. SentOf' = SentOf /\ lpc # "ended"
    BY DEF Accept, LoadNext, Compare, KeepaliveFails, Pick, SendFails, LoadSent, SentOf
  <2>2. lpc' = "send" => sent' = <<>>
    BY DEF Accept, LoadNext, Compare, KeepaliveFails, Pick, SendFails, LoadSent, RInv, Types
  <2> QED BY <1>2, <2>1, <2>2, ListenSendsNone DEF RInv
<1>6. AloneInv'
  <2> USE <1>3, <1>4 DEF RInv, AloneInv
  <2>1. CASE Accept
    BY <2>1 DEF Accept
  <2>2. CASE LoadNext
    BY <2>2, Distances DEF LoadNext
  <2>3. CASE Compare
    <3>1. Alone /\ lpc' = "pick" => Dist(iOldest, iNext) > 0
      <4>1. SUFFICES ASSUME Alone, lpc' = "pick" PROVE Dist(iOldest, iNext) > 0
        OBVIOUS
      <4>2. lNext # iOldest /\ Dist(iOldest, lNext) <= Dist(iOldest, iNext)
        BY <2>3, <4>1 DEF Compare
      <4>3. Dist(iOldest, lNext) # 0
        BY <4>2, DistRange DEF Types
      <4> QED BY <4>2, <4>3, Distances, RingAssumption
    <3> QED BY <2>3, <3>1 DEF Compare
  <2>4. CASE KeepaliveFails
    BY <2>4 DEF KeepaliveFails
  <2>5. CASE Pick
    BY <2>5 DEF Pick
  <2>6. CASE SendFails
    BY <2>6 DEF SendFails
  <2>7. CASE LoadSent
    BY <2>7 DEF LoadSent
  <2> QED BY <2>1, <2>2, <2>3, <2>4, <2>5, <2>6, <2>7
<1> QED BY <1>1, <1>3, <1>5, <1>6 DEF RInv

\* While the main thread pauses when it has to, the slot being sent holds the
\* record that follows those sent.
LEMMA SendsTheNext ==
    ASSUME RInv, ~overwrite, lpc = "send"
    PROVE  /\ seedrec[iSend] = Whole(Len(relayed) + 1)
           /\ Len(relayed) = Written - Dist(iOldest, iNext)
<1> DEFINE d == Dist(iOldest, iNext)
<1>1. Alone
  BY DEF Alone
<1>2. iSend = iOldest /\ d > 0 /\ d <= Written
  BY <1>1 DEF RInv, AloneInv
<1>3. d \in 1..(iRecords - 1) /\ Written \in Nat
  BY <1>2, Distances, RingAssumption DEF RInv
<1>4. Back(iNext, d) = iOldest
  BY <1>2, BackIs, DistRange DEF RInv, Types
<1>5. seedrec[iSend] = Whole(Written - d + 1)
  BY <1>2, <1>3, <1>4 DEF RInv, RingInv
<1>6. Len(relayed) = Written - d
  <2>1. Len(relayed) = Written - d + 0
    BY DEF RInv, RelayInv, SentOf
  <2> QED BY <1>3, <2>1
<1> QED BY <1>5, <1>6

LEMMA SendKeeps == ASSUME RInv, SendPiece PROVE RInv'
<1>1. Types'
  BY PieceTypes DEF RInv
<1>2. UNCHANGED ring /\ UNCHANGED main /\ UNCHANGED <<overwrite, iSend, lNext, lOldest>> /\ lpc = "send"
  BY DEF SendPiece
<1>3. RingInv' /\ Written' = Written /\ (Alone' <=> Alone)
  BY <1>2, ListenLeaves DEF RInv
<1>4. UNCHANGED <<iOldest, iNext, mpc, seedrec>>
  BY <1>2 DEF ring, main
<1>5. lpc' \in {"send", "load"}
  BY PieceTypes DEF RInv
<1>6. AloneInv'
  BY <1>2, <1>3, <1>4, <1>5 DEF RInv, AloneInv
<1>7. RelayInv'
  <2>1. SUFFICES ASSUME ~overwrite PROVE RelayInv'
    BY <1>2 DEF RelayInv
  <2> DEFINE n == Len(relayed)
  <2>2. n \in Nat /\ Len(sent) \in Nat
    BY LenProperties DEF RInv, Types
  <2>3. seedrec[iSend] = Whole(n + 1) /\ n = Written - Dist(iOldest, iNext)
    BY <1>2, <2>1, SendsTheNext
  <2>4. /\ \A k \in 1..n : relayed[k] = Whole(k)
        /\ \A p \in 1..Len(sent) : sent[p] = n + 1
    BY <1>2, <2>1 DEF RInv, RelayInv
  <2>5. \A p \in 1..Pieces : seedrec[iSend][p] = n + 1
    BY <2>2, <2>3, WholeIs
  <2>6. CASE lpc' = "send"
    <3>1. Len(sent') = Len(sent) + 1 /\ relayed' = relayed /\ Len(sent) + 1 \in 1..Pieces
      <4>1. Len(sent) < Pieces
        BY <1>2 DEF RInv, Types
      <4>2. Len(sent) + 1 \in 1..Pieces
        BY <2>2, <4>1, RingAssumption
      <4> QED BY <2>6, <4>2, PieceTypes DEF RInv
    <3>2. /\ \A p \in 1..Len(sent) : sent'[p] = n + 1
          /\ sent'[Len(sent) + 1] = n + 1
      BY <2>4, <2>5, <2>6, <3>1, PieceTypes DEF RInv
    <3>3. \A p \in 1..(Len(sent) + 1) : p \in 1..Len(sent) \/ p = Len(sent) + 1
      BY <2>2
    <3>4. \A p \in 1..Len(sent') : sent'[p] = n + 1
      BY <3>1, <3>2, <3>3
    <3>5. SentOf' = 0 /\ SentOf = 0
      BY <1>2, <2>6 DEF SentOf
    <3>6. Len(relayed') = Written' - Dist(iOldest', iNext') + SentOf'
      BY <1>2, <1>3, <1>4, <2>1, <3>1, <3>5 DEF RInv, RelayInv
    <3> QED BY <2>4, <2>6, <3>1, <3>4, <3>6 DEF RelayInv
  <2>7. CASE lpc' # "send"
    <3>1. /\ lpc' = "load" /\ Len(sent) + 1 = Pieces
          /\ Len(relayed') = n + 1
          /\ \A k \in 1..n : relayed'[k] = relayed[k]
          /\ \A p \in 1..Len(sent) : relayed'[n + 1][p] = sent[p]
          /\ relayed'[n + 1][Pieces] = seedrec[iSend][Pieces]
      BY <2>7, PieceTypes DEF RInv
    <3>2. \A p \in 1..Pieces : p \in 1..Len(sent) \/ p = Pieces
      BY <2>2, <3>1
    <3>3. relayed'[n + 1] \in [1..Pieces -> Nat]
      <4>1. relayed' \in Seq([1..Pieces -> Nat])
        BY <1>1 DEF Types
      <4>2. n + 1 \in 1..Len(relayed')
        BY <2>2, <3>1
      <4> QED BY <4>1, <4>2, ElementOfSeq
    <3>4. \A p \in 1..Pieces : relayed'[n + 1][p] = n + 1
      <4>1. Pieces \in 1..Pieces
        BY RingAssumption
      <4> QED BY <2>4, <2>5, <3>1, <3>2, <4>1
    <3>5. relayed'[n + 1] = Whole(n + 1)
      BY <3>3, <3>4 DEF Whole
    <3>6. \A k \in 1..(n + 1) : k \in 1..n \/ k = n + 1
      BY <2>2
    <3>7. \A k \in 1..Len(relayed') : relayed'[k] = Whole(k)
      BY <2>4, <3>1, <3>5, <3>6
    <3>8. SentOf' = 1
      BY <3>1 DEF SentOf
    <3>9. Len(relayed') = Written' - Dist(iOldest', iNext') + SentOf'
      BY <1>3, <1>4, <2>3, <3>1, <3>8
    <3>10. \A k \in 1..Len(relayed') : relayed'[k] = (Whole(k))'
      BY <3>7 DEF Whole
    <3> QED BY <2>7, <3>9, <3>10 DEF RelayInv
  <2> QED BY <2>6, <2>7
<1> QED BY <1>1, <1>3, <1>6, <1>7 DEF RInv

LEMMA StoreSentKeeps == ASSUME RInv, StoreSent PROVE RInv'
<1>1. Types'
  BY ListenTypes DEF RInv
<1>2. /\ UNCHANGED <<overwrite, seedrec, iNext, mpc, read, copied, relayed>>
      /\ lpc = "store" /\ lpc' = "wait" /\ iOldest' = After(lOldest)
  BY DEF StoreSent, main
<1>3. Written' = Written
  BY <1>2 DEF Written
<1>4. RingInv'
  BY <1>2, <1>3, RingKept DEF RInv
<1>5. Alone' <=> Alone
  BY <1>2, <1>3 DEF Alone
<1>6. /\ Dist(iOldest, iNext) \in 0..(iRecords - 1) /\ Written \in Nat
      /\ Alone => Dist(iOldest', iNext') = Dist(iOldest, iNext) - 1
  BY <1>2, Distances, DistMoves DEF RInv, Types, AloneInv
<1>7. AloneInv'
  BY <1>2, <1>3, <1>5, <1>6, RingAssumption DEF RInv, AloneInv
<1>8. RelayInv'
  <2>1. SUFFICES ASSUME ~overwrite PROVE RelayInv'
    BY <1>2 DEF RelayInv
  <2>2. Len(relayed) = Written - Dist(iOldest, iNext) + 1
    BY <1>2, <2>1 DEF RInv, RelayInv, SentOf
  <2>3. Alone /\ SentOf' = 0
    BY <1>2, <2>1 DEF Alone, SentOf
  <2>4. Len(relayed') = Written' - Dist(iOldest', iNext') + SentOf'
    BY <1>2, <1>3, <1>6, <2>2, <2>3
  <2> QED BY <1>2, <2>1, <2>4 DEF RInv, RelayInv
<1> QED BY <1>1, <1>4, <1>7, <1>8 DEF RInv

-----------------------------------------------------------------------------
LEMMA StepKeeps == RInv /\ [Next]_vars => RInv'
<1> SUFFICES ASSUME RInv, [Next]_vars PROVE RInv'
  OBVIOUS
<1>1. CASE Main
  BY <1>1, ReadKeeps, CheckKeeps, RemovalKeeps, CopyKeeps, AdvanceKeeps DEF Main
<1>2. CASE End
  BY <1>2, EndKeeps
<1>3. CASE Accept \/ KeepaliveFails \/ SendFails
  BY <1>3, WaitingKeeps
<1>4. CASE Listen
  BY <1>4, WaitingKeeps, SendKeeps, StoreSentKeeps DEF Listen
<1>5. CASE UNCHANGED vars
  <2>1. UNCHANGED ring /\ UNCHANGED main /\ UNCHANGED <<overwrite, lpc, iSend, sent, lNext, lOldest, relayed>>
    BY <1>5 DEF vars, ring, main
  <2>2. RingInv' /\ Written' = Written /\ (Alone' <=> Alone)
    BY <2>1, ListenLeaves DEF RInv
  <2>3. Types'
    BY <2>1 DEF RInv, Types, ring, main
  <2>4. AloneInv'
    BY <2>1, <2>2 DEF RInv, AloneInv, ring, main
  <2>5. RelayInv'
    BY <2>1, <2>2 DEF RInv, RelayInv, SentOf, ring
  <2> QED BY <2>2, <2>3, <2>4, <2>5 DEF RInv
<1> QED BY <1>1, <1>2, <1>3, <1>4, <1>5 DEF Next

\* What the threads know of each other is enough: the slots outside the record
\* being written hold the records written last, and without a depth the indices
\* never pass each other.
THEOREM RingInvariance == Spec => []RInv
<1>1. Init => RInv
  BY InitRInv
<1>2. RInv /\ [Next]_vars => RInv'
  BY StepKeeps
<1> QED BY <1>1, <1>2, PTL DEF Spec

LEMMA HoldsFromInvariant == RInv => HoldsLastRecords
<1> SUFFICES ASSUME RInv PROVE HoldsLastRecords
  OBVIOUS
<1> DEFINE n == Dist(iOldest, iNext)
<1>1. (iNext - iOldest) % iRecords = n
  BY DistIs DEF RInv, Types
<1>2. n \in 0..(iRecords - 1) /\ Written \in Nat
  BY Distances DEF RInv
<1>3. n <= Written
  <2>1. CASE Alone
    BY <2>1 DEF RInv, AloneInv
  <2>2. CASE ~Alone
    BY <1>2, <2>2, RingAssumption DEF Alone
  <2> QED BY <2>1, <2>2
<1>4. ASSUME NEW k \in 1..n
      PROVE  seedrec[(iOldest + k - 1) % iRecords] = Whole(Written - n + k)
  <2>1. (iOldest + k - 1) % iRecords = Back(iNext, n - k + 1)
    BY BackCounts DEF RInv, Types
  <2>2. n - k + 1 \in 1..(iRecords - 1) /\ n - k + 1 <= Written
    BY <1>2, <1>3, RingAssumption
  <2>3. seedrec[Back(iNext, n - k + 1)] = Whole(Written - (n - k + 1) + 1)
    BY <2>2 DEF RInv, RingInv
  <2>4. Written - (n - k + 1) + 1 = Written - n + k
    BY <1>2
  <2> QED BY <2>1, <2>3, <2>4
<1> HIDE DEF n
<1> QED BY <1>1, <1>3, <1>4 DEF HoldsLastRecords

\* In both modes, and whatever becomes of the unprotected updates of iOldest, the
\* slots between the indices hold whole records, the last ones read, in order.
THEOREM RingHoldsLast == Spec => []HoldsLastRecords
BY RingInvariance, HoldsFromInvariant, PTL

\* When the main thread pauses on a full ring, the client gets every record once,
\* whole and in order, however often it connects again.
THEOREM PausedRelayLosesNothing == Spec => []RelaysAll
<1>1. RInv => RelaysAll
  BY DEF RInv, RelayInv, RelaysAll
<1> QED BY <1>1, RingInvariance, PTL

-----------------------------------------------------------------------------
(* Both modes, as long as no removal has met a sending or another removal. *)

Held == Dist(iOldest, iNext)

\* The main thread removes from a full ring the record it has looked at, and the
\* listening thread sends and removes the oldest one, which is there.
PlaceInv ==
    ~crossed =>
        /\ mpc = "copy" => Held < iRecords - 1
        /\ mpc \in {"load", "store"} => Held = iRecords - 1
        /\ mpc = "store" => mOldest = iOldest
        /\ lpc \in {"pick", "send", "load", "store"} => Held > 0
        /\ lpc \in {"send", "load", "store"} => iSend = iOldest
        /\ lpc = "store" => lOldest = iOldest
        /\ lpc = "compare" /\ Held = 0 => lNext = iOldest

\* What has been sent are whole records with increasing numbers, none later than the
\* oldest record of the ring and that one only until it is removed.
SentInv ==
    ~crossed =>
        /\ \A k \in 1..Len(relayed) :
            /\ relayed[k] = Whole(relayed[k][1]) /\ relayed[k][1] \in 1..MaxRecords
            /\ lpc # "ended" => relayed[k][1] <= Written - Held + SentOf
            /\ k > 1 => relayed[k][1] > relayed[k - 1][1]
        /\ lpc = "send" => \A p \in 1..Len(sent) : sent[p] = Written - Held + 1

CInv == RInv /\ read <= MaxRecords /\ PlaceInv /\ SentInv

LEMMA HeldFacts ==
    ASSUME RInv
    PROVE  Held \in 0..(iRecords - 1) /\ Written \in Nat /\ Held <= Written
           /\ (IsFull <=> Held = iRecords - 1) /\ (Held = 0 <=> iNext = iOldest)
<1>1. /\ Held \in 0..(iRecords - 1) /\ Written \in Nat
      /\ IsFull <=> Held = iRecords - 1
  BY Distances DEF RInv, Held
<1>2. Held = 0 <=> iNext = iOldest
  BY DistRange DEF RInv, Types, Held
<1>3. Held <= Written
  <2>1. CASE Alone
    BY <2>1 DEF RInv, AloneInv, Held
  <2>2. CASE ~Alone
    BY <1>1, <2>2, RingAssumption DEF Alone
  <2> QED BY <2>1, <2>2
<1> QED BY <1>1, <1>2, <1>3

LEMMA PlaceStep == ASSUME CInv, [Next]_vars PROVE PlaceInv'
<1> SUFFICES ASSUME ~crossed' PROVE PlaceInv'
  BY DEF PlaceInv
<1>0. /\ Held \in 0..(iRecords - 1) /\ Written \in Nat /\ iRecords \in Nat /\ iRecords > 2
      /\ IsFull <=> Held = iRecords - 1
      /\ Held = 0 <=> iNext = iOldest
      /\ iOldest \in Slot /\ iNext \in Slot /\ mOldest \in Slot /\ lOldest \in Slot
      /\ copied \in 0..Pieces
  BY HeldFacts, RingAssumption DEF CInv, RInv, Types
<1>1. ~crossed
  BY DEF Next, Main, Listen, Read, Check, LoadOldest, StoreOldest, CopyPiece, Advance, End, Accept, LoadNext,
         Compare, KeepaliveFails, Pick, SendPiece, SendFails, LoadSent, StoreSent, vars
<1>2. /\ mpc = "copy" => Held < iRecords - 1
      /\ mpc \in {"load", "store"} => Held = iRecords - 1
      /\ mpc = "store" => mOldest = iOldest
      /\ lpc \in {"pick", "send", "load", "store"} => Held > 0
      /\ lpc \in {"send", "load", "store"} => iSend = iOldest
      /\ lpc = "store" => lOldest = iOldest
      /\ lpc = "compare" /\ Held = 0 => lNext = iOldest
  BY <1>1 DEF CInv, PlaceInv
<1>3. UNCHANGED <<iOldest, iNext>> => Held' = Held
  BY DEF Held
<1>4. CASE StoreOldest
  <2>1. Held' = iRecords - 2
    BY <1>0, <1>2, <1>4, DistMoves DEF StoreOldest, Held
  <2>2. lpc' = lpc /\ lpc \notin {"send", "load", "store"} /\ mpc' = "copy"
    BY <1>4 DEF StoreOldest, listen
  <2> QED BY <1>0, <2>1, <2>2 DEF PlaceInv
<1>5. CASE Advance
  <2>1. Held' = Held + 1
    BY <1>0, <1>2, <1>5, DistMoves DEF Advance, Held
  <2>2. mpc' = "read" /\ UNCHANGED <<lpc, iSend, lOldest, lNext, iOldest>>
    BY <1>5 DEF Advance, listen
  <2> QED BY <1>0, <1>2, <2>1, <2>2 DEF PlaceInv
<1>6. CASE StoreSent
  <2>1. Held' = Held - 1
    BY <1>0, <1>2, <1>6, DistMoves DEF StoreSent, Held
  <2>2. mpc' = mpc /\ mpc \notin {"load", "store"} /\ lpc' = "wait"
    BY <1>6 DEF StoreSent, main
  <2> QED BY <1>0, <1>2, <2>1, <2>2 DEF PlaceInv
<1>7. CASE Read \/ Check \/ LoadOldest \/ CopyPiece \/ End
  BY <1>0, <1>2, <1>3, <1>7 DEF Read, Check, LoadOldest, CopyPiece, End, listen, PlaceInv
<1>8. CASE Accept \/ LoadNext \/ Compare \/ KeepaliveFails \/ Pick
  BY <1>0, <1>2, <1>3, <1>8 DEF Accept, LoadNext, Compare, KeepaliveFails, Pick, ring, main, PlaceInv
<1>9. CASE SendPiece \/ SendFails \/ LoadSent
  <2>1. /\ UNCHANGED <<iOldest, iNext, mpc, mOldest, iSend>> /\ lpc \in {"send", "load"}
        /\ lpc' \in {"send", "load", "store", "accept"}
        /\ lpc' = "store" => lOldest' = iOldest
        /\ lpc' = "load" => lpc = "send"
    BY <1>9 DEF SendPiece, SendFails, LoadSent, ring, main
  <2> QED BY <1>0, <1>2, <1>3, <2>1 DEF PlaceInv
<1>10. CASE UNCHANGED vars
  BY <1>2, <1>3, <1>10 DEF vars, PlaceInv
<1> QED BY <1>4, <1>5, <1>6, <1>7, <1>8, <1>9, <1>10 DEF Next, Main, Listen

\* A step that sends nothing, and after which the oldest record is no earlier.
LEMMA SentKept ==
    ASSUME CInv, ~crossed, UNCHANGED relayed, lpc = "ended" => lpc' = "ended",
           lpc' # "ended" => Written - Held + SentOf <= Written' - Held' + SentOf',
           Written - Held + SentOf \in Int, Written' - Held' + SentOf' \in Int,
           lpc' = "send" => \/ sent' = <<>>
                            \/ lpc = "send" /\ sent' = sent /\ Written' - Held' = Written - Held
    PROVE  SentInv'
<1>1. /\ \A k \in 1..Len(relayed) :
            /\ relayed[k] = Whole(relayed[k][1]) /\ relayed[k][1] \in 1..MaxRecords
            /\ lpc # "ended" => relayed[k][1] <= Written - Held + SentOf
            /\ k > 1 => relayed[k][1] > relayed[k - 1][1]
      /\ lpc = "send" => \A p \in 1..Len(sent) : sent[p] = Written - Held + 1
  BY DEF CInv, SentInv
<1>2. ASSUME NEW k \in 1..Len(relayed), lpc' # "ended"
      PROVE  relayed[k][1] <= Written' - Held' + SentOf'
  <2>1. relayed[k][1] \in Int /\ relayed[k][1] <= Written - Held + SentOf
    <3>1. relayed[k][1] \in 1..MaxRecords
      BY <1>1
    <3>2. relayed[k][1] \in Int
      BY <3>1, BoundAssumption
    <3> QED BY <1>1, <1>2, <3>2
  <2> QED BY <1>2, <2>1
<1>3. lpc' = "send" => \A p \in 1..Len(sent') : sent'[p] = Written' - Held' + 1
  BY <1>1
<1> QED BY <1>1, <1>2, <1>3 DEF SentInv

\* As long as nothing has crossed, the slot being sent holds the oldest record, whose
\* number is later than those sent.
LEMMA SendsTheOldest ==
    ASSUME CInv, ~crossed, lpc = "send"
    PROVE  /\ seedrec[iSend] = Whole(Written - Held + 1)
           /\ Written - Held + 1 \in 1..MaxRecords
           /\ \A k \in 1..Len(relayed) : relayed[k][1] < Written - Held + 1
<1>1. /\ Held \in 0..(iRecords - 1) /\ Written \in Nat /\ Held <= Written
      /\ iSend = iOldest /\ Held > 0
  BY HeldFacts DEF CInv, PlaceInv
<1>2. Held \in 1..(iRecords - 1)
  BY <1>1, RingAssumption
<1>3. Back(iNext, Held) = iOldest
  BY <1>1, BackIs, DistRange DEF CInv, RInv, Types, Held
<1>4. seedrec[iSend] = Whole(Written - Held + 1)
  BY <1>1, <1>2, <1>3 DEF CInv, RInv, RingInv
<1>5. Written <= MaxRecords
  <2>1. Written <= read /\ read \in Nat
    BY DEF CInv, RInv, Types, Written
  <2> QED BY <1>1, <2>1, BoundAssumption DEF CInv
<1>6. Written - Held + 1 \in 1..MaxRecords
  BY <1>1, <1>2, <1>5, RingAssumption, BoundAssumption
<1>7. ASSUME NEW k \in 1..Len(relayed) PROVE relayed[k][1] < Written - Held + 1
  <2>1. relayed[k][1] \in 1..MaxRecords /\ relayed[k][1] <= Written - Held + SentOf
    BY DEF CInv, SentInv
  <2>2. SentOf = 0
    BY DEF SentOf
  <2>3. relayed[k][1] \in Int
    BY <2>1, BoundAssumption
  <2> QED BY <1>1, <2>1, <2>2, <2>3, RingAssumption
<1> QED BY <1>4, <1>6, <1>7

LEMMA SendPieceKeepsSent == ASSUME CInv, ~crossed, SendPiece PROVE SentInv'
<1> DEFINE m == Len(relayed)
<1>0. /\ Types /\ lpc = "send" /\ m \in Nat /\ Len(sent) \in Nat /\ Pieces \in Nat /\ Pieces > 0
  <2>1. Types /\ lpc = "send"
    BY DEF CInv, RInv, SendPiece
  <2>2. m \in Nat /\ Len(sent) \in Nat
    BY <2>1, LenProperties DEF Types
  <2> QED BY <2>1, <2>2, RingAssumption
<1>1. UNCHANGED <<seedrec, iOldest, iNext, mpc, read, iSend>>
  BY DEF SendPiece, ring, main
<1>2. Written' = Written /\ Held' = Held
  BY <1>1 DEF Written, Held
<1>3. PICK n \in 1..MaxRecords :
        /\ n = Written - Held + 1 /\ seedrec[iSend] = Whole(n)
        /\ \A k \in 1..m : relayed[k][1] < n
  BY <1>0, SendsTheOldest
<1>4. n \in Nat /\ \A p \in 1..Pieces : seedrec[iSend][p] = n
  BY <1>3, WholeIs, BoundAssumption
<1>5. /\ \A k \in 1..m :
            /\ relayed[k] = Whole(relayed[k][1]) /\ relayed[k][1] \in 1..MaxRecords
            /\ k > 1 => relayed[k][1] > relayed[k - 1][1]
      /\ \A p \in 1..Len(sent) : sent[p] = n
  BY <1>0, <1>3 DEF CInv, SentInv
<1>6. CASE lpc' = "send"
  <2>1. /\ Len(sent') = Len(sent) + 1 /\ relayed' = relayed /\ Len(sent) + 1 \in 1..Pieces
        /\ \A p \in 1..Len(sent) : sent'[p] = sent[p]
        /\ sent'[Len(sent) + 1] = seedrec[iSend][Len(sent) + 1]
    <3>1. Len(sent) < Pieces
      BY <1>0 DEF Types
    <3>2. Len(sent) + 1 \in 1..Pieces
      BY <1>0, <3>1
    <3> QED BY <1>0, <1>6, <3>2, PieceTypes
  <2>2. \A p \in 1..(Len(sent) + 1) : p \in 1..Len(sent) \/ p = Len(sent) + 1
    BY <1>0
  <2>3. \A p \in 1..Len(sent') : sent'[p] = n
    BY <1>4, <1>5, <2>1, <2>2
  <2>4. SentOf' = 0 /\ SentOf = 0
    BY <1>0, <1>6 DEF SentOf
  <2>5. \A k \in 1..m : relayed[k][1] <= Written - Held + SentOf
    BY <1>0 DEF CInv, SentInv
  <2> HIDE DEF m
  <2> QED BY <1>2, <1>3, <1>5, <2>1, <2>3, <2>4, <2>5 DEF SentInv, m
<1>7. CASE lpc' # "send"
  <2>1. /\ lpc' = "load" /\ Len(sent) + 1 = Pieces /\ Types'
        /\ Len(relayed') = m + 1
        /\ \A k \in 1..m : relayed'[k] = relayed[k]
        /\ \A p \in 1..Len(sent) : relayed'[m + 1][p] = sent[p]
        /\ relayed'[m + 1][Pieces] = seedrec[iSend][Pieces]
    BY <1>0, <1>7, PieceTypes
  <2>2. \A p \in 1..Pieces : p \in 1..Len(sent) \/ p = Pieces
    BY <1>0, <2>1
  <2>3. relayed'[m + 1] \in [1..Pieces -> Nat]
    <3>1. relayed' \in Seq([1..Pieces -> Nat])
      BY <2>1 DEF Types
    <3>2. m + 1 \in 1..Len(relayed')
      BY <1>0, <2>1
    <3> QED BY <3>1, <3>2, ElementOfSeq
  <2>4. \A p \in 1..Pieces : relayed'[m + 1][p] = n
    <3>1. Pieces \in 1..Pieces
      BY <1>0
    <3> QED BY <1>4, <1>5, <2>1, <2>2, <3>1
  <2>5. relayed'[m + 1] = Whole(n) /\ relayed'[m + 1][1] = n
    <3>1. 1 \in 1..Pieces
      BY <1>0
    <3> QED BY <2>3, <2>4, <3>1 DEF Whole
  <2>6. \A k \in 1..(m + 1) : k \in 1..m \/ k = m + 1
    BY <1>0
  <2>7. SentOf' = 1
    BY <2>1 DEF SentOf
  <2>8. Written - Held \in Int
    BY HeldFacts, RingAssumption DEF CInv
  <2>9. Written' - Held' + SentOf' = n
    BY <1>2, <1>3, <2>7, <2>8
  <2>10. ASSUME NEW k \in 1..(m + 1)
         PROVE  /\ relayed'[k] = Whole(relayed'[k][1]) /\ relayed'[k][1] \in 1..MaxRecords
                /\ relayed'[k][1] <= n
                /\ k > 1 => relayed'[k][1] > relayed'[k - 1][1]
    <3>1. CASE k \in 1..m
      <4>1. relayed'[k] = relayed[k] /\ (k > 1 => k - 1 \in 1..m /\ relayed'[k - 1] = relayed[k - 1])
        BY <1>0, <2>1, <3>1
      <4>2. relayed[k][1] \in Int /\ relayed[k][1] <= n
        <5>1. relayed[k][1] < n /\ relayed[k][1] \in 1..MaxRecords
          BY <1>3, <1>5, <3>1
        <5> QED BY <1>4, <5>1, BoundAssumption
      <4> QED BY <1>5, <3>1, <4>1, <4>2
    <3>2. CASE k = m + 1
      <4>1. k > 1 => k - 1 \in 1..m /\ k - 1 = m
        BY <1>0, <3>2
      <4>2. k > 1 => relayed'[k - 1][1] < n
        BY <1>3, <2>1, <4>1
      <4>3. n > 0 /\ n <= n
        BY <1>3, <1>4
      <4> QED BY <1>3, <2>5, <3>2, <4>2, <4>3
    <3> QED BY <2>6, <3>1, <3>2
  <2> HIDE DEF m
  <2> QED BY <2>1, <2>9, <2>10 DEF SentInv
<1> QED BY <1>6, <1>7

LEMMA SentStep == ASSUME CInv, [Next]_vars PROVE SentInv'
<1> SUFFICES ASSUME ~crossed' PROVE SentInv'
  BY DEF SentInv
<1>0. /\ Held \in Int /\ Written \in Int /\ SentOf \in Int
      /\ Held \in 0..(iRecords - 1) /\ iRecords \in Nat /\ iRecords > 2
      /\ iOldest \in Slot /\ iNext \in Slot /\ mOldest \in Slot /\ lOldest \in Slot
  <2>1. /\ Held \in 0..(iRecords - 1) /\ Written \in Nat /\ iRecords \in Nat /\ iRecords > 2
    BY HeldFacts, RingAssumption DEF CInv
  <2>2. Held \in Int /\ Written \in Int /\ SentOf \in Int
    BY <2>1 DEF SentOf
  <2>3. iOldest \in Slot /\ iNext \in Slot /\ mOldest \in Slot /\ lOldest \in Slot
    BY DEF CInv, RInv, Types
  <2> QED BY <2>1, <2>2, <2>3
<1>1. ~crossed
  BY DEF Next, Main, Listen, Read, Check, LoadOldest, StoreOldest, CopyPiece, Advance, End, Accept, LoadNext,
         Compare, KeepaliveFails, Pick, SendPiece, SendFails, LoadSent, StoreSent, vars
<1>2. /\ mpc = "copy" => Held < iRecords - 1
      /\ mpc \in {"load", "store"} => Held = iRecords - 1
      /\ mpc = "store" => mOldest = iOldest
      /\ lpc \in {"pick", "send", "load", "store"} => Held > 0
      /\ lpc = "store" => lOldest = iOldest
  BY <1>1 DEF CInv, PlaceInv
<1>3. UNCHANGED <<iOldest, iNext>> => Held' = Held
  BY DEF Held
<1>4. CASE Read \/ Check \/ LoadOldest \/ CopyPiece \/ UNCHANGED vars
  <2>1. Written' = Written
    BY <1>4 DEF Read, Check, LoadOldest, CopyPiece, vars, Written, CInv, RInv, Types
  <2>2. UNCHANGED <<iOldest, iNext, relayed, sent, lpc>>
    BY <1>4 DEF Read, Check, LoadOldest, CopyPiece, vars, listen
  <2>3. SentOf' = SentOf /\ Held' = Held
    BY <1>3, <2>2 DEF SentOf
  <2> QED BY <1>0, <1>1, <2>1, <2>2, <2>3, SentKept
<1>5. CASE StoreOldest
  <2>1. Held' = Held - 1
    BY <1>0, <1>2, <1>5, DistMoves DEF StoreOldest, Held
  <2>2. UNCHANGED <<relayed, sent, lpc>> /\ lpc # "send"
    BY <1>5 DEF StoreOldest, listen
  <2>3. Written' = Written /\ SentOf' = SentOf
    BY <1>5, <2>2 DEF StoreOldest, Written, SentOf
  <2>4. /\ Written - Held + SentOf <= Written' - Held' + SentOf'
        /\ Written - Held + SentOf \in Int /\ Written' - Held' + SentOf' \in Int
    BY <1>0, <2>1, <2>3
  <2> QED BY <1>1, <2>2, <2>4, SentKept
<1>6. CASE Advance
  <2>1. Held' = Held + 1
    BY <1>0, <1>2, <1>6, DistMoves DEF Advance, Held
  <2>2. UNCHANGED <<relayed, sent, lpc>>
    BY <1>6 DEF Advance, listen
  <2>3. Written' = Written + 1 /\ SentOf' = SentOf
    BY <1>6, <2>2, AdvanceKeepsRing DEF CInv, RInv, SentOf
  <2>4. /\ Written - Held + SentOf <= Written' - Held' + SentOf' /\ Written' - Held' = Written - Held
        /\ Written - Held + SentOf \in Int /\ Written' - Held' + SentOf' \in Int
    BY <1>0, <2>1, <2>3
  <2> QED BY <1>1, <2>2, <2>4, SentKept
<1>7. CASE End
  <2>1. UNCHANGED relayed /\ lpc' = "ended"
    BY <1>7 DEF End
  <2>2. Written' = Written /\ Held' = Held /\ SentOf' = 0
    BY <1>7, <2>1 DEF End, Written, Held, SentOf
  <2>3. Written' - Held' + SentOf' \in Int /\ Written - Held + SentOf \in Int
    BY <1>0, <2>2
  <2> QED BY <1>1, <2>1, <2>3, SentKept
<1>8. CASE Accept \/ LoadNext \/ Compare \/ KeepaliveFails \/ Pick \/ SendFails \/ LoadSent
  <2>1. /\ UNCHANGED <<iOldest, iNext, mpc, read, relayed>> /\ lpc # "ended"
        /\ SentOf' = SentOf
    BY <1>8 DEF Accept, LoadNext, Compare, KeepaliveFails, Pick, SendFails, LoadSent, ring, main, SentOf
  <2>2. lpc' = "send" => sent' = <<>>
    BY <1>8 DEF Accept, LoadNext, Compare, KeepaliveFails, Pick, SendFails, LoadSent, CInv, RInv, Types
  <2>3. Written' = Written /\ Held' = Held
    BY <2>1 DEF Written, Held
  <2> QED BY <1>0, <1>1, <2>1, <2>2, <2>3, SentKept
<1>9. CASE StoreSent
  <2>1. Held' = Held - 1
    BY <1>0, <1>2, <1>9, DistMoves DEF StoreSent, Held
  <2>2. UNCHANGED relayed /\ lpc = "store" /\ lpc' = "wait"
    BY <1>9 DEF StoreSent
  <2>3. Written' = Written /\ SentOf' = 0 /\ SentOf = 1
    BY <1>9, <2>2 DEF StoreSent, Written, SentOf, main
  <2>4. /\ Written - Held + SentOf <= Written' - Held' + SentOf'
        /\ Written - Held + SentOf \in Int /\ Written' - Held' + SentOf' \in Int
    BY <1>0, <2>1, <2>3
  <2> QED BY <1>1, <2>2, <2>4, SentKept
<1>10. CASE SendPiece
  BY <1>1, <1>10, SendPieceKeepsSent
<1> QED BY <1>4, <1>5, <1>6, <1>7, <1>8, <1>9, <1>10 DEF Next, Main, Listen

\* With a depth as well, the client gets whole records, each later than the one
\* before, unless a removal has fallen into a sending or into the other removal.
THEOREM OverwritingOnlySkips == Spec => []SkipsOnly
<1>1. Init => CInv
  <2> SUFFICES ASSUME Init PROVE CInv
    OBVIOUS
  <2>1. RInv /\ Held = 0
    BY InitRInv DEF Init, Held, Dist
  <2>2. PlaceInv
    BY <2>1, RingAssumption DEF Init, PlaceInv
  <2>3. SentInv /\ read <= MaxRecords
    BY BoundAssumption DEF Init, SentInv
  <2> QED BY <2>1, <2>2, <2>3 DEF CInv
<1>2. CInv /\ [Next]_vars => CInv'
  <2> SUFFICES ASSUME CInv, [Next]_vars PROVE CInv'
    OBVIOUS
  <2>1. RInv'
    BY StepKeeps DEF CInv
  <2>2. read' <= MaxRecords
    <3>1. read \in Nat /\ read <= MaxRecords
      BY DEF CInv, RInv, Types
    <3>2. read' = read \/ (read' = read + 1 /\ read < MaxRecords)
      BY DEF Next, Main, Listen, Read, Check, LoadOldest, StoreOldest, CopyPiece, Advance, End, Accept,
             LoadNext, Compare, KeepaliveFails, Pick, SendPiece, SendFails, LoadSent, StoreSent, vars, main
    <3> QED BY <3>1, <3>2, BoundAssumption
  <2> QED BY <2>1, <2>2, PlaceStep, SentStep DEF CInv
<1>3. CInv => SkipsOnly
  BY DEF CInv, SentInv, SkipsOnly
<1> QED BY <1>1, <1>2, <1>3, PTL DEF Spec
=============================================================================
