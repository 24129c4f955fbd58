------------------------------ MODULE LissRelay ------------------------------
(***************************************************************************)
(* ida2liss/ida2liss.c: relays records of the IDA disk loop to one LISS    *)
(* client.  The main thread puts the records it reads into a ring; the     *)
(* listening thread sends them.  They share the ring and its two indices   *)
(* without a lock: each load and store of an index that the other thread   *)
(* may change is a step here, and so is each piece of a record that        *)
(* memcpy or send takes.  Stores are seen in program order.                *)
(*                                                                         *)
(* With depth = -1 the main thread pauses when the ring is full; with a    *)
(* depth it removes the oldest record, so that both threads move iOldest.  *)
(***************************************************************************)
EXTENDS Integers, Sequences

CONSTANTS
    iRecords,    \* slots of the ring
    Pieces,      \* pieces of a record
    MaxRecords,  \* bound on records read
    MaxFaults    \* bound on lost connections

ASSUME RingAssumption == iRecords \in Nat /\ iRecords > 2 /\ Pieces \in Nat \ {0}
ASSUME BoundAssumption == MaxRecords \in Nat /\ MaxFaults \in Nat

VARIABLES
    overwrite,          \* depth >= 0
    \* shared
    seedrec, iOldest, iNext,
    \* main thread
    mpc, read,          \* the number of the record it has read
    copied, mOldest,    \* pieces copied; the value of iOldest it has loaded
    \* listening thread
    lpc, iSend, sent,   \* the slot it sends, the pieces sent
    lNext, lOldest,     \* the values of the indices it has loaded
    faults,
    \* history
    relayed,            \* the records sent, each as its pieces
    crossed             \* both threads were once moving iOldest, or one was while the other sent

ring == <<seedrec, iOldest, iNext>>
main == <<mpc, read, copied, mOldest>>
listen == <<lpc, iSend, sent, lNext, lOldest, relayed, faults>>
vars == <<overwrite, seedrec, iOldest, iNext, mpc, read, copied, mOldest, lpc, iSend, sent, lNext,
          lOldest, faults, relayed, crossed>>

Slot == 0..(iRecords - 1)
After(i) == (i + 1) % iRecords
IsFull == After(iNext) = iOldest

-----------------------------------------------------------------------------
(* raw, in the main thread.                                                *)

\* A record of the channels asked for arrives.
Read ==
    /\ mpc = "read" /\ read < MaxRecords
    /\ read' = read + 1 /\ mpc' = "check"
    /\ UNCHANGED <<overwrite, seedrec, iOldest, iNext, copied, mOldest, crossed>> /\ UNCHANGED listen

\* A slip a maintainer could make here, for the mutation checks.
CheckWithoutPause ==
    /\ mpc = "check"
    /\ mpc' = IF IsFull /\ overwrite THEN "load" ELSE "copy"
    /\ UNCHANGED <<overwrite, seedrec, iOldest, iNext, read, copied, mOldest, crossed>> /\ UNCHANGED listen
\* Unless it overwrites, the thread stays here as long as the ring is full.
Check ==
    /\ mpc = "check"
    /\ IsFull => overwrite
    /\ mpc' = IF IsFull THEN "load" ELSE "copy"
    /\ UNCHANGED <<overwrite, seedrec, iOldest, iNext, read, copied, mOldest, crossed>> /\ UNCHANGED listen

\* The oldest record is removed: a load and a store.
LoadOldest ==
    /\ mpc = "load"
    /\ mOldest' = iOldest /\ mpc' = "store"
    /\ UNCHANGED <<overwrite, seedrec, iOldest, iNext, read, copied, crossed>> /\ UNCHANGED listen
StoreOldest ==
    /\ mpc = "store"
    /\ iOldest' = After(mOldest) /\ mpc' = "copy"
    /\ crossed' = (crossed \/ lpc \in {"send", "load", "store"})
    /\ UNCHANGED <<overwrite, seedrec, iNext, read, copied, mOldest>> /\ UNCHANGED listen

CopyPiece ==
    /\ mpc = "copy" /\ copied < Pieces
    /\ seedrec' = [seedrec EXCEPT ![iNext][copied + 1] = read]
    /\ copied' = copied + 1
    /\ UNCHANGED <<overwrite, iOldest, iNext, mpc, read, mOldest, crossed>> /\ UNCHANGED listen

\* A slip a maintainer could make here, for the mutation checks.
AdvanceEarly ==
    /\ mpc = "copy" /\ copied = Pieces - 1
    /\ iNext' = After(iNext)
    /\ mpc' = "read" /\ copied' = 0
    /\ UNCHANGED <<overwrite, seedrec, iOldest, read, mOldest, crossed>> /\ UNCHANGED listen
\* The record becomes one to send.
Advance ==
    /\ mpc = "copy" /\ copied = Pieces
    /\ iNext' = After(iNext)
    /\ mpc' = "read" /\ copied' = 0
    /\ UNCHANGED <<overwrite, seedrec, iOldest, read, mOldest, crossed>> /\ UNCHANGED listen

\* The disk loop has no more, or its server has gone: main returns, which ends
\* the other thread as well.
End ==
    /\ mpc = "read"
    /\ mpc' = "ended" /\ lpc' = "ended"
    /\ UNCHANGED <<overwrite, seedrec, iOldest, iNext, read, copied, mOldest, crossed,
                   iSend, sent, lNext, lOldest, relayed, faults>>

-----------------------------------------------------------------------------
(* ListenThread.                                                           *)

\* A client the whitelist allows connects; another one changes nothing.  When
\* accept fails the whole program exits, as in a behaviour that ends here.
Accept ==
    /\ lpc = "accept"
    /\ lpc' = "wait"
    /\ UNCHANGED <<overwrite, iSend, sent, lNext, lOldest, relayed, crossed, faults>>
    /\ UNCHANGED ring /\ UNCHANGED main

\* The test for an empty ring loads iNext, then iOldest.
LoadNext ==
    /\ lpc = "wait"
    /\ lNext' = iNext /\ lpc' = "compare"
    /\ UNCHANGED <<overwrite, iSend, sent, lOldest, relayed, crossed, faults>>
    /\ UNCHANGED ring /\ UNCHANGED main
\* A slip a maintainer could make here, for the mutation checks.
CompareForFull ==
    /\ lpc = "compare"
    /\ lpc' = IF lNext = iOldest \/ After(lNext) = iOldest THEN "wait" ELSE "pick"
    /\ UNCHANGED <<overwrite, iSend, sent, lNext, lOldest, relayed, crossed, faults>>
    /\ UNCHANGED ring /\ UNCHANGED main
Compare ==
    /\ lpc = "compare"
    /\ lpc' = IF lNext = iOldest THEN "wait" ELSE "pick"
    /\ UNCHANGED <<overwrite, iSend, sent, lNext, lOldest, relayed, crossed, faults>>
    /\ UNCHANGED ring /\ UNCHANGED main

\* The ring was empty, and the connection is found lost by a keepalive record.
\* The thread then goes on to send the oldest record, though there may be none,
\* but send_record sees that no client is connected.
KeepaliveFails ==
    /\ lpc = "compare" /\ lNext = iOldest
    /\ faults < MaxFaults /\ faults' = faults + 1
    /\ lpc' = "accept"
    /\ UNCHANGED <<overwrite, iSend, sent, lNext, lOldest, relayed, crossed>>
    /\ UNCHANGED ring /\ UNCHANGED main

\* A slip a maintainer could make here, for the mutation checks.
PickNext ==
    /\ lpc = "pick"
    /\ iSend' = iNext /\ lpc' = "send"
    /\ UNCHANGED <<overwrite, sent, lNext, lOldest, relayed, crossed, faults>>
    /\ UNCHANGED ring /\ UNCHANGED main
Pick ==
    /\ lpc = "pick"
    /\ iSend' = iOldest /\ lpc' = "send"
    /\ UNCHANGED <<overwrite, sent, lNext, lOldest, relayed, crossed, faults>>
    /\ UNCHANGED ring /\ UNCHANGED main

\* send_record: send takes what there is room for.
SendPiece ==
    LET pieces == Append(sent, seedrec[iSend][Len(sent) + 1])
    IN  /\ lpc = "send"
        /\ IF Len(pieces) = Pieces
           THEN lpc' = "load" /\ sent' = <<>> /\ relayed' = Append(relayed, pieces)
           ELSE sent' = pieces /\ UNCHANGED <<lpc, relayed>>
        /\ UNCHANGED <<overwrite, iSend, lNext, lOldest, crossed, faults>>
        /\ UNCHANGED ring /\ UNCHANGED main

\* send_record: the client has gone, or has not read for too long.
SendFails ==
    /\ lpc = "send"
    /\ faults < MaxFaults /\ faults' = faults + 1
    /\ lpc' = "accept" /\ sent' = <<>>
    /\ UNCHANGED <<overwrite, iSend, lNext, lOldest, relayed, crossed>>
    /\ UNCHANGED ring /\ UNCHANGED main

\* The record sent is removed: a load and a store.
LoadSent ==
    /\ lpc = "load"
    /\ lOldest' = iOldest /\ lpc' = "store"
    /\ UNCHANGED <<overwrite, iSend, sent, lNext, relayed, crossed, faults>>
    /\ UNCHANGED ring /\ UNCHANGED main
StoreSent ==
    /\ lpc = "store"
    /\ iOldest' = After(lOldest) /\ lpc' = "wait"
    /\ crossed' = (crossed \/ mpc \in {"load", "store"})
    /\ UNCHANGED <<overwrite, seedrec, iNext, iSend, sent, lNext, lOldest, relayed, faults>>
    /\ UNCHANGED main

-----------------------------------------------------------------------------
Init ==
    /\ overwrite \in BOOLEAN
    /\ seedrec = [i \in Slot |-> [k \in 1..Pieces |-> 0]]
    /\ iOldest = 0 /\ iNext = 0
    /\ mpc = "read" /\ read = 0 /\ copied = 0 /\ mOldest = 0
    /\ lpc = "accept" /\ iSend = 0 /\ sent = <<>> /\ lNext = 0 /\ lOldest = 0
    /\ faults = 0 /\ relayed = <<>> /\ crossed = FALSE

Main == Read \/ Check \/ LoadOldest \/ StoreOldest \/ CopyPiece \/ Advance
Listen == LoadNext \/ Compare \/ Pick \/ SendPiece \/ LoadSent \/ StoreSent

Next == Main \/ End \/ Accept \/ Listen \/ KeepaliveFails \/ SendFails

\* Both threads run; that a client connects, or that records arrive, is not
\* taken for granted.
Spec ==
    /\ Init /\ [][Next]_vars
    /\ WF_vars(Check \/ LoadOldest \/ StoreOldest \/ CopyPiece \/ Advance)
    /\ WF_vars(Listen)

-----------------------------------------------------------------------------
(* Properties.                                                             *)

\* The record with number n, and the number of records that are in the ring for
\* good.
Whole(n) == [k \in 1..Pieces |-> n]
Written == IF mpc \in {"check", "load", "store", "copy"} THEN read - 1 ELSE read

\* With depth = -1 no record is lost, sent twice, mixed with another or sent out
\* of order, although the ring fills, connections are lost inside a record and
\* nothing keeps the threads apart but the two indices.
RelaysAll == ~overwrite => \A k \in 1..Len(relayed) : relayed[k] = Whole(k)

\* What is between the indices are the records read last, oldest first, in both
\* modes and however the threads' updates of iOldest mix: a lost update shortens
\* or lengthens the queue but never lets in a record half written.
HoldsLastRecords ==
    LET n == (iNext - iOldest) % iRecords
    IN  /\ n <= Written
        /\ \A k \in 1..n : seedrec[(iOldest + k - 1) % iRecords] = Whole(Written - n + k)

\* "Worst case is a race condition could cause us to remove more than one old
\* record" (raw): when records are overwritten the client gets whole records,
\* each later than the one before, unless a removal has fallen into the sending
\* of a record or into the other thread's own removal.
SkipsOnly ==
    ~crossed => \A k \in 1..Len(relayed) :
        /\ \E n \in 1..MaxRecords : relayed[k] = Whole(n)
        /\ k > 1 => relayed[k][1] > relayed[k - 1][1]

\* The threads do not wait for each other: a pause of the main thread ends
\* unless there is no client.
PauseEnds == (mpc = "check") ~> (mpc # "check" \/ lpc = "accept")
==============================================================================
