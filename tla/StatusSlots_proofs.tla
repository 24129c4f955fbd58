-------------------------- MODULE StatusSlots_proofs --------------------------
(***************************************************************************)
(* Theorems about StatusSlots, for any fields and any number of updates    *)
(* and kills: unless an update was completed between the display's load    *)
(* and its store, the display shows whole updates and never goes back.     *)
(***************************************************************************)
EXTENDS StatusSlots, TLAPS

\* The slot being filled is neither index; between the two tests one of the
\* indices is 0, or the display has announced the slot last published.
WriterApart ==
    /\ wpc = "store" => iWriteIndex \in Slots /\ iWriteIndex # ixWrite /\ iWriteIndex # ixRead
    /\ wpc = "try1" => ixWrite = 0 \/ ixRead = 0 \/ ixRead = ixWrite

\* What the writer has stored of the update under way.
UpdateStored ==
    /\ wpc \in {"try0", "try1"} => stored = {}
    /\ wpc = "store" => \A f \in stored : dlg[iWriteIndex][f] = update

\* The slot published is one whole update.
PublishedWhole == published <= update /\ \A f \in Fields : dlg[ixWrite][f] = published

\* The slot loaded is still the one published until it is announced.
LoadedCurrent == rpc = "announce" => loaded = ixWrite

\* The slot announced is one whole update, not older than what is shown.
AnnouncedWhole ==
    rpc = "copy" =>
        /\ \A f, g \in Fields : dlg[ixRead][f] = dlg[ixRead][g]
        /\ \A f \in Fields : shown[f] <= dlg[ixRead][f] /\ dlg[ixRead][f] <= published
        /\ \A f \in copied : shown[f] = dlg[ixRead][f]

ShownPublished == \A f \in Fields : shown[f] <= published

Apart ==
    WriterApart /\ UpdateStored /\ PublishedWhole /\ LoadedCurrent /\ AnnouncedWhole /\ ShownPublished

\* The inductive invariant.
SInv == TypeOK /\ (~overtaken => Apart)

USE DEF Slots

-----------------------------------------------------------------------------
LEMMA InitSInv == Init => SInv
<1> SUFFICES ASSUME Init PROVE SInv
  OBVIOUS
<1>1. TypeOK
  <2>1. 0 \in 0..MaxUpdates /\ 0 \in 0..MaxKills
    BY BoundAssumption
  <2>2. dlg \in [Slots -> [Fields -> 0..MaxUpdates]] /\ shown \in [Fields -> 0..MaxUpdates]
    BY <2>1 DEF Init
  <2>3. /\ ixWrite \in Slots /\ ixRead \in Slots
        /\ wpc = "wait" /\ iWriteIndex = NoSlot /\ stored = {} /\ update = 0
        /\ rpc = "load" /\ loaded = NoSlot /\ copied = {}
        /\ published = 0 /\ kills = 0
    BY DEF Init
  <2>4. overtaken \in BOOLEAN
    BY Zenon DEF Init
  <2> HIDE DEF Slots
  <2> QED BY <2>1, <2>2, <2>3, <2>4 DEF TypeOK
<1>2. Apart
  BY DEF Init, Apart, WriterApart, UpdateStored, PublishedWhole, LoadedCurrent, AnnouncedWhole, ShownPublished
<1> QED BY <1>1, <1>2 DEF SInv

\* Every step keeps the types.
LEMMA TypeStep == TypeOK /\ [Next]_vars => TypeOK'
<1> SUFFICES ASSUME TypeOK, [Next]_vars PROVE TypeOK'
  OBVIOUS
<1> USE BoundAssumption, NoSlotAssumption DEF TypeOK, reader, writer
<1>1. CASE Begin
  BY <1>1 DEF Begin
<1>2. CASE TryZero
  BY <1>2 DEF TryZero
<1>3. CASE TryOne
  BY <1>3 DEF TryOne
<1>4. ASSUME NEW f \in Fields, StoreField(f) PROVE TypeOK'
  <2>1. wpc = "store" /\ iWriteIndex \in Slots \cup {NoSlot}
    BY <1>4 DEF StoreField
  <2>2. dlg' \in [Slots -> [Fields -> 0..MaxUpdates]]
    BY <1>4 DEF StoreField
  <2> QED BY <1>4, <2>2 DEF StoreField
<1>5. CASE Publish
  BY <1>5 DEF Publish
<1>6. CASE LoadWriteIndex
  BY <1>6 DEF LoadWriteIndex
<1>7. CASE Announce
  BY <1>7 DEF Announce
<1>8. ASSUME NEW f \in Fields, CopyField(f) PROVE TypeOK'
  BY <1>8 DEF CopyField
<1>9. CASE Display
  BY <1>9 DEF Display
<1>10. CASE KillServer
  BY <1>10 DEF KillServer
<1>11. CASE KillDisplay
  BY <1>11 DEF KillDisplay
<1>12. CASE UNCHANGED vars
  BY <1>12 DEF vars
<1> QED BY <1>1, <1>2, <1>3, <1>4, <1>5, <1>6, <1>7, <1>8, <1>9, <1>10, <1>11, <1>12 DEF Next, Server, Reader

\* Every step of an undisturbed display keeps the rest.
LEMMA ApartStep == TypeOK /\ Apart /\ [Next]_vars /\ ~overtaken' => Apart'
<1> SUFFICES ASSUME TypeOK, Apart, [Next]_vars, ~overtaken' PROVE Apart'
  OBVIOUS
<1> DEFINE Parts == WriterApart /\ UpdateStored /\ PublishedWhole /\ LoadedCurrent /\ AnnouncedWhole
                    /\ ShownPublished
<1>0. Parts /\ TypeOK
  BY DEF Apart
<1> SUFFICES Parts'
  BY DEF Apart
<1> USE <1>0 DEF TypeOK, reader, writer
<1> USE DEF WriterApart, UpdateStored, PublishedWhole, LoadedCurrent, AnnouncedWhole, ShownPublished
<1>1. CASE Begin
  BY <1>1 DEF Begin
<1>2. CASE TryZero
  BY <1>2 DEF TryZero
<1>3. CASE TryOne
  BY <1>3 DEF TryOne
<1>4. ASSUME NEW f \in Fields, StoreField(f) PROVE Parts'
  <2>1. /\ dlg'[ixWrite] = dlg[ixWrite] /\ dlg'[ixRead] = dlg[ixRead]
        /\ dlg'[iWriteIndex][f] = update
        /\ \A g \in Fields \ {f} : dlg'[iWriteIndex][g] = dlg[iWriteIndex][g]
    BY <1>4 DEF StoreField
  <2> QED BY <1>4, <2>1 DEF StoreField
<1>5. CASE Publish
  <2>1. rpc # "announce"
    BY <1>5 DEF Publish
  <2>2. WriterApart' /\ UpdateStored' /\ LoadedCurrent'
    BY <1>5, <2>1 DEF Publish
  <2>3. PublishedWhole'
    BY <1>5 DEF Publish
  <2>4. AnnouncedWhole' /\ ShownPublished'
    BY <1>5 DEF Publish
  <2> QED BY <2>2, <2>3, <2>4
<1>6. CASE LoadWriteIndex
  BY <1>6 DEF LoadWriteIndex
<1>7. CASE Announce
  <2>1. ixRead' = ixWrite /\ UNCHANGED <<dlg, ixWrite, shown, published>> /\ copied' = {}
    BY <1>7 DEF Announce
  <2>2. AnnouncedWhole'
    BY <2>1
  <2>3. WriterApart'
    BY <1>7, <2>1 DEF Announce
  <2> QED BY <1>7, <2>1, <2>2, <2>3 DEF Announce
<1>8. ASSUME NEW f \in Fields, CopyField(f) PROVE Parts'
  BY <1>8 DEF CopyField
<1>9. CASE Display
  BY <1>9 DEF Display
<1>10. CASE KillServer
  BY <1>10 DEF KillServer
<1>11. CASE KillDisplay
  BY <1>11 DEF KillDisplay
<1>12. CASE UNCHANGED vars
  BY <1>12 DEF vars
<1> QED BY <1>1, <1>2, <1>3, <1>4, <1>5, <1>6, <1>7, <1>8, <1>9, <1>10, <1>11, <1>12 DEF Next, Server, Reader

\* Once overtaken, the history says so for good.
LEMMA OvertakenStays == ASSUME TypeOK, [Next]_vars, overtaken PROVE overtaken'
BY DEF TypeOK, Next, Server, Reader, vars, Begin, TryZero, TryOne, StoreField, Publish, LoadWriteIndex,
       Announce, CopyField, Display, KillServer, KillDisplay

LEMMA SInvStep == SInv /\ [Next]_vars => SInv'
BY TypeStep, ApartStep, OvertakenStays DEF SInv

-----------------------------------------------------------------------------
\* The invariant holds for any fields and bounds.
THEOREM StatusInvariance == Spec => []SInv
<1> QED BY InitSInv, SInvStep, PTL DEF Spec

\* Indices, slots and fields keep their types.
THEOREM StatusTypes == Spec => []TypeOK
<1>1. SInv => TypeOK
  BY DEF SInv
<1> QED BY StatusInvariance, <1>1, PTL

\* What dispstatus has copied is one update, unless q330serv completed one between
\* the load of ixWrite and the store to ixRead.
THEOREM CopiesOneUpdate == Spec => []ShowsOneUpdate
<1>1. SInv => ShowsOneUpdate
  BY DEF SInv, TypeOK, Apart, AnnouncedWhole, ShowsOneUpdate
<1> QED BY StatusInvariance, <1>1, PTL

\* With the same exception the display never goes back to an older value.
THEOREM DisplayGoesForward == Spec => NeverBackwards
<1>1. SInv /\ [Next]_vars => [~overtaken => \A f \in Fields : shown'[f] >= shown[f]]_shown
  <2> SUFFICES ASSUME SInv, Next, ~overtaken, shown' # shown
               PROVE  \A f \in Fields : shown'[f] >= shown[f]
    BY DEF vars
  <2>1. PICK f \in Fields : CopyField(f)
    BY DEF Next, Server, Reader, Begin, TryZero, TryOne, StoreField, Publish, LoadWriteIndex, Announce,
           Display, KillServer, KillDisplay, reader
  <2>2. shown \in [Fields -> 0..MaxUpdates] /\ dlg[ixRead][f] \in 0..MaxUpdates
        /\ shown[f] <= dlg[ixRead][f]
    BY <2>1 DEF SInv, TypeOK, Apart, AnnouncedWhole, CopyField
  <2> QED BY <2>1, <2>2, BoundAssumption DEF CopyField
<1> QED BY StatusInvariance, <1>1, PTL DEF Spec, NeverBackwards
==============================================================================
