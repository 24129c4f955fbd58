----------------------------- MODULE StatusSlots -----------------------------
(***************************************************************************)
(* include/shmstatus.h: how q330serv passes a data logger's status to      *)
(* dispstatus through shared memory, without a lock.  There are three      *)
(* slots: ixWrite is the one last filled, ixRead the one the display has   *)
(* taken; the writer fills the third.  The same steps are made over three  *)
(* pairs of indices in q330serv (status, data arrival, watchdog); each     *)
(* load and store of an index or of a field is a step here.                *)
(*                                                                         *)
(* A field holds the number of the update that stored it.  The segment     *)
(* outlives both processes; either can be killed and started again.        *)
(***************************************************************************)
EXTENDS Integers, FiniteSets

CONSTANTS
    Fields,      \* the fields of s_dlgstatus an update stores
    MaxUpdates,  \* bound on updates
    MaxKills,    \* bound on kills of either process
    NoSlot       \* an index a process has not worked out yet

ASSUME FieldsAssumption == IsFiniteSet(Fields) /\ Fields # {}
ASSUME BoundAssumption == MaxUpdates \in Nat /\ MaxKills \in Nat
ASSUME NoSlotAssumption == NoSlot \notin Int

Slots == 0..2

VARIABLES
    \* shared memory
    dlg,               \* the slots
    ixWrite, ixRead,   \* the indices
    \* q330serv
    wpc, iWriteIndex,
    stored,            \* the fields of the update stored so far
    update,            \* the number of the update under way, or the last one
    \* dispstatus
    rpc, loaded,       \* the value of ixWrite it has loaded
    copied,            \* the fields copied so far
    shown,             \* the display's copy
    \* history
    published,         \* the last update completed
    overtaken,         \* an update was once completed between the display's load and its store
    kills

writer == <<wpc, iWriteIndex, stored, update, published>>
reader == <<rpc, loaded, copied, shown>>
vars == <<dlg, ixWrite, ixRead, wpc, iWriteIndex, stored, update, rpc, loaded, copied, shown,
          published, overtaken, kills>>

TypeOK ==
    /\ dlg \in [Slots -> [Fields -> 0..MaxUpdates]]
    /\ ixWrite \in Slots /\ ixRead \in Slots
    /\ wpc \in {"wait", "try0", "try1", "store"} /\ iWriteIndex \in Slots \cup {NoSlot}
    /\ wpc = "store" => iWriteIndex # NoSlot
    /\ stored \in SUBSET Fields /\ update \in 0..MaxUpdates
    /\ rpc \in {"load", "announce", "copy"} /\ loaded \in Slots \cup {NoSlot}
    /\ rpc = "announce" => loaded # NoSlot
    /\ copied \in SUBSET Fields /\ shown \in [Fields -> 0..MaxUpdates]
    /\ published \in 0..MaxUpdates /\ overtaken \in BOOLEAN /\ kills \in 0..MaxKills

-----------------------------------------------------------------------------
(* q330serv: main's status loop, its watchdog, and miniseed_callback.      *)

\* There is something new to show.
Begin ==
    /\ wpc = "wait" /\ update < MaxUpdates
    /\ update' = update + 1 /\ stored' = {}
    /\ wpc' = "try0"
    /\ UNCHANGED <<dlg, ixWrite, ixRead, iWriteIndex, published, overtaken, kills>>
    /\ UNCHANGED reader

\* The first test: slot 0 unless one of the indices is there.
TryZero ==
    /\ wpc = "try0"
    /\ IF ixWrite # 0 /\ ixRead # 0
       THEN wpc' = "store" /\ iWriteIndex' = 0
       ELSE wpc' = "try1" /\ UNCHANGED iWriteIndex
    /\ UNCHANGED <<dlg, ixWrite, ixRead, stored, update, published, overtaken, kills>>
    /\ UNCHANGED reader

\* A slip a maintainer could make here, for the mutation checks.
TryOneIgnoringReader ==
    /\ wpc = "try1"
    /\ wpc' = "store" /\ iWriteIndex' = IF ixWrite # 1 THEN 1 ELSE 2
    /\ UNCHANGED <<dlg, ixWrite, ixRead, stored, update, published, overtaken, kills>>
    /\ UNCHANGED reader
\* The second test loads ixRead once more.
TryOne ==
    /\ wpc = "try1"
    /\ wpc' = "store"
    /\ iWriteIndex' = IF ixWrite # 1 /\ ixRead # 1 THEN 1 ELSE 2
    /\ UNCHANGED <<dlg, ixWrite, ixRead, stored, update, published, overtaken, kills>>
    /\ UNCHANGED reader

\* A field is stored.  The compiler may order the stores as it likes.
StoreField(f) ==
    /\ wpc = "store" /\ f \notin stored
    /\ dlg' = [dlg EXCEPT ![iWriteIndex][f] = update]
    /\ stored' = stored \cup {f}
    /\ UNCHANGED <<ixWrite, ixRead, wpc, iWriteIndex, update, published, overtaken, kills>>
    /\ UNCHANGED reader

\* All fields are in: the slot becomes the one to read.
Publish ==
    /\ wpc = "store" /\ stored = Fields
    /\ ixWrite' = iWriteIndex /\ published' = update
    /\ overtaken' = (overtaken \/ rpc = "announce")
    /\ iWriteIndex' = NoSlot /\ wpc' = "wait"
    /\ UNCHANGED <<dlg, ixRead, stored, update, kills>>
    /\ UNCHANGED reader

-----------------------------------------------------------------------------
(* dispstatus: the top of main's loop.                                     *)

\* A slip a maintainer could make here, for the mutation checks.
LoadReadIndex ==
    /\ rpc = "load"
    /\ loaded' = ixRead /\ rpc' = "announce"
    /\ UNCHANGED <<dlg, ixWrite, ixRead, copied, shown, overtaken, kills>>
    /\ UNCHANGED writer
\* ixRead = ixWrite is a load and a store.
LoadWriteIndex ==
    /\ rpc = "load"
    /\ loaded' = ixWrite /\ rpc' = "announce"
    /\ UNCHANGED <<dlg, ixWrite, ixRead, copied, shown, overtaken, kills>>
    /\ UNCHANGED writer

Announce ==
    /\ rpc = "announce"
    /\ ixRead' = loaded
    /\ rpc' = "copy" /\ copied' = {}
    /\ UNCHANGED <<dlg, ixWrite, loaded, shown, overtaken, kills>>
    /\ UNCHANGED writer

\* A slip a maintainer could make here, for the mutation checks.
CopyFromThird(f) ==
    /\ rpc = "copy" /\ f \notin copied
    /\ shown' = [shown EXCEPT ![f] = dlg[(ixRead + 1) % 3][f]]
    /\ copied' = copied \cup {f}
    /\ UNCHANGED <<dlg, ixWrite, ixRead, rpc, loaded, overtaken, kills>>
    /\ UNCHANGED writer
\* The slot is copied field by field.
CopyField(f) ==
    /\ rpc = "copy" /\ f \notin copied
    /\ shown' = [shown EXCEPT ![f] = dlg[ixRead][f]]
    /\ copied' = copied \cup {f}
    /\ UNCHANGED <<dlg, ixWrite, ixRead, rpc, loaded, overtaken, kills>>
    /\ UNCHANGED writer

\* The screens are shown one after the other, then the loop starts again.
Display ==
    /\ rpc = "copy" /\ copied = Fields
    /\ rpc' = "load" /\ loaded' = NoSlot /\ copied' = {}
    /\ UNCHANGED <<dlg, ixWrite, ixRead, shown, overtaken, kills>>
    /\ UNCHANGED writer

-----------------------------------------------------------------------------
(* Kills: the locals are gone, the segment stays.                          *)

KillServer ==
    /\ kills < MaxKills /\ kills' = kills + 1
    /\ wpc # "wait"
    /\ wpc' = "wait" /\ iWriteIndex' = NoSlot
    /\ UNCHANGED <<dlg, ixWrite, ixRead, stored, update, published, overtaken>>
    /\ UNCHANGED reader

KillDisplay ==
    /\ kills < MaxKills /\ kills' = kills + 1
    /\ rpc # "load"
    /\ rpc' = "load" /\ loaded' = NoSlot /\ copied' = {}
    /\ UNCHANGED <<dlg, ixWrite, ixRead, shown, overtaken>>
    /\ UNCHANGED writer

-----------------------------------------------------------------------------
\* A new segment is zeroed.
Init ==
    /\ dlg = [s \in Slots |-> [f \in Fields |-> 0]]
    /\ ixWrite = 0 /\ ixRead = 0
    /\ wpc = "wait" /\ iWriteIndex = NoSlot /\ stored = {} /\ update = 0
    /\ rpc = "load" /\ loaded = NoSlot /\ copied = {} /\ shown = [f \in Fields |-> 0]
    /\ published = 0 /\ overtaken = FALSE /\ kills = 0

Server == Begin \/ TryZero \/ TryOne \/ (\E f \in Fields : StoreField(f)) \/ Publish
Reader == LoadWriteIndex \/ Announce \/ (\E f \in Fields : CopyField(f)) \/ Display

Next == Server \/ Reader \/ KillServer \/ KillDisplay

\* dispstatus loops forever and waits for a key for a limited time only.
Spec == Init /\ [][Next]_vars /\ WF_vars(Reader)

-----------------------------------------------------------------------------
(* Properties.                                                             *)

\* What dispstatus has copied is one update, all its fields, even if q330serv or
\* dispstatus was killed in the middle of an earlier one; unless an update was
\* ever completed between the load of ixWrite and the store to ixRead.  In that
\* window the slot loaded is neither index and the writer may fill it; and if the
\* store comes between the writer's two tests, it may fill the slot last
\* published, under the copies to come.
ShowsOneUpdate ==
    rpc = "copy" /\ ~overtaken => \A f, g \in copied : shown[f] = shown[g]

\* The display never goes back to an older value of a field, though it copies
\* while q330serv is writing; with the same exception, as a mixture may hold
\* fields of an update still to be completed.
NeverBackwards == [][~overtaken => \A f \in Fields : shown'[f] >= shown[f]]_shown

\* Every update completed is shown, or a later one is.
UpdatesAreShown ==
    \A n \in 1..MaxUpdates : (published >= n) ~> (\A f \in Fields : shown[f] >= n)
==============================================================================
